------------------------------- MODULE Config -------------------------------
(***************************************************************************)
(* How `nx run' and `nx serve' find their configuration: flags, NX_*       *)
(* variables, the TOML file and defaults are merged field by field, and    *)
(* checks run on the file alone, on the variables alone and on the result. *)
(* A value is a number; 0 is what the field's validator refuses (a blank   *)
(* text, an empty path or list, zero, a duration that does not parse) and  *)
(* FALSE for a switch.  Management, logging and observability settings are *)
(* left out: they take no part in what is resolved here.                   *)
(***************************************************************************)
EXTENDS Integers, FiniteSets, Sequences, FiniteSetsExt

CONSTANTS
    SettingGroups,         \* sets of settings that are tried together
    MaxSettings,           \* bound: number of settings
    DefaultCandidates,     \* DEFAULT_MAX_PEER_CANDIDATES
    MaxBootstrapCandidates \* MAX_BOOTSTRAP_CANDIDATES

VARIABLES
    settings,    \* what the operator has set: records [layer, field, value]
    effective    \* the outcome

configVars == <<settings, effective>>

Layers == <<"cli", "env", "file">>
FieldsOf ==
    [static |-> {},
     bootstrap |-> {"seeds", "refresh_interval", "retry_initial", "retry_max", "stale_after", "max_seeds"},
     mdns |-> {"instance_name", "max_instances"},
     dns_srv |-> {"service_name", "retry_interval", "max_refresh_interval"},
     file |-> {"path", "poll_interval", "max_file_bytes"}]
Required == [bootstrap |-> {"seeds"}, mdns |-> {"instance_name"}, dns_srv |-> {"service_name"},
             file |-> {"path"}, static |-> {}]
Modes == DOMAIN FieldsOf
Network == {"listen", "peers", "serialization_format"}
Tls == {"cert", "key", "ca", "allowed_peers", "insecure"}
Limits == {"queued_ops_limit", "reconnect_initial_delay", "reconnect_max_delay"}
CliFields == {"mode", "sync_only"} \union Network \union Tls \union UNION {Required[m] : m \in Modes}
EnvFields == {"mode", "cluster_id", "max_candidates"} \union Network \union Tls \union UNION {FieldsOf[m] : m \in Modes}
FileFields == EnvFields \union Limits
DefaultValue(field) == IF field \in {"retry_max", "reconnect_max_delay"} THEN 2 ELSE 1

-----------------------------------------------------------------------------
(* Reading the layers.  given is a set of settings.                        *)

Has(given, layer, field) == \E s \in given : s.layer = layer /\ s.field = field
Value(given, layer, field) == (CHOOSE s \in given : s.layer = layer /\ s.field = field).value
IsSet(given, field) == \E layer \in {"cli", "env", "file"} : Has(given, layer, field)

First(given, field, default) ==
    LET set == {i \in 1 .. 3 : Has(given, Layers[i], field)} IN
    IF set = {} THEN default ELSE Value(given, Layers[Min(set)], field)

\* An empty path in a variable is no path; any other blank variable is refused.
from_env == {s \in settings : ~(s.layer = "env" /\ s.field \in {"path", "cert", "key", "ca"} /\ s.value = 0)}
EnvReadable ==
    \A s \in from_env :
        s.layer = "env" /\ s.field \in {"listen", "peers", "allowed_peers", "seeds", "instance_name", "service_name", "cluster_id"}
            => s.value # 0

-----------------------------------------------------------------------------
(* Discovery: the mode, and fields that belong to one mode each.           *)

Mode(given) == First(given, "mode", "static")

\* Faulty variant: only the layer that chose the mode is checked.
validate_discovery_mode_fields_chosen(given) ==
    \A s \in given, m \in Modes \ {Mode(given)} :
        Has(given, s.layer, "mode") /\ Value(given, s.layer, "mode") = Mode(given) => s.field \notin FieldsOf[m]

\* A field of another mode is refused unless its layer is below the one that
\* chose the mode.
validate_discovery_mode_fields(given) ==
    LET include_env == ~Has(given, "cli", "mode")
        include_file == include_env /\ ~Has(given, "env", "mode")
        counts(layer) == \/ layer = "cli"
                         \/ layer = "env" /\ include_env
                         \/ layer = "file" /\ include_file
    IN \A s \in given, m \in Modes \ {Mode(given)} : counts(s.layer) => s.field \notin FieldsOf[m]

validate_discovery_candidate_capacity(max_candidates, bootstrap) ==
    /\ max_candidates # 0
    /\ bootstrap => max_candidates <= MaxBootstrapCandidates

DiscoveryField(given, field) == First(given, field, DefaultValue(field))
MaxCandidates(given) == First(given, "max_candidates", DefaultCandidates)

resolve_discovery_config(given) ==
    LET mode == Mode(given) IN
    /\ validate_discovery_mode_fields(given)
    /\ DiscoveryField(given, "cluster_id") # 0
    /\ validate_discovery_candidate_capacity(MaxCandidates(given), mode = "bootstrap")
    /\ \A field \in Required[mode] : IsSet(given, field)
    /\ \A field \in FieldsOf[mode] : DiscoveryField(given, field) # 0
    /\ mode = "bootstrap" => DiscoveryField(given, "retry_initial") <= DiscoveryField(given, "retry_max")

-----------------------------------------------------------------------------
(* TLS, the file on its own, and the sync configuration.                   *)

\* The file's empty list is no list; an empty flag is one, which allows anybody.
file_allowed_peers_as_csv(given) == {s \in given : ~(s.layer = "file" /\ s.field = "allowed_peers" /\ s.value = 0)}
allowed_peers(given) == First(file_allowed_peers_as_csv(given), "allowed_peers", 0)
has_allowed_peers(given) == IsSet(file_allowed_peers_as_csv(given), "allowed_peers")
\* A switch is on if any layer turns it on.
tls_insecure(given) == \E s \in given : s.field = "insecure" /\ s.value = 1

validate_tls_flags(given) ==
    /\ IsSet(given, "cert") = IsSet(given, "key")
    /\ tls_insecure(given) => ~IsSet(given, "ca") /\ ~has_allowed_peers(given)
    /\ has_allowed_peers(given) /\ ~tls_insecure(given) => IsSet(given, "ca")

build_tls_config(given) ==
    LET on == IsSet(given, "cert") /\ IsSet(given, "key") /\ ~tls_insecure(given) IN
    [kind |-> IF tls_insecure(given) THEN "insecure" ELSE IF on THEN "certificates" ELSE "none",
     ca |-> IF on THEN First(given, "ca", 0) ELSE 0,
     allowed_peers |-> IF on THEN allowed_peers(given) ELSE 0]

\* On its own the file is stricter than the result: insecure excludes even an
\* empty list, and its discovery fields must fit the file's own mode.
validate_run_file_config ==
    LET file == {s \in settings : s.layer = "file"} IN
    /\ \A s \in file : s.field \in {"listen", "cert", "key", "ca"} \union Limits => s.value # 0
    /\ validate_tls_flags(file)
    /\ tls_insecure(file) => ~IsSet(file, "allowed_peers")
    /\ IsSet(file, "reconnect_initial_delay") = IsSet(file, "reconnect_max_delay")
    /\ IsSet(file, "reconnect_max_delay") =>
           Value(file, "file", "reconnect_initial_delay") <= Value(file, "file", "reconnect_max_delay")
    /\ resolve_discovery_config(file)

\* What a variable is about; the intervals and limits of discovery alone do
\* not ask for synchronization.
has_sync_inputs(given) ==
    \E s \in given :
        /\ s.layer = "env"
        /\ \/ s.field \in {"mode", "cluster_id", "max_candidates"} \union UNION {Required[m] : m \in Modes}
           \/ s.field \in Network \union Tls /\ ~(s.field = "insecure" /\ s.value = 0)

force_sync(given) ==
    \/ \E s \in given : s.layer = "file" /\ s.field \in Limits \union Tls \union Network
    \/ has_sync_inputs(given)
    \/ Mode(given) # "static"
    \/ build_tls_config(given).kind # "none"
    \/ IsSet(given, "serialization_format")

Peers(given) == First(given, "peers", 0)
\* The configuration asks for synchronization; it then needs an address.
Synchronizes(given) ==
    IsSet(given, "listen") \/ Peers(given) > 0 \/ force_sync(given)
build_sync_config(given) == Synchronizes(given) => IsSet(given, "listen")

apply_limit_config(given, field) == First(given, field, DefaultValue(field))

-----------------------------------------------------------------------------
(* The command.                                                            *)

Pending == [status |-> "pending", mode |-> "static", max_candidates |-> 0, fields |-> <<>>, peers |-> 0,
            sync |-> FALSE, listen |-> FALSE, tls |-> build_tls_config({}), delays |-> <<0, 0>>]

ConfigInit == settings = {} /\ effective = Pending

\* Raising the capacity to the number of peers comes before it is checked again.
Capacity(given) ==
    LET max == Max({MaxCandidates(given), Peers(given)}) IN
    [max |-> max, ok |-> validate_discovery_candidate_capacity(max, Mode(given) = "bootstrap")]

resolve_with_env(given) ==
    /\ resolve_discovery_config(given)
    /\ validate_tls_flags(given)
    /\ Capacity(given).ok
    /\ build_sync_config(given)

\* Options that print or wait for synchronized state.
validate_sync_only(given) == Has(given, "cli", "sync_only") => Synchronizes(given)

runtime_config_from_effective(given) ==
    LET mode == Mode(given) IN
    [status |-> "accepted", mode |-> mode, max_candidates |-> Capacity(given).max,
     fields |-> [f \in FieldsOf[mode] |-> DiscoveryField(given, f)],
     peers |-> Peers(given), sync |-> Synchronizes(given), listen |-> IsSet(given, "listen"),
     tls |-> build_tls_config(given),
     delays |-> <<apply_limit_config(given, "reconnect_initial_delay"), apply_limit_config(given, "reconnect_max_delay")>>]

\* The file is read first, then the variables, then everything is merged.
resolve_node_args ==
    /\ effective.status = "pending"
    /\ effective' = IF validate_run_file_config /\ EnvReadable /\ resolve_with_env(from_env) /\ validate_sync_only(from_env)
                    THEN runtime_config_from_effective(from_env)
                    ELSE [Pending EXCEPT !.status = "refused"]
    /\ UNCHANGED settings

Settable(s) == s.field \in (CASE s.layer = "cli" -> CliFields [] s.layer = "env" -> EnvFields [] s.layer = "file" -> FileFields)

Set(s) ==
    /\ effective.status = "pending"
    /\ Cardinality(settings) < MaxSettings
    /\ ~Has(settings, s.layer, s.field)
    /\ settings' = settings \union {s}
    /\ UNCHANGED effective

ConfigNext ==
    \/ \E choice \in SettingGroups : settings \subseteq choice /\ \E s \in choice : Settable(s) /\ Set(s)
    \/ resolve_node_args

-----------------------------------------------------------------------------
Rank(layer) == CHOOSE i \in 1 .. 3 : Layers[i] = layer

(* A discovery field that was set takes effect, unless a higher layer sets *)
(* the same field or has chosen another mode; nothing is ignored silently  *)
(* (config.rs:1015).                                                       *)
NothingIsIgnored ==
    effective.status = "accepted" =>
        \A s \in from_env, m \in Modes : s.field \in FieldsOf[m] =>
            \/ \E t \in from_env : /\ Rank(t.layer) < Rank(s.layer)
                                   /\ t.field = s.field \/ (t.field = "mode" /\ t.value # m)
            \/ effective.mode = m /\ effective.fields[s.field] = s.value

(* A configuration that says anything of an address, peers, a format, TLS, *)
(* limits or dynamic discovery never runs without synchronization: it      *)
(* listens or it is refused.  What asks for nothing is a switch that is    *)
(* off, an empty list of peers, and on the command line a CA or a list of  *)
(* allowed peers without a certificate; in the variables and in the file   *)
(* these ask for it as well (config.rs:266).                               *)
AsksForNothing(s) ==
    \/ s.layer = "cli" /\ s.field \in {"ca", "allowed_peers"}
    \/ s.layer = "cli" /\ s.field = "peers" /\ s.value = 0
    \/ s.layer # "file" /\ s.field = "insecure" /\ s.value # 1

SyncIsNotDropped ==
    effective.status = "accepted" =>
        /\ effective.sync => effective.listen
        /\ ~effective.sync =>
               /\ effective.mode = "static" /\ effective.peers = 0 /\ effective.tls.kind = "none"
               /\ \A s \in from_env :
                     s.field \in Network \union Tls \union Limits \union {"sync_only"} => AsksForNothing(s)

(* Every configured peer finds room among the candidates, within what a    *)
(* bootstrap exchange can carry, and delays are in order although their    *)
(* two ends may come from different layers (config.rs:249).                *)
AcceptedIsConsistent ==
    effective.status = "accepted" =>
        /\ effective.peers <= effective.max_candidates
        /\ effective.delays[1] <= effective.delays[2]
        /\ effective.mode = "bootstrap" =>
               /\ effective.max_candidates <= MaxBootstrapCandidates
               /\ effective.fields["retry_initial"] <= effective.fields["retry_max"]

(* Layers may not combine into a contradiction: whoever names a            *)
(* certificate or a key has TLS; without verification nothing names a CA   *)
(* or allowed peers; with certificates a CA that any layer names verifies  *)
(* the peers, and a list that no layer leaves empty restricts them, never  *)
(* without a CA.  A CA and a list without certificate and key are accepted *)
(* and have no effect: there is no TLS then (config.rs:1571, 1721).        *)
OneTlsPolicy ==
    LET naming(field) == {s \in from_env : s.field = field} IN
    effective.status = "accepted" =>
        /\ naming("cert") \union naming("key") # {} => effective.tls.kind # "none"
        /\ effective.tls.kind = "insecure" =>
               naming("ca") = {} /\ \A s \in naming("allowed_peers") : s.value = 0
        /\ effective.tls.kind = "certificates" =>
               /\ naming("ca") # {} => effective.tls.ca # 0
               /\ naming("allowed_peers") # {} /\ (\A s \in naming("allowed_peers") : s.value # 0) =>
                      effective.tls.allowed_peers # 0
        /\ effective.tls.allowed_peers # 0 => effective.tls.ca # 0

(* Layers that are consistent in themselves combine to one consistent      *)
(* configuration, in which every setting counts, or are refused            *)
(* (resolve_node_args).                                                    *)
SettingsAgree ==
    /\ NothingIsIgnored
    /\ SyncIsNotDropped
    /\ AcceptedIsConsistent
    /\ OneTlsPolicy
=============================================================================
