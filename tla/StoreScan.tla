----------------------------- MODULE StoreScan -----------------------------
(***************************************************************************)
(* The ordered scans of the store.  A key is a number and keys are in the  *)
(* order of numbers; a prefix is the set of keys that start with it, an    *)
(* interval.  A scan returns the page of a set of keys.                    *)
(***************************************************************************)
EXTENDS Integers, Sequences, FiniteSets, FiniteSetsExt

\* The keys in the order of the store.
Ordered(keys) == [i \in 1 .. Cardinality(keys) |-> CHOOSE k \in keys : Cardinality({j \in keys : j < k}) = i - 1]

\* A page is the first limit of the keys that a scan may show, in order.
Page(keys, limit) ==
    Ordered({k \in keys : Cardinality({j \in keys : j < k}) < limit})

\* start_after is 0 for a scan from the first key of the prefix.
keys_prefix_page_after(keys, prefix, start_after, limit, excluded) ==
    Page({k \in keys \intersect prefix : k > start_after} \ excluded, limit)

\* The older scans count the keys to skip.
keys_prefix_page(keys, prefix, cursor, limit, excluded) ==
    LET shown == Page((keys \intersect prefix) \ excluded, cursor + limit)
    IN SubSeq(shown, cursor + 1, Len(shown))

\* Scans of rows select as those of keys do; a row is named by its key.
scan_prefix_page_after(keys, prefix, start_after, limit, excluded) ==
    keys_prefix_page_after(keys, prefix, start_after, limit, excluded)
scan_prefix_page(keys, prefix, cursor, limit, excluded) ==
    keys_prefix_page(keys, prefix, cursor, limit, excluded)

\* The sum of bytes[k] over a set of keys, as the size of a set of units.
Total(bytes, keys) == Cardinality(UNION {{k} \X (1 .. bytes[k]) : k \in keys})

\* The bounded scan of records of these sizes: as many records as both limits
\* allow; it fails at a record that it reaches and that alone is too large.
scan_prefix_page_after_bounded(bytes, start_after, max_records, max_bytes) ==
    LET ahead == {k \in DOMAIN bytes : k > start_after}
        upTo == [k \in ahead |-> {j \in ahead : j <= k}]
        within == {k \in ahead : Cardinality(upTo[k]) <= max_records}
        rows == {k \in within : Total(bytes, upTo[k]) <= max_bytes}
    IN [rows |-> rows,
        oversized |-> \E k \in within : bytes[k] > max_bytes /\ upTo[k] \subseteq rows \union {k}]
=============================================================================
