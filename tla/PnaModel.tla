------------------------------ MODULE PnaModel ------------------------------
(***************************************************************************)
(* PNAModel of util/intop/model.py: the logs that were added, the settings *)
(* and the cached answer of get_data.                                      *)
(*                                                                         *)
(* The methods are taken apart where another thread may come in between:   *)
(* add_file appends and then invalidates, get_data looks at the cache, at  *)
(* the data and then stores.  What a method raises is part of the model.   *)
(*                                                                         *)
(* cache['filters'] is no variable: get_data makes it the same dictionary  *)
(* as settings['filters'], which the interfaces change in place, so the    *)
(* comparison of the two finds no difference.                              *)
(***************************************************************************)
EXTENDS LogParser

CONSTANT OctetBits          \* bits of an octet of an address, 8 in the code

ASSUME ModelAssumption == OctetBits \in Nat \ {0}

VARIABLES
    all_data,   \* the logs added: [log, flows]
    settings,   \* [sort_key, threshold, filters]
    cache       \* [key, threshold, data, valid]

modelVars == <<all_data, settings, cache>>

\* The names under which the interfaces set filters.
FilterNames == {"local-ip", "remote-ip", "source-port", "destination-port",
                "begin-time", "end-time", "latest"}

\* What is typed for an address: octets and, after a slash, the bits to compare.
\* What is typed for a port or a time does not matter to the model.
NoMask == -1
FilterValues == [octets : [1 .. 4 -> Nat], bits : Nat \cup {NoMask}]

NoKey == "None"

-----------------------------------------------------------------------------
(* filter_reject and do_filter.                                            *)

Octet == 2 ^ OctetBits
int2ip(addr) == [i \in 1 .. 4 |-> (addr \div Octet ^ (4 - i)) % Octet]
ip2int(ip) == ((ip[1] * Octet + ip[2]) * Octet + ip[3]) * Octet + ip[4]

\* The leading bits, as the mask keeps them.  An octet typed may be too large.
Masked(addr, bits) ==
    (addr % Octet ^ 4) \div 2 ^ (IF bits >= 4 * OctetBits THEN 0 ELSE 4 * OctetBits - bits)

\* Times are accepted if they match their regular expression (the test is the
\* wrong way round: what follows it is reached without a match, and raises an
\* error).  do_filter asks for one time only under the name it is set, 'latest',
\* and its interface does not set one that does not match.
filter_reject(f_name, value) ==
    /\ f_name \in DOMAIN settings.filters
    /\ LET f == settings.filters[f_name] IN
       \/ /\ f_name \in {"local-ip", "remote-ip"}
          /\ IF f.bits = NoMask THEN int2ip(value) # f.octets
             ELSE Masked(value, f.bits) # Masked(ip2int(f.octets), f.bits)
       \/ f_name \in {"source-port", "destination-port"}

\* Mutant: only the first flow of a log is kept.
do_filter_first(data) ==
    [i \in DOMAIN data |-> [data[i] EXCEPT !.flows = SubSeq(@, 1, 1)]]

\* The flows of a log that are not rejected, under the names do_filter uses.
KeptFlows(flows) ==
    LET Kept(flow) == /\ ~filter_reject("local_ip", flow.local_ip)
                      /\ ~filter_reject("remote_ip", flow.remote_ip)
                      /\ ~filter_reject("begin_time", 0)
        new_flows[n \in 0 .. Len(flows)] ==
            IF n = 0 THEN <<>>
            ELSE IF Kept(flows[n]) THEN Append(new_flows[n - 1], flows[n])
            ELSE new_flows[n - 1]
    IN  new_flows[Len(flows)]

\* The logs with the flows that are kept.  Times do not matter to
\* filter_reject, so one test of them stands for all logs.
do_filter(data) ==
    LET InTime == ~filter_reject("end_time", 0) /\ ~filter_reject("latest", 0)
        logs == IF InTime THEN data ELSE <<>>
    IN  [i \in DOMAIN logs |-> [logs[i] EXCEPT !.flows = KeptFlows(@)]]

-----------------------------------------------------------------------------
(* add_file.                                                               *)

\* Mutant: the cached answer stays valid.
InvalidateNot == UNCHANGED cache

\* The item of a log, as read from its file.
FileItem(log, file) == [log |-> log, flows |-> parse(file)]

AppendItem(item) == all_data' = Append(all_data, item)
Invalidate == cache' = [cache EXCEPT !.valid = FALSE]

-----------------------------------------------------------------------------
(* get_data.                                                               *)

CacheHit ==
    /\ cache.key = settings.sort_key
    /\ cache.threshold = settings.threshold
    /\ cache.valid

\* A log of do_filter has no 'watch-data' and no 'end-time', which every
\* branch but that of raw=True reads: KeyError, unless there is no log.
derive_raises(data) == data # <<>>

\* Answers are kept, those of the sort key 'raw' are not.
Store(key, threshold, data) ==
    cache' = IF key = "raw" THEN cache
             ELSE [key |-> key, threshold |-> threshold, data |-> data, valid |-> TRUE]

ModelInit ==
    /\ all_data = <<>>
    /\ settings = [sort_key |-> "sessions", threshold |-> 0, filters |-> <<>>]
    /\ cache = [key |-> NoKey, threshold |-> 0, data |-> <<>>, valid |-> FALSE]
=============================================================================
