----------------------------- MODULE MCExchange -----------------------------
(* Values for Exchange: MACs of two bytes; an entry that is skipped, one      *)
(* that another replaces; tables of two rows, and what may be wrong in one.   *)
EXTENDS Exchange, TLC

CONSTANTS alpha, beta

Entry(name, mac, ip) == [name |-> name, mac |-> mac, ip |-> ip]

Colons == <<"h", "h", ":", "h", "h">>
Bare   == <<"h", "h", "h", "h">>
Spaced == <<"h", "h", " ", " ", ":">>
Wrong  == <<"h", "x", "h", "h">>
Short  == <<" ", "h", "h", ":">>

MCEnvs ==
    {<<Entry(alpha, Colons, None)>>,
     <<Entry(alpha, Bare, "10.0.0.1")>>,
     <<Entry(alpha, Spaced, "10.0.0.1")>>,
     <<Entry(alpha, Wrong, None), Entry(beta, <<" ">>, None)>>,
     <<Entry(beta, Wrong, "10.0.0.1")>>,
     <<Entry(alpha, Bare, None), Entry(None, Bare, None), Entry(alpha, Short, "10.0.0.1")>>}

\* What FromHex stands for, character by character from the left.
Scanned(s) ==
    LET bytes[i \in 1 .. Len(s) + 1] ==
            IF i = Len(s) + 1 THEN 0
            ELSE IF s[i] = " " THEN bytes[i + 1]
            ELSE IF s[i] = "h" /\ i < Len(s) /\ s[i + 1] = "h" /\ bytes[i + 2] >= 0
                 THEN 1 + bytes[i + 2]
            ELSE -1
    IN  bytes[1]

ASSUME ScanAssumption ==
    \A n \in 0 .. 5 : \A s \in [1 .. n -> Kinds] :
        FromHex(s) = Scanned(s) /\ Unseparated(s) = SelectSeq(s, LAMBDA k : k # ":")

MCSecrets == {[api |-> t, agent |-> t] : t \in {"plain", "fancy"}}
MCWhitelist == [a \in Names |-> {"nginx"}]

Gpu(gpu, xcp, n, enc) ==
    [gpu |-> gpu, xcp |-> xcp, power_w |-> n, gpu_temp_c |-> "50", mem_temp_c |-> "60",
     gfx_clk_mhz |-> "2100", gfx_pct |-> "7", mem_pct |-> "3", enc_pct |-> enc,
     dec_pct |-> "1", vram_used_gb |-> n, vram_total_gb |-> "16"]

MCFinite == {"0", "1", "3", "7", "16", "50", "60", "2100", "12.5", "40"}
MCFloats == MCFinite \cup {"nan"}
MCWhole == MCFinite \ {"12.5"}

MCHosts ==
    {[cpu_temp_c |-> t] @@ ("ram.percent" :> "7") @@ ("ram.used_mb" :> "2100")
        @@ ("swap.percent" :> "0") @@ ("swap.used_mb" :> "1") : t \in {"40", NoValue}}

\* Two GPUs, and one of two partitions.
MCBoards ==
    {<<Gpu("0", "0", "40", "3"), Gpu("1", "0", "12.5", NoValue)>>,
     <<Gpu("0", "0", "40", NoValue), Gpu("0", "1", "7", "1")>>}

Mangled(row) == [header |-> EXPECTED_HEADER, rows |-> <<Printed(Gpu("0", "0", "40", "3")), row>>]

MCOtherTables ==
    LET row == Printed(Gpu("1", "0", "40", "3")) IN
    {Mangled(SubSeq(row, 1, 14)), Mangled(SubSeq(row, 1, 20)), Mangled(SubSeq(row, 1, 5)),
     Mangled([row EXCEPT ![2] = "N/A"]), Mangled([row EXCEPT ![11] = "N/A"]),
     Mangled([row EXCEPT ![11] = "nan"]),
     [header |-> Tail(EXPECTED_HEADER), rows |-> <<row>>],
     [header |-> EXPECTED_HEADER, rows |-> <<>>]}
=============================================================================
