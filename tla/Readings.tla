------------------------------ MODULE Readings ------------------------------
(***************************************************************************)
(* What Home Assistant and the web page make of an agent's telemetry:      *)
(* parse_amd_smi and the sensors of src/custom_components/oscontroll, and  *)
(* parseAmdSmi of src/main/web/app.js.                                     *)
(*                                                                         *)
(* A table is a header and rows, each a sequence of tokens; token i of the *)
(* source is number i + 1 here.                                            *)
(***************************************************************************)
EXTENDS Naturals, Sequences

CONSTANTS
    NoValue,    \* Python's None, JavaScript's null
    Floats,     \* the tokens float() reads: numbers, but also "nan"
    Finite,     \* those parseFloat makes a finite number of: also "7x"
    Whole       \* those int() reads

ASSUME ReadingsAssumption == "N/A" \notin Whole \cup Floats \cup Finite

EXPECTED_HEADER == <<"GPU", "XCP", "POWER", "GPU_T", "MEM_T", "GFX_CLK",
                     "GFX%", "MEM%", "ENC%", "DEC%", "VRAM_USAGE">>

NothingRead == [verdict |-> "none", gpus |-> <<>>]

----------------------------------------------------------------------------
(* The table as amd-smi prints it: a value and its unit for each column.   *)
(* An encoder that is not there has N/A and no unit.                       *)

Figures == Floats \cap Finite

Gpus == [gpu : Whole, xcp : Whole, power_w : Figures, gpu_temp_c : Figures,
         mem_temp_c : Figures, gfx_clk_mhz : Figures, gfx_pct : Figures, mem_pct : Figures,
         enc_pct : Figures \cup {NoValue}, dec_pct : Figures, vram_used_gb : Figures,
         vram_total_gb : Figures]

Printed(g) ==
    <<g.gpu, g.xcp, g.power_w, "W", g.gpu_temp_c, "C", g.mem_temp_c, "C",
      g.gfx_clk_mhz, "MHz", g.gfx_pct, "%", g.mem_pct, "%">>
    \o (IF g.enc_pct = NoValue THEN <<"N/A">> ELSE <<g.enc_pct, "%">>)
    \o <<g.dec_pct, "%", g.vram_used_gb, g.vram_total_gb, "GB">>

----------------------------------------------------------------------------
(* parse_amd_smi of coordinator.py.                                        *)

HaHead(t) ==
    /\ Len(t) >= 14
    /\ t[4] = "W" /\ t[6] = "C" /\ t[8] = "C"
    /\ t[10] = "MHz" /\ t[12] = "%" /\ t[14] = "%"

HaTail(t) ==
    IF t[15] = "N/A" THEN Len(t) = 20 /\ t[17] = "%" /\ t[20] = "GB"
                     ELSE Len(t) = 21 /\ t[16] = "%" /\ t[18] = "%" /\ t[21] = "GB"

\* A row "fits", or is not recognized ("none"), or "raises": IndexError in a
\* row that ends after 14 tokens, ValueError for a GPU or XCP that is no int.
HaRow(t) ==
    IF ~HaHead(t) THEN "none"
    ELSE IF Len(t) = 14 THEN "raises"
    ELSE IF ~HaTail(t) THEN "none"
    ELSE IF {t[1], t[2]} \subseteq Whole THEN "fits" ELSE "raises"

_num(token) == IF token \in Floats THEN token ELSE NoValue

\* A slip: the columns stay where they are if the encoder has no unit.
DecColumnFixed(t) == 17

\* Where the decoder's reading is: behind that of the encoder and its unit.
DecColumn(t) == IF t[15] = "N/A" THEN 16 ELSE 17

HaGpu(t) ==
    LET dec == DecColumn(t) IN
    [gpu |-> t[1], xcp |-> t[2], power_w |-> _num(t[3]), gpu_temp_c |-> _num(t[5]),
     mem_temp_c |-> _num(t[7]), gfx_clk_mhz |-> _num(t[9]), gfx_pct |-> _num(t[11]),
     mem_pct |-> _num(t[13]), enc_pct |-> IF t[15] = "N/A" THEN NoValue ELSE _num(t[15]),
     dec_pct |-> _num(t[dec]), vram_used_gb |-> _num(t[dec + 2]),
     vram_total_gb |-> _num(t[dec + 3])]

\* The first row that does not fit decides.
parse_amd_smi(table) ==
    LET rows == table.rows
        bad == {i \in DOMAIN rows : HaRow(rows[i]) # "fits"}
    IN  IF table.header # EXPECTED_HEADER \/ rows = <<>> THEN NothingRead
        ELSE IF bad # {}
             THEN [verdict |-> HaRow(rows[CHOOSE i \in bad : \A j \in bad : i <= j]),
                   gpus |-> <<>>]
        ELSE [verdict |-> "gpus", gpus |-> [i \in DOMAIN rows |-> HaGpu(rows[i])]]

----------------------------------------------------------------------------
(* parseAmdSmi of app.js: an index past the end is undefined, which equals *)
(* no unit, and parseInt does not raise.                                   *)

At(t, i) == IF i \in DOMAIN t THEN t[i] ELSE "undefined"

PageRow(t) ==
    /\ At(t, 4) = "W" /\ At(t, 6) = "C" /\ At(t, 8) = "C"
    /\ At(t, 10) = "MHz" /\ At(t, 12) = "%" /\ At(t, 14) = "%"
    /\ IF At(t, 15) = "N/A"
          THEN Len(t) = 20 /\ At(t, 17) = "%" /\ At(t, 20) = "GB"
          ELSE Len(t) = 21 /\ At(t, 16) = "%" /\ At(t, 18) = "%" /\ At(t, 21) = "GB"

num(token) == IF token \in Finite THEN token ELSE NoValue

\* parseInt makes something of other tokens too: NaN, or a number they begin with.
PageId(token) == IF token \in Whole THEN token ELSE "parsed"

PageGpu(t) ==
    LET absent == t[15] = "N/A"
        dec == IF absent THEN 16 ELSE 17
    IN  [gpu |-> PageId(t[1]), xcp |-> PageId(t[2]),
         power_w |-> num(t[3]), gpu_temp_c |-> num(t[5]), mem_temp_c |-> num(t[7]),
         gfx_clk_mhz |-> num(t[9]), gfx_pct |-> num(t[11]), mem_pct |-> num(t[13]),
         enc_pct |-> IF absent THEN NoValue ELSE num(t[15]), dec_pct |-> num(t[dec]),
         vram_used_gb |-> num(t[dec + 2]), vram_total_gb |-> num(t[dec + 3])]

parseAmdSmi(table) ==
    IF table.header = EXPECTED_HEADER /\ table.rows # <<>>
       /\ \A i \in DOMAIN table.rows : PageRow(table.rows[i])
    THEN [verdict |-> "gpus", gpus |-> [i \in DOMAIN table.rows |-> PageGpu(table.rows[i])]]
    ELSE NothingRead

----------------------------------------------------------------------------
(* What is shown of an agent: the sensors of sensor.py and binary_sensor.py *)
(* and the card of the page.  The host's readings go by dotted names.       *)

Reading(host, name) == IF name \in DOMAIN host THEN host[name] ELSE NoValue

AGENT_SENSORS ==
    [cpu_temp |-> "cpu_temp_c", ram_percent |-> "ram.percent", ram_used |-> "ram.used_mb",
     swap_percent |-> "swap.percent", swap_used |-> "swap.used_mb"]

GPU_SENSORS ==
    [gpu_power |-> "power_w", gpu_temp |-> "gpu_temp_c", gpu_mem_temp |-> "mem_temp_c",
     gpu_gfx_clock |-> "gfx_clk_mhz", gpu_gfx_utilization |-> "gfx_pct",
     gpu_mem_utilization |-> "mem_pct", gpu_vram_used |-> "vram_used_gb",
     gpu_vram_total |-> "vram_total_gb"]

\* GpuSensor.native_value: that of the first row with the sensor's GPU.
GpuSensor(gpus, gpu, key) ==
    LET rows == {i \in DOMAIN gpus : gpus[i].gpu = gpu}
    IN  IF rows = {} THEN NoValue
        ELSE gpus[CHOOSE i \in rows : \A j \in rows : i <= j][GPU_SENSORS[key]]

\* What updateCard puts into a card, by the sensor with the same label.
CARD ==
    [cpu_temp |-> "cpu_temp_c", ram_percent |-> "ram.percent", ram_used |-> "ram.used_mb",
     swap_percent |-> "swap.percent", swap_used |-> "swap.used_mb"]

\* An agent of the answer to /api/agents, in Home Assistant and on the page.
HaShows(agent) ==
    [online |-> agent.online, table |-> parse_amd_smi(agent.telemetry.amd_smi),
     host |-> [k \in DOMAIN AGENT_SENSORS |-> Reading(agent.telemetry.host, AGENT_SENSORS[k])]]

PageShows(agent) ==
    [online |-> agent.online, table |-> parseAmdSmi(agent.telemetry.amd_smi),
     host |-> [k \in DOMAIN CARD |-> Reading(agent.telemetry.host, CARD[k])]]
=============================================================================
