--------------------------- MODULE Exchange_proof ---------------------------
(***************************************************************************)
(* What main's two listeners keep for any configuration, tokens, requests  *)
(* and reports: a host, a packet and a session are only what an admitted   *)
(* request asked for, and the audit log tells what was answered.  Until    *)
(* the answer nothing is on record (Stages), which makes both inductive.   *)
(* Every answer has a cause (Explained): so what clients conclude is true. *)
(*                                                                         *)
(* Before that, two pieces of data: what parse_mac makes of a MAC, and     *)
(* that the two readers of a GPU table make the same of it.  With them     *)
(* every packet is a magic packet, and Home Assistant and the page show    *)
(* the same figures.                                                       *)
(***************************************************************************)
EXTENDS Exchange, FiniteSetTheorems, WellFoundedInduction, TLAPS

----------------------------------------------------------------------------
(* Numbers.                                                                *)

\* A set of numbers that is not empty has a least.
LEMMA LeastExists ==
    ASSUME NEW T, T \subseteq Nat, T # {}
    PROVE  \E i \in T : \A j \in T : i <= j
<1>1. PICK i \in T : \A j \in T : ~ (<<j, i>> \in OpToRel(<, Nat))
  BY NatLessThanWellFounded, WFMin
<1>2. ASSUME NEW j \in T PROVE i <= j
  <2>1. CASE j < i
    <3>1. <<j, i>> \in OpToRel(<, Nat)
      BY <2>1 DEF OpToRel
    <3> QED BY <1>1, <3>1
  <2>2. CASE ~(j < i)
    BY <2>2
  <2> QED BY <2>1, <2>2
<1> QED BY <1>2

\* One that is bounded has a greatest as well.
LEMMA GreatestExists ==
    ASSUME NEW n \in Nat, NEW T, T \subseteq 1 .. n, T # {}
    PROVE  \E i \in T : \A j \in T : j <= i
<1> DEFINE below == {n - i : i \in T}
<1>1. below \subseteq Nat /\ below # {}
  <2>1. \A i \in T : i \in 1 .. n /\ n - i \in Nat
    OBVIOUS
  <2> QED BY <2>1
<1>2. PICK k \in below : \A j \in below : k <= j
  BY <1>1, LeastExists
<1>3. PICK i \in T : k = n - i
  OBVIOUS
<1>4. ASSUME NEW j \in T PROVE j <= i
  <2>1. n - j \in below
    OBVIOUS
  <2>2. n - i <= n - j
    BY <1>2, <1>3, <2>1
  <2> QED BY <2>2
<1> QED BY <1>4

----------------------------------------------------------------------------
(* A MAC, from the configuration to the packet.                            *)

\* strip leaves a part of the text.
LEMMA StripType ==
    ASSUME NEW S, NEW s \in Seq(S)
    PROVE  /\ Strip(s) \in Seq(S)
           /\ \A i \in DOMAIN Strip(s) : \E j \in DOMAIN s : s[j] = Strip(s)[i]
<1> DEFINE solid == {i \in DOMAIN s : s[i] # " "}
           first == CHOOSE i \in solid : \A j \in solid : i <= j
           final == CHOOSE i \in solid : \A j \in solid : j <= i
<1>1. CASE solid = {}
  <2>1. Strip(s) = <<>>
    BY <1>1 DEF Strip
  <2> QED BY <2>1
<1>2. CASE solid # {}
  <2>1. solid \subseteq 1 .. Len(s) /\ solid \subseteq Nat /\ Len(s) \in Nat
    <3>1. DOMAIN s = 1 .. Len(s) /\ Len(s) \in Nat
      OBVIOUS
    <3>2. solid \subseteq DOMAIN s
      OBVIOUS
    <3> HIDE DEF solid
    <3> QED BY <3>1, <3>2
  <2>2. first \in solid
    <3> HIDE DEF solid
    <3> QED BY <1>2, <2>1, LeastExists
  <2>3. final \in solid
    <3> HIDE DEF solid
    <3> QED BY <1>2, <2>1, GreatestExists
  <2>4. Strip(s) = SubSeq(s, first, final)
    BY <1>2 DEF Strip
  <2> HIDE DEF solid, first, final
  <2>5. first \in 1 .. Len(s) /\ final \in 1 .. Len(s)
    BY <2>1, <2>2, <2>3
  <2>6. /\ SubSeq(s, first, final) \in Seq(S)
        /\ \A i \in DOMAIN SubSeq(s, first, final) :
              /\ SubSeq(s, first, final)[i] = s[first + i - 1]
              /\ first + i - 1 \in DOMAIN s
    BY <2>5
  <2> QED BY <2>4, <2>6
<1> QED BY <1>1, <1>2

\* The recursion of Unseparated, at the length n.
Unfolds(s, g, n) ==
    g = [i \in 0 .. n |-> IF i = 0 THEN <<>>
                          ELSE IF s[i] = ":" THEN g[i - 1] ELSE Append(g[i - 1], s[i])]

\* A function with this recursion exists at every length.
LEMMA UnfoldsExists == \A s : \A n \in Nat : \E g : Unfolds(s, g, n)
<1> SUFFICES ASSUME NEW s, NEW m \in Nat, ~ \E g : Unfolds(s, g, m) PROVE FALSE
  OBVIOUS
<1> DEFINE failing == {n \in Nat : ~ \E g : Unfolds(s, g, n)}
<1>1. PICK n \in failing : \A j \in failing : n <= j
  <2>1. failing \subseteq Nat /\ failing # {}
    OBVIOUS
  <2> HIDE DEF failing
  <2> QED BY <2>1, LeastExists
<1>2. CASE n = 0
  <2>1. Unfolds(s, [i \in 0 .. 0 |-> <<>>], 0)
    BY DEF Unfolds
  <2> QED BY <1>2, <2>1
<1>3. CASE n # 0
  <2>1. n - 1 \in Nat /\ n - 1 \notin failing
    BY <1>1, <1>3
  <2>2. PICK g : Unfolds(s, g, n - 1)
    BY <2>1
  <2> DEFINE h == [i \in 0 .. n |-> IF i = n THEN IF s[n] = ":" THEN g[n - 1]
                                                                ELSE Append(g[n - 1], s[n])
                                             ELSE g[i]]
  <2>3. \A i \in 0 .. n - 1 : h[i] = g[i]
    BY <2>1
  <2>4. \A i \in 0 .. n - 1 : g[i] = IF i = 0 THEN <<>>
                          ELSE IF s[i] = ":" THEN g[i - 1] ELSE Append(g[i - 1], s[i])
    BY <2>2 DEF Unfolds
  <2>5. h[n] = IF s[n] = ":" THEN h[n - 1] ELSE Append(h[n - 1], s[n])
    BY <2>1, <2>3
  <2>6. \A i \in 0 .. n : h[i] = IF i = 0 THEN <<>>
                          ELSE IF s[i] = ":" THEN h[i - 1] ELSE Append(h[i - 1], s[i])
    <3>1. ASSUME NEW i \in 0 .. n, i # n
          PROVE  h[i] = IF i = 0 THEN <<>>
                          ELSE IF s[i] = ":" THEN h[i - 1] ELSE Append(h[i - 1], s[i])
      <4>1. i \in 0 .. n - 1 /\ (i # 0 => i - 1 \in 0 .. n - 1)
        BY <2>1, <3>1
      <4> HIDE DEF h
      <4> QED BY <2>3, <2>4, <4>1
    <3> HIDE DEF h
    <3> QED BY <1>3, <2>5, <3>1
  <2>7. Unfolds(s, h, n)
    <3>1. h = [i \in 0 .. n |-> h[i]]
      OBVIOUS
    <3> HIDE DEF h
    <3> QED BY <2>6, <3>1 DEF Unfolds
  <2> QED BY <1>1, <2>7
<1> QED BY <1>2, <1>3

\* Leaving separators out leaves a part of the text.
LEMMA UnseparatedType ==
    ASSUME NEW S, NEW s \in Seq(S)
    PROVE  /\ Unseparated(s) \in Seq(S)
           /\ \A i \in DOMAIN Unseparated(s) : \E j \in DOMAIN s : s[j] = Unseparated(s)[i]
<1> DEFINE g == CHOOSE g : Unfolds(s, g, Len(s))
           Part(t) == t \in Seq(S) /\ \A i \in DOMAIN t : \E j \in DOMAIN s : s[j] = t[i]
           failing == {n \in 0 .. Len(s) : ~ Part(g[n])}
<1>1. Len(s) \in Nat
  OBVIOUS
<1>2. Unfolds(s, g, Len(s))
  BY <1>1, UnfoldsExists
<1>3. Unseparated(s) = g[Len(s)]
  BY DEF Unseparated, Unfolds
<1> HIDE DEF g
<1>4. failing = {}
  <2> SUFFICES ASSUME failing # {} PROVE FALSE
    OBVIOUS
  <2>1. PICK n \in failing : \A j \in failing : n <= j
    <3>1. failing \subseteq Nat
      BY <1>1
    <3> HIDE DEF failing
    <3> QED BY <3>1, LeastExists
  <2>2. n \in 0 .. Len(s)
    OBVIOUS
  <2>3. g[n] = IF n = 0 THEN <<>>
               ELSE IF s[n] = ":" THEN g[n - 1] ELSE Append(g[n - 1], s[n])
    BY <1>2, <2>2 DEF Unfolds
  <2>4. n # 0
    <3>1. Part(<<>>)
      OBVIOUS
    <3>2. ~ Part(g[n])
      BY <2>1
    <3> HIDE DEF Part
    <3> QED BY <2>3, <3>1, <3>2
  <2>5. n - 1 \in 0 .. Len(s) /\ n \in DOMAIN s
    BY <1>1, <2>2, <2>4
  <2>6. Part(g[n - 1])
    BY <2>1, <2>5, <2>2
  <2> DEFINE t == g[n - 1]
  <2> HIDE DEF t
  <2>7. ASSUME Part(t), n \in DOMAIN s PROVE Part(Append(t, s[n]))
    BY <2>7
  <2> QED BY <2>1, <2>3, <2>4, <2>5, <2>6, <2>7 DEF t
<1> QED BY <1>1, <1>3, <1>4

\* A MAC that parses makes at most Octets bytes, and that many unless it has
\* white space inside.
LEMMA ParsedBytes ==
    ASSUME NEW mac \in Seq(Kinds), Parsed(mac) >= 0
    PROVE  /\ Parsed(mac) \in 0 .. Octets
           /\ Parsed(mac) # Octets => \E i \in DOMAIN mac : mac[i] = " "
<1> DEFINE c == Cleaned(mac)
           solid == {i \in DOMAIN c : c[i] # " "}
<1>1. /\ c \in Seq(Kinds)
      /\ \A i \in DOMAIN c : \E j \in DOMAIN mac : mac[j] = c[i]
  <2>1. /\ Strip(mac) \in Seq(Kinds)
        /\ \A i \in DOMAIN Strip(mac) : \E j \in DOMAIN mac : mac[j] = Strip(mac)[i]
    BY StripType
  <2>2. \A i \in DOMAIN c : \E j \in DOMAIN Strip(mac) : Strip(mac)[j] = c[i]
    BY <2>1, UnseparatedType DEF Cleaned
  <2>3. c \in Seq(Kinds)
    BY <2>1, UnseparatedType DEF Cleaned
  <2> HIDE DEF c
  <2> QED BY <2>1, <2>2, <2>3
<1>2. Len(c) = 2 * Octets /\ Parsed(mac) = Cardinality(solid) \div 2
  <2>1. Len(Cleaned(mac)) = 2 * Octets
    BY DEF Parsed
  <2>2. Parsed(mac) = FromHex(c)
    BY <2>1 DEF Parsed
  <2>3. FromHex(c) \in {Cardinality(solid) \div 2, -1}
    BY DEF FromHex
  <2> HIDE DEF c, solid
  <2> QED BY <2>1, <2>2, <2>3 DEF c
<1> HIDE DEF c
<1>3. IsFiniteSet(1 .. 2 * Octets) /\ Cardinality(1 .. 2 * Octets) = 2 * Octets
  BY WakeAssumption, FS_Interval
<1>4. DOMAIN c = 1 .. 2 * Octets
  <2>1. DOMAIN c = 1 .. Len(c)
    BY <1>1
  <2> QED BY <1>2, <2>1
<1>5. solid \subseteq 1 .. 2 * Octets /\ \A i \in 1 .. 2 * Octets : i \notin solid => c[i] = " "
  BY <1>4
<1> HIDE DEF solid
<1>6. /\ IsFiniteSet(solid) /\ Cardinality(solid) <= 2 * Octets
      /\ Cardinality(solid) = 2 * Octets => solid = 1 .. 2 * Octets
  BY <1>3, <1>5, FS_Subset
<1>7. Cardinality(solid) \in Nat
  BY <1>6, FS_CardinalityType
<1>8. \A k, n \in Nat : k <= 2 * n => k \div 2 \in 0 .. n /\ (k \div 2 # n => k # 2 * n)
  OBVIOUS
<1>9. /\ Parsed(mac) \in 0 .. Octets
      /\ Parsed(mac) # Octets => Cardinality(solid) # 2 * Octets
  BY <1>2, <1>6, <1>7, <1>8, WakeAssumption
<1>10. ASSUME Parsed(mac) # Octets PROVE \E i \in DOMAIN mac : mac[i] = " "
  <2>1. solid # 1 .. 2 * Octets
    BY <1>3, <1>9, <1>10
  <2>2. PICK i \in 1 .. 2 * Octets : c[i] = " "
    BY <1>5, <2>1
  <2> QED BY <1>1, <1>4, <2>2
<1> QED BY <1>9, <1>10

----------------------------------------------------------------------------
(* The two readers of a GPU table.                                         *)

\* A row is read alike: it fits for both or for none, with the same figures.
LEMMA RowsAlike ==
    ASSUME NEW Token, Token \cap Floats = Token \cap Finite,
           NEW t \in Seq(Token), HaRow(t) # "raises"
    PROVE  /\ HaRow(t) = "fits" <=> PageRow(t)
           /\ HaRow(t) = "fits" => HaGpu(t) = PageGpu(t)
<1>1. CASE Len(t) < 14
  <2>1. At(t, 14) = "undefined"
    BY <1>1 DEF At
  <2> QED BY <1>1, <2>1 DEF HaRow, HaHead, PageRow
<1>2. CASE Len(t) = 14
  <2>1. At(t, 15) = "undefined"
    BY <1>2 DEF At
  <2>2. \A i \in 1 .. 14 : At(t, i) = t[i]
    BY <1>2 DEF At
  <2> QED BY <1>2, <2>1, <2>2 DEF HaRow, HaHead, PageRow
<1>3. CASE Len(t) > 14
  <2>1. \A i \in 1 .. 15 : At(t, i) = t[i]
    BY <1>3 DEF At
  <2>2. Len(t) = 20 => \A i \in 1 .. 20 : At(t, i) = t[i]
    BY DEF At
  <2>3. Len(t) = 21 => \A i \in 1 .. 21 : At(t, i) = t[i]
    BY DEF At
  <2>4. HaRow(t) = "fits" <=> PageRow(t)
    <3>1. HaRow(t) = "fits" <=> HaHead(t) /\ HaTail(t)
      BY <1>3 DEF HaRow
    <3>2. HaHead(t) <=> /\ At(t, 4) = "W" /\ At(t, 6) = "C" /\ At(t, 8) = "C"
                        /\ At(t, 10) = "MHz" /\ At(t, 12) = "%" /\ At(t, 14) = "%"
      BY <1>3, <2>1 DEF HaHead
    <3>3. At(t, 15) = t[15]
      BY <2>1
    <3>4. Len(t) = 20 => At(t, 17) = t[17] /\ At(t, 20) = t[20]
      BY <2>2
    <3>5. Len(t) = 21 => At(t, 16) = t[16] /\ At(t, 18) = t[18] /\ At(t, 21) = t[21]
      BY <2>3
    <3> QED BY <3>1, <3>2, <3>3, <3>4, <3>5 DEF HaTail, PageRow
  <2>5. ASSUME HaRow(t) = "fits" PROVE HaGpu(t) = PageGpu(t)
    <3>1. Len(t) \in {20, 21} /\ {t[1], t[2]} \subseteq Whole
          /\ (t[15] = "N/A" => Len(t) = 20) /\ (t[15] # "N/A" => Len(t) = 21)
      BY <1>3, <2>5 DEF HaRow, HaTail
    <3>2. \A i \in 1 .. Len(t) : _num(t[i]) = num(t[i])
      BY DEF _num, num
    <3>3. PageId(t[1]) = t[1] /\ PageId(t[2]) = t[2]
      BY <3>1 DEF PageId
    <3>4. DecColumn(t) = IF t[15] = "N/A" THEN 16 ELSE 17
      BY DEF DecColumn
    <3>5. /\ _num(t[3]) = num(t[3]) /\ _num(t[5]) = num(t[5]) /\ _num(t[7]) = num(t[7])
          /\ _num(t[9]) = num(t[9]) /\ _num(t[11]) = num(t[11]) /\ _num(t[13]) = num(t[13])
          /\ _num(t[15]) = num(t[15]) /\ _num(t[16]) = num(t[16]) /\ _num(t[17]) = num(t[17])
          /\ _num(t[18]) = num(t[18]) /\ _num(t[19]) = num(t[19])
          /\ t[15] # "N/A" => _num(t[20]) = num(t[20])
      BY <3>1, <3>2
    <3>6. CASE t[15] = "N/A"
      <4>1. DecColumn(t) = 16 /\ DecColumn(t) + 2 = 18 /\ DecColumn(t) + 3 = 19
        BY <3>4, <3>6
      <4> QED BY <3>3, <3>5, <3>6, <4>1 DEF HaGpu, PageGpu
    <3>7. CASE t[15] # "N/A"
      <4>1. DecColumn(t) = 17 /\ DecColumn(t) + 2 = 19 /\ DecColumn(t) + 3 = 20
        BY <3>4, <3>7
      <4> QED BY <3>3, <3>5, <3>7, <4>1 DEF HaGpu, PageGpu
    <3> QED BY <3>6, <3>7
  <2> QED BY <2>4, <2>5
<1>4. Len(t) \in Nat
  OBVIOUS
<1>5. \A n \in Nat : n < 14 \/ n = 14 \/ n > 14
  OBVIOUS
<1>6. Len(t) < 14 \/ Len(t) = 14 \/ Len(t) > 14
  BY <1>4, <1>5, Zenon
<1> QED BY <1>1, <1>2, <1>3, <1>6, Zenon

\* Home Assistant and the page read the same from every table, whatever is
\* wrong with it, unless Home Assistant raises.
THEOREM ReadersAlike ==
    ASSUME NEW Token, Token \cap Floats = Token \cap Finite,
           NEW table, table.rows \in Seq(Seq(Token)),
           parse_amd_smi(table).verdict # "raises"
    PROVE  parse_amd_smi(table) = parseAmdSmi(table)
<1> DEFINE rows == table.rows
           bad == {i \in DOMAIN rows : HaRow(rows[i]) # "fits"}
           first == CHOOSE i \in bad : \A j \in bad : i <= j
<1>1. CASE table.header # EXPECTED_HEADER \/ rows = <<>>
  BY <1>1 DEF parse_amd_smi, parseAmdSmi
<1>2. ASSUME table.header = EXPECTED_HEADER, rows # <<>>, bad # {}
      PROVE  parse_amd_smi(table) = parseAmdSmi(table)
  <2>1. first \in bad
    <3>1. bad \subseteq Nat
      OBVIOUS
    <3>2. \E i \in bad : \A j \in bad : i <= j
      BY <1>2, <3>1, LeastExists
    <3> HIDE DEF bad
    <3> QED BY <3>2
  <2>2. first \in DOMAIN rows /\ rows[first] \in Seq(Token) /\ HaRow(rows[first]) # "fits"
    <3> HIDE DEF first
    <3> QED BY <2>1
  <2>3. parse_amd_smi(table) = [verdict |-> HaRow(rows[first]), gpus |-> <<>>]
    BY <1>2 DEF parse_amd_smi
  <2> HIDE DEF rows, first, bad
  <2>4. HaRow(rows[first]) = "none"
    <3>1. HaRow(rows[first]) # "raises"
      BY <2>3
    <3> QED BY <2>2, <3>1 DEF HaRow
  <2>5. ~PageRow(rows[first])
    BY <2>2, <2>4, RowsAlike
  <2>6. parseAmdSmi(table) = NothingRead
    BY <2>2, <2>5 DEF parseAmdSmi, rows
  <2> QED BY <2>3, <2>4, <2>6 DEF NothingRead
<1>3. ASSUME table.header = EXPECTED_HEADER, rows # <<>>, bad = {}
      PROVE  parse_amd_smi(table) = parseAmdSmi(table)
  <2>1. \A i \in DOMAIN rows : HaRow(rows[i]) = "fits"
    BY <1>3
  <2>2. \A i \in DOMAIN rows : PageRow(rows[i]) /\ HaGpu(rows[i]) = PageGpu(rows[i])
    <3>1. \A i \in DOMAIN rows : rows[i] \in Seq(Token) /\ HaRow(rows[i]) # "raises"
      BY <2>1
    <3> QED BY <2>1, <3>1, RowsAlike
  <2>3. parse_amd_smi(table) = [verdict |-> "gpus", gpus |-> [i \in DOMAIN rows |-> HaGpu(rows[i])]]
    BY <1>3 DEF parse_amd_smi
  <2>4. parseAmdSmi(table) = [verdict |-> "gpus", gpus |-> [i \in DOMAIN rows |-> PageGpu(rows[i])]]
    BY <1>3, <2>2 DEF parseAmdSmi
  <2> QED BY <2>2, <2>3, <2>4
<1> QED BY <1>1, <1>2, <1>3

\* What amd-smi prints of a GPU is read back by both.
LEMMA PrintedIsRead ==
    ASSUME NEW g \in Gpus
    PROVE  /\ HaRow(Printed(g)) = "fits" /\ HaGpu(Printed(g)) = g
           /\ PageRow(Printed(g)) /\ PageGpu(Printed(g)) = g
<1> DEFINE t == Printed(g)
<1> USE ReadingsAssumption
<1>1. /\ \A x \in Whole : PageId(x) = x
      /\ \A x \in Figures : _num(x) = x /\ num(x) = x /\ x # "N/A"
  BY DEF PageId, _num, num, Figures
<1>2. /\ g.gpu \in Whole /\ g.xcp \in Whole
      /\ g.power_w \in Figures /\ g.gpu_temp_c \in Figures /\ g.mem_temp_c \in Figures
      /\ g.gfx_clk_mhz \in Figures /\ g.gfx_pct \in Figures /\ g.mem_pct \in Figures
      /\ g.dec_pct \in Figures /\ g.vram_used_gb \in Figures /\ g.vram_total_gb \in Figures
      /\ g.enc_pct \in Figures \cup {NoValue}
  BY DEF Gpus
<1>3. g = [gpu |-> g.gpu, xcp |-> g.xcp, power_w |-> g.power_w, gpu_temp_c |-> g.gpu_temp_c,
           mem_temp_c |-> g.mem_temp_c, gfx_clk_mhz |-> g.gfx_clk_mhz, gfx_pct |-> g.gfx_pct,
           mem_pct |-> g.mem_pct, enc_pct |-> g.enc_pct, dec_pct |-> g.dec_pct,
           vram_used_gb |-> g.vram_used_gb, vram_total_gb |-> g.vram_total_gb]
  BY DEF Gpus
<1>4. /\ t[1] = g.gpu /\ t[2] = g.xcp /\ t[3] = g.power_w /\ t[4] = "W"
      /\ t[5] = g.gpu_temp_c /\ t[6] = "C" /\ t[7] = g.mem_temp_c /\ t[8] = "C"
      /\ t[9] = g.gfx_clk_mhz /\ t[10] = "MHz" /\ t[11] = g.gfx_pct /\ t[12] = "%"
      /\ t[13] = g.mem_pct /\ t[14] = "%"
  BY DEF Printed
<1>5. CASE g.enc_pct = NoValue
  <2>1. /\ Len(t) = 20 /\ DOMAIN t = 1 .. 20
        /\ t[15] = "N/A" /\ t[16] = g.dec_pct /\ t[17] = "%"
        /\ t[18] = g.vram_used_gb /\ t[19] = g.vram_total_gb /\ t[20] = "GB"
    BY <1>5 DEF Printed
  <2> HIDE DEF t
  <2>2. \A i \in 1 .. 20 : At(t, i) = t[i]
    BY <2>1 DEF At
  <2>3. HaRow(t) = "fits"
    BY <1>2, <1>4, <2>1 DEF HaRow, HaHead, HaTail
  <2>4. PageRow(t)
    BY <1>4, <2>1, <2>2 DEF PageRow
  <2>5. DecColumn(t) = 16 /\ DecColumn(t) + 2 = 18 /\ DecColumn(t) + 3 = 19
    BY <2>1 DEF DecColumn
  <2>6. HaGpu(t) = g
    BY <1>1, <1>2, <1>3, <1>4, <1>5, <2>1, <2>5 DEF HaGpu
  <2>7. PageGpu(t) = g
    BY <1>1, <1>2, <1>3, <1>4, <1>5, <2>1 DEF PageGpu
  <2> QED BY <2>3, <2>4, <2>6, <2>7 DEF t
<1>6. CASE g.enc_pct # NoValue
  <2>1. /\ Len(t) = 21 /\ DOMAIN t = 1 .. 21
        /\ t[15] = g.enc_pct /\ t[16] = "%" /\ t[17] = g.dec_pct /\ t[18] = "%"
        /\ t[19] = g.vram_used_gb /\ t[20] = g.vram_total_gb /\ t[21] = "GB"
    BY <1>6 DEF Printed
  <2>a. t[15] # "N/A" /\ g.enc_pct \in Figures
    BY <1>1, <1>2, <1>6, <2>1
  <2> HIDE DEF t
  <2>2. \A i \in 1 .. 21 : At(t, i) = t[i]
    BY <2>1 DEF At
  <2>3. HaRow(t) = "fits"
    BY <1>2, <1>4, <2>1, <2>a DEF HaRow, HaHead, HaTail
  <2>4. PageRow(t)
    BY <1>4, <2>1, <2>2, <2>a DEF PageRow
  <2>5. DecColumn(t) = 17 /\ DecColumn(t) + 2 = 19 /\ DecColumn(t) + 3 = 20
    BY <2>a DEF DecColumn
  <2>6. HaGpu(t) = g
    BY <1>1, <1>2, <1>3, <1>4, <2>1, <2>5, <2>a DEF HaGpu
  <2>7. PageGpu(t) = g
    BY <1>1, <1>2, <1>3, <1>4, <2>1, <2>a DEF PageGpu
  <2> QED BY <2>3, <2>4, <2>6, <2>7 DEF t
<1> QED BY <1>5, <1>6

\* A board is read back by both, row by row.
LEMMA BoardIsRead ==
    ASSUME NEW board \in Seq(Gpus), NEW table,
           table = [header |-> EXPECTED_HEADER, rows |-> [i \in DOMAIN board |-> Printed(board[i])]]
    PROVE  /\ parse_amd_smi(table) = parseAmdSmi(table)
           /\ parse_amd_smi(table).gpus = board /\ parse_amd_smi(table).verdict # "raises"
<1> DEFINE rows == table.rows
<1>1. /\ DOMAIN rows = DOMAIN board /\ table.header = EXPECTED_HEADER
      /\ \A i \in DOMAIN board : rows[i] = Printed(board[i])
  OBVIOUS
<1>2. \A i \in DOMAIN board : board[i] \in Gpus
  OBVIOUS
<1>3. \A i \in DOMAIN rows : /\ HaRow(rows[i]) = "fits" /\ HaGpu(rows[i]) = board[i]
                             /\ PageRow(rows[i]) /\ PageGpu(rows[i]) = board[i]
  BY <1>1, <1>2, PrintedIsRead
<1>4. CASE rows = <<>>
  <2>1. board = <<>>
    BY <1>1, <1>4
  <2> QED BY <1>4, <2>1 DEF parse_amd_smi, parseAmdSmi, NothingRead
<1>5. CASE rows # <<>>
  <2>1. {i \in DOMAIN rows : HaRow(rows[i]) # "fits"} = {}
    BY <1>3
  <2>2. parse_amd_smi(table) = [verdict |-> "gpus", gpus |-> [i \in DOMAIN rows |-> HaGpu(rows[i])]]
    BY <1>1, <1>5, <2>1 DEF parse_amd_smi
  <2>3. parseAmdSmi(table) = [verdict |-> "gpus", gpus |-> [i \in DOMAIN rows |-> PageGpu(rows[i])]]
    BY <1>1, <1>3, <1>5 DEF parseAmdSmi
  <2>4. board = [i \in DOMAIN board |-> board[i]]
    OBVIOUS
  <2>5. [i \in DOMAIN rows |-> HaGpu(rows[i])] = board /\ [i \in DOMAIN rows |-> PageGpu(rows[i])] = board
    BY <1>1, <1>3, <2>4
  <2> HIDE DEF rows
  <2> QED BY <2>2, <2>3, <2>5
<1> QED BY <1>4, <1>5

\* A sensor has what is in the first row of its GPU.
LEMMA FirstRowCounts ==
    ASSUME NEW board \in Seq(Gpus), NEW i \in DOMAIN board, NEW key,
           \A j \in 1 .. i - 1 : board[j].gpu # board[i].gpu
    PROVE  GpuSensor(board, board[i].gpu, key) = board[i][GPU_SENSORS[key]]
<1> DEFINE rows == {j \in DOMAIN board : board[j].gpu = board[i].gpu}
<1>1. rows \subseteq Nat /\ i \in rows
  OBVIOUS
<1>2. \A j \in rows : i <= j
  <2>1. SUFFICES ASSUME NEW j \in rows, ~(i <= j) PROVE FALSE
    OBVIOUS
  <2>2. j \in 1 .. i - 1
    BY <2>1
  <2> QED BY <2>2
<1>3. (CHOOSE k \in rows : \A j \in rows : k <= j) = i
  <2> DEFINE least == CHOOSE k \in rows : \A j \in rows : k <= j
  <2> HIDE DEF rows
  <2>1. least \in rows /\ \A j \in rows : least <= j
    BY <1>1, <1>2
  <2>2. least \in Nat /\ i \in Nat /\ least <= i /\ i <= least
    BY <1>1, <1>2, <2>1
  <2> QED BY <2>2
<1> QED BY <1>1, <1>3 DEF GpuSensor

\* Where Home Assistant raises there is a row to blame.
LEMMA RaisingRow ==
    ASSUME NEW S, NEW table, table.rows \in Seq(S), parse_amd_smi(table).verdict = "raises"
    PROVE  \E i \in DOMAIN table.rows :
              LET t == table.rows[i] IN Len(t) = 14 \/ ~({t[1], t[2]} \subseteq Whole)
<1> DEFINE rows == table.rows
           bad == {i \in DOMAIN rows : HaRow(rows[i]) # "fits"}
           first == CHOOSE i \in bad : \A j \in bad : i <= j
<1>1. bad # {} /\ HaRow(rows[first]) = "raises"
  BY DEF parse_amd_smi, NothingRead
<1>2. first \in bad
  <2>1. bad \subseteq Nat
    OBVIOUS
  <2> HIDE DEF bad
  <2> QED BY <1>1, <2>1, LeastExists
<1>3. first \in DOMAIN rows
  <2> HIDE DEF first
  <2> QED BY <1>2
<1> HIDE DEF first, rows
<1> QED BY <1>1, <1>3 DEF HaRow, rows

----------------------------------------------------------------------------
(* An exchange.                                                            *)

\* Nothing has been done for the exchange, and nothing said.
Clean == ran = {} /\ lan = {} /\ log = {} /\ answer = NoAnswer

\* What the agent's answer says of the host.
ReplyIsTrue ==
    \E ok \in BOOLEAN, error \in {None, "refused", "failed"} :
        /\ frame = Encode(make_response("id", ok, None, error))
        /\ ok => req.agent \in Stubs \/ \E x \in ran : x.ok

\* Where the exchange is, and what is settled there.
Stages ==
    /\ at # "idle" => req.port \in {"web", "mgmt"}
    /\ at \in {"main", "agent", "reply"} => req.op \in Routes[req.port] /\ Handshake(req)
    /\ at \in {"idle", "sent", "main", "agent"} => Clean
    /\ at = "main" /\ req.op = "ws" => frame \in FirstFrames(req)
    /\ at \in {"agent", "reply"} => Admitted /\ req.op \in DOMAIN ActionOf
    /\ at = "agent" => frame = RequestFrame
    /\ at = "reply" => lan = {} /\ log = {} /\ answer = NoAnswer /\ ReplyIsTrue

\* The inductive invariant.
ExchangeInv == TypeOK /\ Stages /\ OnlyAsked /\ AuditTellsAnswer

----------------------------------------------------------------------------
(* Types.                                                                  *)

\* load_config keeps names and MACs of the environment.
LEMMA ConfigType ==
    ASSUME NEW env \in Envs
    PROVE  /\ DOMAIN load_config(env) \subseteq Names
           /\ \A n \in DOMAIN load_config(env) : load_config(env)[n].mac \in Seq(Kinds)
<1> DEFINE kept == {i \in DOMAIN env : env[i].name # None /\ Strip(env[i].mac) # <<>>}
           last(n) == CHOOSE i \in kept : env[i].name = n
                                          /\ \A j \in kept : env[j].name = n => j <= i
           Entries == [name : Names \cup {None}, mac : Seq(Kinds), ip : STRING \cup {None}]
<1>0. env \in Seq(Entries)
  BY ExchangeAssumption
<1>1. DOMAIN env = 1 .. Len(env) /\ Len(env) \in Nat
  BY <1>0
<1>2. \A i \in DOMAIN env : env[i].name \in Names \cup {None} /\ env[i].mac \in Seq(Kinds)
  <2>1. \A e \in Entries : e.name \in Names \cup {None} /\ e.mac \in Seq(Kinds)
    OBVIOUS
  <2> HIDE DEF Entries
  <2>2. \A i \in DOMAIN env : env[i] \in Entries
    BY <1>0
  <2> QED BY <2>1, <2>2
<1>3. load_config(env) = [n \in {env[i].name : i \in kept} |->
                             [mac |-> Strip(env[last(n)].mac), ip |-> env[last(n)].ip]]
  BY DEF load_config
<1>4. \A i \in kept : i \in 1 .. Len(env) /\ env[i].name \in Names /\ env[i].mac \in Seq(Kinds)
  BY <1>1, <1>2
<1> HIDE DEF kept
<1>5. ASSUME NEW n \in {env[i].name : i \in kept} PROVE last(n) \in kept
  <2> DEFINE named == {i \in kept : env[i].name = n}
  <2>1. named \subseteq 1 .. Len(env) /\ named # {}
    BY <1>4
  <2>2. \E i \in named : \A j \in named : j <= i
    <3> HIDE DEF named
    <3> QED BY <1>1, <2>1, GreatestExists
  <2> QED BY <2>2
<1> HIDE DEF last
<1>6. ASSUME NEW n \in {env[i].name : i \in kept} PROVE Strip(env[last(n)].mac) \in Seq(Kinds)
  BY <1>4, <1>5, StripType
<1> QED BY <1>3, <1>4, <1>6

\* Init has the types.
LEMMA InitType == Init => TypeOK
<1> SUFFICES ASSUME Init PROVE TypeOK
  OBVIOUS
<1>1. PICK env \in Envs : agents = load_config(env)
  BY DEF Init
<1>2. DOMAIN agents \subseteq Names
  BY <1>1, ConfigType
<1>3. telemetry \in [Names -> Reports]
  BY DEF Init, Reports
<1> QED BY <1>2, <1>3, ExchangeAssumption DEF Init, TypeOK

\* A hello comes from a daemon with the certificate.
LEMMA HelloIsDaemons ==
    ASSUME Stages, IsHello
    PROVE  Decode(frame) = make_hello(req.agent, req.token) /\ req.cert
<1>1. req.op = "ws" /\ req.port = "mgmt" /\ Handshake(req) /\ frame \in FirstFrames(req)
  BY DEF Stages, IsHello, FirstMessage, Routes, TokenOps, AgentOps, Actions
<1>2. frame.json = "object" /\ frame.msg.type = "hello"
  BY DEF IsHello, FirstMessage, Decodable, Decode
<1>3. frame # Garbage /\ frame # Encode(make_ping)
  BY <1>2 DEF Garbage, Encode, make_ping
<1>4. frame = Encode(make_hello(req.agent, req.token))
  BY <1>1, <1>3 DEF FirstFrames
<1> QED BY <1>1, <1>4 DEF Handshake, Decode, Encode

\* Every step keeps the types.
LEMMA StepType == TypeOK /\ Stages /\ [Next]_vars => TypeOK'
<1> SUFFICES ASSUME TypeOK, Stages, [Next]_vars PROVE TypeOK'
  OBVIOUS
<1> USE DEF TypeOK, config, registry, effects, ends
<1>1. ASSUME NEW r \in Requests, Begin(r) PROVE TypeOK'
  BY <1>1 DEF Begin
<1>2. CASE Refused \/ StrangerAnswers
  BY <1>2 DEF Refused, StrangerAnswers, Fails, Ends
<1>3. CASE Arrives
  BY <1>3 DEF Arrives, Fails, Ends
<1>4. CASE RejectToken
  BY <1>4 DEF RejectToken, Fails, Ends
<1>5. CASE RejectTarget
  BY <1>5 DEF RejectTarget, Fails, Ends
<1>6. CASE View
  BY <1>6 DEF View, Ends
<1>7. CASE ForwardOffline
  BY <1>7 DEF ForwardOffline, Ends
<1>8. CASE Forward
  BY <1>8 DEF Forward
<1>9. CASE Execute
  BY <1>9 DEF Execute, Reply
<1>10. CASE Respond
  BY <1>10 DEF Respond, Conclude, Ends
<1>11. CASE NoResponse
  BY <1>11 DEF NoResponse, Conclude, Ends
<1>12. CASE Wake
  BY <1>12 DEF Wake, Ends
<1>13. CASE WakeFails
  BY <1>13 DEF WakeFails, Ends
<1>14. CASE NoHello
  BY <1>14 DEF NoHello, Fails, Ends
<1>15. CASE RejectAgent
  BY <1>15 DEF RejectAgent, Ends
<1>16. CASE HelloRaises
  BY <1>16 DEF HelloRaises, Fails, Ends
<1>17. CASE Welcome
  <2>1. req.agent \in DOMAIN agents
    BY <1>17, HelloIsDaemons DEF Welcome, KnownAgent, make_hello
  <2> QED BY <1>17, <2>1 DEF Welcome, Ends
<1>18. CASE GiveUp
  BY <1>18 DEF GiveUp
<1>19. CASE Receive
  BY <1>19 DEF Receive
<1>20. CASE Rest
  BY <1>20 DEF Rest
<1>21. ASSUME NEW a \in Names, SessionLost(a) PROVE TypeOK'
  BY <1>21 DEF SessionLost, Reports
<1>22. ASSUME NEW a \in Names, NEW report \in Reports, Report(a, report) PROVE TypeOK'
  BY <1>22 DEF Report, Decode, Encode, make_telemetry
<1>23. CASE UNCHANGED vars
  BY <1>23 DEF vars
<1> QED
  BY <1>1, <1>2, <1>3, <1>4, <1>5, <1>6, <1>7, <1>8, <1>9, <1>10, <1>11, <1>12, <1>13,
     <1>14, <1>15, <1>16, <1>17, <1>18, <1>19, <1>20, <1>21, <1>22, <1>23 DEF Next

----------------------------------------------------------------------------
(* Where an exchange can be, and what is settled there.                    *)

\* Every request goes to one of the two listeners.
LEMMA RequestPorts == \A r \in Requests : r.port \in {"web", "mgmt"}
<1>1. \A clients, ops, names, containers, verbs :
         \A r \in Ask(clients, ops, names, containers, verbs) : r.port = "web"
  BY DEF Ask
<1> SUFFICES ASSUME NEW r \in Requests PROVE r.port \in {"web", "mgmt"}
  OBVIOUS
<1>2. CASE \E clients, ops, names, containers, verbs :
              r \in Ask(clients, ops, names, containers, verbs)
  BY <1>1, <1>2
<1>3. CASE r.port = "mgmt"
  BY <1>3
<1>4. \/ \E clients, ops, names, containers, verbs :
             r \in Ask(clients, ops, names, containers, verbs)
      \/ r.port = "mgmt"
  BY DEF Requests
<1> QED BY <1>2, <1>3, <1>4

\* An answer ends the stages.
LEMMA AnswerStage ==
    ASSUME Stages, NEW status, NEW ok, NEW report, at # "idle", Ends(status, ok, report)
    PROVE  Stages'
BY DEF Stages, Ends

\* Every step keeps the stages.
LEMMA StepStages == TypeOK /\ Stages /\ [Next]_vars => Stages'
<1> SUFFICES ASSUME TypeOK, Stages, [Next]_vars PROVE Stages'
  OBVIOUS
<1> USE DEF config, registry, effects, ends
<1>1. ASSUME NEW r \in Requests, Begin(r) PROVE Stages'
  BY <1>1, RequestPorts DEF Begin, Stages, Clean
<1>2. CASE Refused \/ StrangerAnswers
  BY <1>2, AnswerStage DEF Refused, StrangerAnswers, Fails
<1>3. CASE Arrives
  <2>1. ASSUME req.op \notin Routes[req.port], Fails("not_found") PROVE Stages'
    BY <1>3, <2>1, AnswerStage DEF Arrives, Fails
  <2>2. ASSUME req.op \in Routes[req.port], at' = "main", frame' \in FirstFrames(req),
               UNCHANGED <<config, registry, req, left, effects, ends>>
        PROVE  Stages'
    BY <1>3, <2>2 DEF Arrives, Stages, Clean, Handshake
  <2> QED BY <1>3, <2>1, <2>2 DEF Arrives
<1>4. CASE RejectToken
  BY <1>4, AnswerStage DEF RejectToken, Fails
<1>5. CASE RejectTarget
  BY <1>5, AnswerStage DEF RejectTarget, Fails
<1>6. CASE View
  BY <1>6, AnswerStage DEF View
<1>7. CASE ForwardOffline
  BY <1>7, AnswerStage DEF ForwardOffline
<1>8. CASE Forward
  BY <1>8 DEF Forward, Stages, Clean, Admitted, HasToken, ValidVerb, Handshake, RequestFrame
<1>9. CASE Execute
  <2>1. PICK ok \in BOOLEAN, error \in {None, "refused", "failed"} :
           /\ Reply("id", ok, error)
           /\ ok => req.agent \in Stubs \/ \E x \in ran' : x.ok
    <3>1. Decode(frame).id = "id"
      BY <1>9 DEF Execute, Stages, RequestFrame, Decode, Encode, make_request
    <3>2. CASE ~Permitted(req.agent, Decode(frame)) /\ Reply("id", FALSE, "refused")
      BY <3>2
    <3>3. CASE req.agent \in Stubs /\ Reply("id", TRUE, None)
      BY <3>3
    <3>4. ASSUME NEW ok \in BOOLEAN, Reply("id", ok, IF ok THEN None ELSE "failed"),
                 ran' = ran \cup {Told(req.agent, Decode(frame), ok)}
          PROVE  /\ Reply("id", ok, IF ok THEN None ELSE "failed")
                 /\ ok => \E x \in ran' : x.ok
      <4>1. Told(req.agent, Decode(frame), ok).ok = ok
        BY DEF Told
      <4>2. ok => Told(req.agent, Decode(frame), ok).ok
        BY <4>1, Zenon
      <4>3. Told(req.agent, Decode(frame), ok) \in ran'
        BY <3>4
      <4> QED BY <3>4, <4>2, <4>3, Zenon
    <3> QED BY <1>9, <3>1, <3>2, <3>3, <3>4 DEF Execute
  <2>2. ReplyIsTrue'
    BY <2>1 DEF Reply, ReplyIsTrue, Encode, make_response
  <2> QED
    BY <1>9, <2>1, <2>2 DEF Execute, Reply, Stages, Clean, Admitted, HasToken, ValidVerb, Handshake
<1>10. CASE Respond
  BY <1>10, AnswerStage DEF Respond, Conclude
<1>11. CASE NoResponse
  BY <1>11, AnswerStage DEF NoResponse, Conclude
<1>12. CASE Wake
  BY <1>12, AnswerStage DEF Wake
<1>13. CASE WakeFails
  BY <1>13, AnswerStage DEF WakeFails
<1>14. CASE NoHello
  BY <1>14, AnswerStage DEF NoHello, Fails
<1>15. CASE RejectAgent
  BY <1>15, AnswerStage DEF RejectAgent, IsHello, FirstMessage
<1>16. CASE HelloRaises
  BY <1>16, AnswerStage DEF HelloRaises, Fails, IsHello, FirstMessage
<1>17. CASE Welcome
  BY <1>17, AnswerStage DEF Welcome, IsHello, FirstMessage
<1>18. CASE GiveUp
  BY <1>18 DEF GiveUp, Stages, Clean, Admitted, HasToken, ValidVerb, Handshake, RequestFrame,
     ReplyIsTrue
<1>19. CASE Receive
  BY <1>19 DEF Receive, Stages
<1>20. CASE Rest
  BY <1>20 DEF Rest, Stages, Clean
<1>21. ASSUME NEW a \in Names, SessionLost(a) PROVE Stages'
  BY <1>21 DEF SessionLost, Stages, Clean
<1>22. ASSUME NEW a \in Names, NEW report \in Reports, Report(a, report) PROVE Stages'
  BY <1>22 DEF Report, Stages, Clean
<1>23. CASE UNCHANGED vars
  BY <1>23 DEF vars, Stages, Clean, Admitted, HasToken, ValidVerb, Handshake, RequestFrame,
     ReplyIsTrue
<1> QED
  BY <1>1, <1>2, <1>3, <1>4, <1>5, <1>6, <1>7, <1>8, <1>9, <1>10, <1>11, <1>12, <1>13,
     <1>14, <1>15, <1>16, <1>17, <1>18, <1>19, <1>20, <1>21, <1>22, <1>23 DEF Next

----------------------------------------------------------------------------
(* Nothing is done that was not asked for.                                 *)

\* Before anything is done there is nothing to justify.
LEMMA CleanIsAsked == Clean => OnlyAsked
BY ExchangeAssumption DEF Clean, NoAnswer, OnlyAsked

\* What was justified stays so.
LEMMA AskedStays ==
    ASSUME OnlyAsked, UNCHANGED <<agents, secret, req, ran, lan>>,
           answer' = answer \/ answer'.status # "hello_ok"
    PROVE  OnlyAsked'
BY DEF OnlyAsked, ActionOf

\* What the agent runs is what main's request says.
LEMMA ExecuteIsAsked == Stages /\ Execute => OnlyAsked'
<1> SUFFICES ASSUME Stages, Execute PROVE OnlyAsked'
  OBVIOUS
<1> DEFINE m == Decode(frame)
<1>1. /\ m.action = ActionOf[req.op]
      /\ req.op = "container" => m.payload = [container |-> req.container, action |-> req.verb]
  BY DEF Execute, Stages, RequestFrame, Decode, Encode, make_request
<1>2. Clean /\ Admitted /\ req.op \in DOMAIN ActionOf
  BY DEF Execute, Stages
<1>3. req.port = "web"
  BY <1>2 DEF Execute, Stages, Routes, ActionOf
<1>4. \A x \in ran' : Permitted(req.agent, m) /\ \E ok : x = Told(req.agent, m, ok)
  BY <1>2 DEF Execute, Clean
<1>5. m.action = "containers.action" => req.op = "container"
  BY <1>1, <1>2 DEF ActionOf
<1>6. \A x \in ran' :
         x.cmd = "containers.action" =>
            /\ x.container = req.container /\ x.container \in Whitelist[x.agent]
            /\ x.action = req.verb /\ x.action \in ALL_CONTAINER_ACTIONS
  BY <1>1, <1>4, <1>5 DEF Permitted, Told
<1>7. UNCHANGED <<req, secret, agents, lan, answer>>
  BY DEF Execute, Reply, config, ends
<1>8. req.token = secret.api /\ lan = {} /\ answer.status # "hello_ok"
  BY <1>2, ExchangeAssumption DEF Clean, NoAnswer, Admitted, HasToken
<1>9. \A x \in ran' : x.agent = req.agent /\ x.cmd = ActionOf[req.op]
  BY <1>1, <1>4 DEF Told
<1> HIDE DEF m
<1> QED BY <1>2, <1>3, <1>6, <1>7, <1>8, <1>9 DEF OnlyAsked, ActionOf

\* A packet is for the agent that was named.
LEMMA WakeIsAsked ==
    ASSUME Stages, at = "main", req.op = "wake", Admitted,
           UNCHANGED <<agents, secret, req, ran>>, answer'.status # "hello_ok",
           \A p \in lan' : \E d \in {Broadcast, agents[req.agent].ip} : p = Packet(req.agent, d)
    PROVE  OnlyAsked'
<1>1. ran = {} /\ req.token = secret.api
  BY DEF Stages, Clean, Admitted, HasToken
<1>2. \A p \in lan' : p.mac = agents[req.agent].mac
                      /\ p.dest \in {Broadcast, agents[req.agent].ip}
  BY DEF Packet
<1> QED BY <1>1, <1>2 DEF OnlyAsked

\* What the agent answered does nothing more.
LEMMA ConcludeIsAsked ==
    ASSUME OnlyAsked, NEW ok, Conclude(ok)
    PROVE  OnlyAsked'
<1>1. UNCHANGED <<agents, secret, req, ran, lan>>
  BY DEF Conclude, Ends, config
<1>2. answer'.status \in {"ok", "bad_gateway"}
  BY DEF Conclude, Ends
<1> QED BY <1>1, <1>2, AskedStays

\* Every step keeps OnlyAsked.
LEMMA StepAsked == Stages /\ OnlyAsked /\ [Next]_vars => OnlyAsked'
<1> SUFFICES ASSUME Stages, OnlyAsked, [Next]_vars PROVE OnlyAsked'
  OBVIOUS
<1> USE DEF config, registry, effects, ends
<1>1. ASSUME NEW r \in Requests, Begin(r) PROVE OnlyAsked'
  <2>1. Clean'
    BY <1>1 DEF Begin, Stages, Clean
  <2> QED BY <2>1, CleanIsAsked, PTL
<1>2. CASE Refused \/ StrangerAnswers
  BY <1>2, AskedStays DEF Refused, StrangerAnswers, Fails, Ends, HttpErrors
<1>3. CASE Arrives
  BY <1>3, AskedStays DEF Arrives, Fails, Ends
<1>4. CASE RejectToken
  BY <1>4, AskedStays DEF RejectToken, Fails, Ends
<1>5. CASE RejectTarget
  BY <1>5, AskedStays DEF RejectTarget, Fails, Ends
<1>6. CASE View
  BY <1>6, AskedStays DEF View, Ends
<1>7. CASE ForwardOffline
  BY <1>7, AskedStays DEF ForwardOffline, Ends
<1>8. CASE Forward
  BY <1>8, AskedStays DEF Forward
<1>9. CASE Execute
  BY <1>9, ExecuteIsAsked
<1>10. CASE Respond
  BY <1>10, ConcludeIsAsked DEF Respond
<1>11. CASE NoResponse
  BY <1>11, ConcludeIsAsked DEF NoResponse
<1>12. CASE Wake
  <2>1. \A p \in lan' : \E d \in {Broadcast, agents[req.agent].ip} : p = Packet(req.agent, d)
    BY <1>12 DEF Wake, Stages, Clean
  <2> QED BY <1>12, <2>1, WakeIsAsked DEF Wake, Ends
<1>13. CASE WakeFails
  <2>1. \A p \in lan' : \E d \in {Broadcast, agents[req.agent].ip} : p = Packet(req.agent, d)
    BY <1>13 DEF WakeFails, Stages, Clean
  <2> QED BY <1>13, <2>1, WakeIsAsked DEF WakeFails, Ends
<1>14. CASE NoHello
  BY <1>14, AskedStays DEF NoHello, Fails, Ends
<1>15. CASE RejectAgent
  BY <1>15, AskedStays DEF RejectAgent, Ends
<1>16. CASE HelloRaises
  BY <1>16, AskedStays DEF HelloRaises, Fails, Ends
<1>17. CASE Welcome
  <2>1. req.cert /\ req.token = secret.agent /\ req.agent \in DOMAIN agents
    BY <1>17, HelloIsDaemons DEF Welcome, KnownAgent, HasAgentToken, make_hello
  <2>2. ran' = {} /\ lan' = {}
    BY <1>17 DEF Welcome, IsHello, FirstMessage, Stages, Clean
  <2> QED BY <1>17, <2>1, <2>2 DEF Welcome, Ends, OnlyAsked
<1>18. CASE GiveUp
  BY <1>18, AskedStays DEF GiveUp
<1>19. CASE Receive
  BY <1>19, AskedStays DEF Receive
<1>20. CASE Rest
  <2>1. Clean'
    BY <1>20 DEF Rest, Clean
  <2> QED BY <2>1, CleanIsAsked, PTL
<1>21. ASSUME NEW a \in Names, SessionLost(a) PROVE OnlyAsked'
  BY <1>21, AskedStays DEF SessionLost
<1>22. ASSUME NEW a \in Names, NEW report \in Reports, Report(a, report) PROVE OnlyAsked'
  BY <1>22, AskedStays DEF Report
<1>23. CASE UNCHANGED vars
  BY <1>23, AskedStays DEF vars
<1> QED
  BY <1>1, <1>2, <1>3, <1>4, <1>5, <1>6, <1>7, <1>8, <1>9, <1>10, <1>11, <1>12, <1>13,
     <1>14, <1>15, <1>16, <1>17, <1>18, <1>19, <1>20, <1>21, <1>22, <1>23 DEF Next

----------------------------------------------------------------------------
(* The audit log tells what was answered.                                  *)

\* Before there is an answer the log owes nothing.
LEMMA UnansweredIsTold == answer = NoAnswer => AuditTellsAnswer
BY DEF NoAnswer, AuditTellsAnswer

\* What was told stays so.
LEMMA ToldStays ==
    ASSUME AuditTellsAnswer, UNCHANGED <<agents, req, ran, lan, log, answer>>
    PROVE  AuditTellsAnswer'
BY DEF AuditTellsAnswer, Line

\* An answer before anything was done is no line, and says so.
LEMMA FailureIsTold ==
    ASSUME Clean, UNCHANGED <<agents, req, ran, lan, log>>, answer'.ok = FALSE,
           answer'.status \notin {"ok", "unavailable"}
    PROVE  AuditTellsAnswer'
BY DEF Clean, AuditTellsAnswer, Line

\* The answers to anything but an action, and those of another server.
LEMMA OthersAreTold ==
    ASSUME req'.op \notin Actions \cup {"wake"} \/ req'.url # "main"
    PROVE  AuditTellsAnswer'
BY DEF AuditTellsAnswer, Actions

\* What the agent answered is what the log and the client are told.
LEMMA ConcludeIsTold ==
    ASSUME Stages, NEW ok \in BOOLEAN, Conclude(ok), at \in {"agent", "reply"},
           ok => req.agent \in Stubs \/ \E x \in ran : x.ok
    PROVE  AuditTellsAnswer'
<1>1. CASE req.op \notin Actions
  <2>1. req'.op \notin Actions \cup {"wake"}
    BY <1>1 DEF Conclude, Ends, Stages, ActionOf
  <2> QED BY <2>1, OthersAreTold
<1>2. CASE req.op \in Actions
  <2> DEFINE done == req.agent \in Stubs \/ \E x \in ran : x.ok
  <2>1. log = {}
    BY DEF Stages, Clean
  <2>2. /\ Audit(req.op, ok) /\ Ends("ok", ok, <<>>)
        /\ UNCHANGED <<agents, req, ran, lan>>
    BY <1>2 DEF Conclude, Ends, config
  <2>3. answer'.status = "ok" /\ answer'.ok = ok
    BY <2>2 DEF Ends
  <2>4. PICK written \in BOOLEAN : log' = {Line(req.op, answer'.ok, written)}
    BY <2>1, <2>2, <2>3 DEF Audit
  <2>5. (log \in {{Line(req.op, answer.ok, w)} : w \in BOOLEAN})' /\ log' # {}
    BY <2>2, <2>4 DEF Line
  <2>6. answer'.ok => done
    <3>1. CASE ok
      BY <3>1
    <3>2. CASE ~ok
      <4>1. ~answer'.ok
        BY <2>3, <3>2, Zenon
      <4> QED BY <4>1
    <3> QED BY <3>1, <3>2
  <2>7. (answer.ok => lan # {} \/ req.agent \in Stubs \/ \E x \in ran : x.ok)'
    BY <2>2, <2>6, Zenon
  <2> QED BY <2>3, <2>5, <2>7, Zenon DEF AuditTellsAnswer
<1> QED BY <1>1, <1>2

\* Every step keeps AuditTellsAnswer.
LEMMA StepTold == Stages /\ AuditTellsAnswer /\ [Next]_vars => AuditTellsAnswer'
<1> SUFFICES ASSUME Stages, AuditTellsAnswer, [Next]_vars PROVE AuditTellsAnswer'
  OBVIOUS
<1> USE DEF config, registry, effects, ends
<1>a. ASSUME NEW status, at \in {"sent", "main"}, Fails(status),
             status \notin {"ok", "unavailable"}
      PROVE  AuditTellsAnswer'
  BY <1>a, FailureIsTold DEF Fails, Ends, Stages
<1>b. ASSUME answer' = NoAnswer PROVE AuditTellsAnswer'
  <2>1. (answer = NoAnswer)'
    BY <1>b
  <2> QED BY <2>1, UnansweredIsTold, PTL
<1>1. ASSUME NEW r \in Requests, Begin(r) PROVE AuditTellsAnswer'
  BY <1>1, <1>b DEF Begin, Stages, Clean
<1>2. CASE Refused \/ StrangerAnswers
  <2>1. CASE Refused
    BY <2>1, <1>a DEF Refused
  <2>2. CASE StrangerAnswers
    BY <2>2, OthersAreTold DEF StrangerAnswers, Fails, Ends
  <2> QED BY <1>2, <2>1, <2>2
<1>3. CASE Arrives
  <2>1. CASE Fails("not_found")
    BY <1>3, <2>1, <1>a DEF Arrives
  <2>2. CASE UNCHANGED ends
    BY <1>3, <2>2, <1>b DEF Arrives, Stages, Clean
  <2> QED BY <1>3, <2>1, <2>2 DEF Arrives
<1>4. CASE RejectToken
  BY <1>4, <1>a DEF RejectToken
<1>5. CASE RejectTarget
  BY <1>5, <1>a DEF RejectTarget
<1>6. CASE View
  <2>1. req'.op \notin Actions \cup {"wake"}
    BY <1>6 DEF View, Ends, Actions
  <2> QED BY <2>1, OthersAreTold
<1>7. CASE ForwardOffline
  <2>1. CASE req.op \notin Actions
    <3>1. req'.op \notin Actions \cup {"wake"}
      BY <1>7, <2>1 DEF ForwardOffline, Ends
    <3> QED BY <3>1, OthersAreTold
  <2>2. CASE req.op \in Actions
    <3>1. PICK written \in BOOLEAN : log' = {Line(req.op, FALSE, written)}
      BY <1>7, <2>2 DEF ForwardOffline, Stages, Clean, Audit
    <3> QED BY <1>7, <3>1 DEF ForwardOffline, Ends, Stages, Clean, AuditTellsAnswer, Line
  <2> QED BY <2>1, <2>2
<1>8. CASE Forward
  BY <1>8, <1>b DEF Forward, Stages, Clean
<1>9. CASE Execute
  BY <1>9, <1>b DEF Execute, Reply, Stages, Clean
<1>10. CASE Respond
  <2>1. PICK ok \in BOOLEAN, error \in {None, "refused", "failed"} :
           /\ frame = Encode(make_response("id", ok, None, error))
           /\ ok => req.agent \in Stubs \/ \E x \in ran : x.ok
    BY <1>10, Zenon DEF Respond, Stages, ReplyIsTrue
  <2>2. Decode(frame).ok = ok
    BY <2>1 DEF Decode, Encode, make_response
  <2> QED BY <1>10, <2>1, <2>2, ConcludeIsTold DEF Respond
<1>11. CASE NoResponse
  BY <1>11, ConcludeIsTold DEF NoResponse
<1>12. CASE Wake
  <2>1. lan' # {}
    <3>1. Packet(req.agent, Broadcast) \in lan'
      BY <1>12, ExchangeAssumption DEF Wake
    <3> QED BY <3>1
  <2>2. PICK written \in BOOLEAN : log' = {Line("wake", TRUE, written)}
    BY <1>12 DEF Wake, Stages, Clean, Audit
  <2> QED BY <1>12, <2>1, <2>2 DEF Wake, Ends, Stages, Clean, AuditTellsAnswer, Line
<1>13. CASE WakeFails
  BY <1>13 DEF WakeFails, Ends, Stages, Clean, AuditTellsAnswer, Line
<1>14. CASE NoHello
  BY <1>14, <1>a DEF NoHello
<1>15. CASE RejectAgent
  <2>1. req'.op \notin Actions \cup {"wake"}
    BY <1>15 DEF RejectAgent, IsHello, FirstMessage, Ends, Actions
  <2> QED BY <2>1, OthersAreTold
<1>16. CASE HelloRaises
  BY <1>16, <1>a DEF HelloRaises, IsHello, FirstMessage
<1>17. CASE Welcome
  <2>1. req'.op \notin Actions \cup {"wake"}
    BY <1>17 DEF Welcome, IsHello, FirstMessage, Ends, Actions
  <2> QED BY <2>1, OthersAreTold
<1>18. CASE GiveUp
  BY <1>18, ToldStays DEF GiveUp
<1>19. CASE Receive
  BY <1>19, ToldStays DEF Receive
<1>20. CASE Rest
  BY <1>20, <1>b DEF Rest
<1>21. ASSUME NEW a \in Names, SessionLost(a) PROVE AuditTellsAnswer'
  BY <1>21, ToldStays DEF SessionLost
<1>22. ASSUME NEW a \in Names, NEW report \in Reports, Report(a, report)
       PROVE  AuditTellsAnswer'
  BY <1>22, ToldStays DEF Report
<1>23. CASE UNCHANGED vars
  BY <1>23, ToldStays DEF vars
<1> QED
  BY <1>1, <1>2, <1>3, <1>4, <1>5, <1>6, <1>7, <1>8, <1>9, <1>10, <1>11, <1>12, <1>13,
     <1>14, <1>15, <1>16, <1>17, <1>18, <1>19, <1>20, <1>21, <1>22, <1>23 DEF Next

----------------------------------------------------------------------------
(* The theorems.                                                           *)

\* The invariant holds initially and stays.
LEMMA InitExchange == Init => ExchangeInv
<1> SUFFICES ASSUME Init PROVE ExchangeInv
  OBVIOUS
<1>1. Clean /\ at = "idle"
  BY DEF Init, Clean
<1>2. Stages
  BY <1>1 DEF Stages
<1> QED
  BY <1>1, <1>2, InitType, CleanIsAsked, UnansweredIsTold DEF ExchangeInv, Clean

\* ExchangeInv holds in every reachable state.
THEOREM ExchangeSafe == Spec => []ExchangeInv
<1>1. ExchangeInv /\ [Next]_vars => ExchangeInv'
  BY StepType, StepStages, StepAsked, StepTold DEF ExchangeInv
<1> QED BY InitExchange, <1>1, PTL DEF Spec

\* The types.
THEOREM ExchangeTypes == Spec => []TypeOK
BY ExchangeSafe, PTL DEF ExchangeInv

\* A host, a packet and a session are only what an admitted request asked for,
\* with any number of agents, containers, tokens and reports.
THEOREM OnlyWhatWasAsked == Spec => []OnlyAsked
BY ExchangeSafe, PTL DEF ExchangeInv

\* Every action that main admitted and answered was audited once, with the result
\* answered, whether or not its line could be written; no other request was, and
\* a reply "ok" means that a host did it, or that a packet was sent.
THEOREM LogTellsAnswers == Spec => []AuditTellsAnswer
BY ExchangeSafe, PTL DEF ExchangeInv

----------------------------------------------------------------------------
(* What the clients conclude.                                              *)

\* What each client asks for, and of whom; only main's own listeners hand on.
Fitting ==
    /\ at # "idle" =>
          /\ req.client \in Ha \cup {"page"} => req.port = "web"
          /\ req.client = "page" => req.url = "main"
          /\ req.client = "flow" => req.op = "agents"
          /\ req.client = "button" => req.op \in Actions \cup {"wake"}
          /\ req.op = "agents" => req.client \in {"flow", "poll", "page"}
    /\ at \in {"main", "agent", "reply"} => req.url = "main"

\* What becomes of a request to main's web port.
WebAnswers == {"ok", "unauthorized", "refused", "untrusted"} \cup HttpErrors

\* What main answers has a cause in the request or the configuration.
MainsCause(status) ==
    /\ status \in WebAnswers
    /\ status = "ok" =>
          req.op = "index" \/ (req.token = secret.api /\ (req.verify => tls.trusted))
    /\ status = "unauthorized" => req.token # secret.api
    /\ status = "untrusted" => ~tls.trusted
    /\ status = "server_error" => ~Comparable(req.token, secret.api) \/ req.op = "wake"
    /\ status \in HttpErrors \ {"server_error"} => req.op # "agents"

\* Of another server only a certificate has; where nobody is, nothing answers.
Cause(status) ==
    /\ req.url = "main" => MainsCause(status)
    /\ req.url = "nobody" => status = "refused"
    /\ status = "untrusted" => req.verify

Explained == at \in {"answered", "over"} /\ req.port = "web" => Cause(answer.status)

\* Who asks for what.
LEMMA RequestsFit ==
    \A r \in Requests :
        /\ r.client \in Ha \cup {"page"} => r.port = "web"
        /\ r.client = "page" => r.url = "main"
        /\ r.url \in {"main", "nobody", "stranger"}
        /\ r.client = "flow" => r.op = "agents"
        /\ r.client = "button" => r.op \in Actions \cup {"wake"}
        /\ r.op = "agents" => r.client \in {"flow", "poll", "page"}
<1>1. \A clients, ops, names, containers, verbs :
         \A r \in Ask(clients, ops, names, containers, verbs) :
            /\ r.port = "web" /\ r.client \in clients /\ r.op \in ops
            /\ r.url \in {"main", "nobody", "stranger"}
            /\ clients \cap {"flow", "poll", "button"} = {} => r.url = "main"
  BY DEF Ask
<1> SUFFICES ASSUME NEW r \in Requests
             PROVE  /\ r.client \in Ha \cup {"page"} => r.port = "web"
                    /\ r.client = "page" => r.url = "main"
                    /\ r.url \in {"main", "nobody", "stranger"}
                    /\ r.client = "flow" => r.op = "agents"
                    /\ r.client = "button" => r.op \in Actions \cup {"wake"}
                    /\ r.op = "agents" => r.client \in {"flow", "poll", "page"}
  OBVIOUS
<1>2. \/ r \in Ask({"flow", "poll"}, {"agents"}, {None}, {None}, {None})
      \/ r \in Ask({"poll"}, {"containers"}, Names, {None}, {None})
      \/ r \in Ask({"button"}, {"wake", "poweroff", "reboot"}, Names, {None}, {None})
      \/ r \in Ask({"button"}, {"container"}, Names, Containers, ALL_CONTAINER_ACTIONS)
      \/ r \in Ask({"page"}, {"agents", "index", "stream"}, {None}, {None}, {None})
      \/ r \in Ask({"page"}, {"wake", "poweroff", "reboot", "containers"}, Names, {None}, {None})
      \/ r \in Ask({"curl"}, {"telemetry", "ws"}, Names, {None}, {None})
      \/ r \in Ask({"curl"}, {"container"}, Names, Containers, Verbs)
      \/ r \in [client : {"daemon", "curl"}, op : {"ws"}, agent : Names, container : {None},
                verb : {None}, port : {"mgmt"}, url : {"main"}, verify : {TRUE},
                cert : BOOLEAN, token : Tokens]
  BY ZenonT(60) DEF Requests
<1> DEFINE asked(clients, ops) ==
      /\ r.port = "web" /\ r.client \in clients /\ r.op \in ops
      /\ r.url \in {"main", "nobody", "stranger"}
      /\ clients \cap {"flow", "poll", "button"} = {} => r.url = "main"
<1>3. \/ asked({"flow", "poll"}, {"agents"})
      \/ asked({"poll"}, {"containers"})
      \/ asked({"button"}, {"wake", "poweroff", "reboot"})
      \/ asked({"button"}, {"container"})
      \/ asked({"page"}, {"agents", "index", "stream"})
      \/ asked({"page"}, {"wake", "poweroff", "reboot", "containers"})
      \/ asked({"curl"}, {"telemetry", "ws"})
      \/ asked({"curl"}, {"container"})
      \/ r.client \in {"daemon", "curl"} /\ r.op = "ws" /\ r.url = "main"
  <2>1. ASSUME NEW clients, NEW ops, NEW names, NEW containers, NEW verbs,
               r \in Ask(clients, ops, names, containers, verbs)
        PROVE  asked(clients, ops)
    BY <1>1, <2>1
  <2> HIDE DEF asked
  <2> QED BY <1>2, <2>1
<1> QED BY <1>3 DEF Ha, Actions

\* Steps that leave request and place alone, or end the exchange.
LEMMA FitStays ==
    ASSUME Fitting, at # "idle", req' = req, at' \notin {"main", "agent", "reply"} \/ req.url = "main"
    PROVE  Fitting'
BY DEF Fitting

\* Every step keeps Fitting.
LEMMA StepFitting == Fitting /\ [Next]_vars => Fitting'
<1> SUFFICES ASSUME Fitting, [Next]_vars PROVE Fitting'
  OBVIOUS
<1> USE DEF config, registry, effects, ends
<1>1. ASSUME NEW r \in Requests, Begin(r) PROVE Fitting'
  BY <1>1, RequestsFit DEF Begin, Fitting
<1>2. ASSUME NEW status, Fails(status), at # "idle" PROVE Fitting'
  BY <1>2, FitStays DEF Fails, Ends
<1>3. CASE Refused \/ StrangerAnswers
  BY <1>2, <1>3, FitStays DEF Refused, StrangerAnswers, Fails, Ends
<1>4. CASE Arrives
  BY <1>2, <1>4, FitStays DEF Arrives
<1>5. CASE RejectToken \/ RejectTarget \/ NoHello \/ HelloRaises
  BY <1>2, <1>5 DEF RejectToken, RejectTarget, NoHello, HelloRaises, IsHello, FirstMessage
<1>6. CASE View \/ ForwardOffline \/ Wake \/ WakeFails \/ RejectAgent \/ Welcome
  BY <1>6, FitStays
  DEF View, ForwardOffline, Wake, WakeFails, RejectAgent, Welcome, IsHello, FirstMessage, Ends
<1>7. CASE Respond \/ NoResponse
  BY <1>7, FitStays DEF Respond, NoResponse, Conclude, Ends
<1>8. CASE Forward \/ Execute \/ GiveUp
  BY <1>8, FitStays DEF Forward, Execute, Reply, GiveUp, Fitting
<1>9. CASE Receive
  BY <1>9, FitStays DEF Receive
<1>10. CASE Rest
  BY <1>10 DEF Rest, Fitting
<1>11. ASSUME NEW a \in Names, SessionLost(a) \/ \E report \in Reports : Report(a, report)
       PROVE  Fitting'
  BY <1>11 DEF SessionLost, Report, Fitting
<1>12. CASE UNCHANGED vars
  BY <1>12 DEF vars, Fitting
<1> QED
  BY <1>1, <1>3, <1>4, <1>5, <1>6, <1>7, <1>8, <1>9, <1>10, <1>11, <1>12 DEF Next

\* An answer that has a cause.
LEMMA AnswerExplained ==
    ASSUME NEW status, NEW ok, NEW report, Ends(status, ok, report),
           req.port = "web" => Cause(status)
    PROVE  Explained'
BY DEF Ends, Explained, Cause, MainsCause, config

\* Every step keeps Explained.
LEMMA StepExplained ==
    ASSUME Stages, Fitting, Explained, [Next]_vars
    PROVE  Explained'
<1> USE DEF config, registry, effects, ends
<1>1. ASSUME NEW r \in Requests, Begin(r) PROVE Explained'
  BY <1>1 DEF Begin, Explained
<1>2. CASE Refused \/ StrangerAnswers
  <2>1. ASSUME NEW status, NEW ok, Ends(status, ok, <<>>), req.port = "web" => Cause(status)
        PROVE  Explained'
    BY <2>1, AnswerExplained
  <2>2. CASE Refused
    BY <2>1, <2>2 DEF Refused, Fails, Cause, MainsCause, WebAnswers, HttpErrors, Handshake
  <2>3. CASE StrangerAnswers
    <3>1. \A status \in HttpErrors \cup {"unauthorized", "not_json", "bad_json", "odd_json", "ok"} :
             Cause(status)
      BY <2>3 DEF StrangerAnswers, Cause, HttpErrors
    <3> QED BY <2>1, <2>3, <3>1 DEF StrangerAnswers, Fails
  <2> QED BY <1>2, <2>2, <2>3
<1>u. ASSUME at \in {"main", "agent", "reply"} \/ Arrives, NEW status, status # "untrusted",
             NEW ok, NEW report, Ends(status, ok, report), req.port = "web" => MainsCause(status)
      PROVE  Explained'
  <2>1. req.url = "main"
    BY <1>u DEF Fitting, Arrives
  <2> QED BY <1>u, <2>1, AnswerExplained DEF Cause
<1>3. CASE Arrives
  <2>1. CASE req.op \notin Routes[req.port] /\ Fails("not_found")
    <3>1. req.port = "web" => MainsCause("not_found")
      BY <2>1 DEF MainsCause, WebAnswers, HttpErrors, Routes, TokenOps
    <3> QED BY <1>3, <2>1, <3>1, <1>u DEF Fails
  <2>2. CASE at' = "main"
    BY <2>2 DEF Explained
  <2> QED BY <1>3, <2>1, <2>2 DEF Arrives
<1>4. CASE RejectToken
  <2>1. CASE ~Comparable(req.token, secret.api) /\ Fails("server_error")
    <3>1. MainsCause("server_error")
      BY <2>1 DEF MainsCause, WebAnswers, HttpErrors
    <3> QED BY <1>4, <2>1, <3>1, <1>u DEF RejectToken, Fails
  <2>2. CASE Comparable(req.token, secret.api) /\ ~HasToken /\ Fails("unauthorized")
    <3>1. MainsCause("unauthorized")
      BY <1>4, <2>2 DEF RejectToken, MainsCause, WebAnswers, HttpErrors, HasToken
    <3> QED BY <1>4, <2>2, <3>1, <1>u DEF RejectToken, Fails
  <2> QED BY <1>4, <2>1, <2>2 DEF RejectToken
<1>5. CASE RejectTarget
  <2>1. req.op # "agents"
    BY <1>5 DEF RejectTarget, AgentOps, Actions
  <2>2. MainsCause("bad_request") /\ MainsCause("not_found")
    BY <2>1 DEF MainsCause, WebAnswers, HttpErrors
  <2> QED BY <1>5, <2>2, <1>u DEF RejectTarget, Fails
<1>6. CASE View
  <2>1. PICK report : Ends("ok", TRUE, report)
    BY <1>6 DEF View
  <2>2. req.port = "web" => MainsCause("ok")
    BY <1>6 DEF View, MainsCause, WebAnswers, HttpErrors, Admitted, HasToken, Stages, Handshake
  <2> QED BY <1>6, <2>1, <2>2, <1>u DEF View
<1>7. CASE ForwardOffline
  <2>1. MainsCause("unavailable")
    BY <1>7 DEF ForwardOffline, Actions, MainsCause, WebAnswers, HttpErrors
  <2> QED BY <1>7, <2>1, <1>u DEF ForwardOffline
<1>8. CASE Forward \/ Execute
  BY <1>8 DEF Forward, Execute, Reply, Explained
<1>9. CASE Respond \/ NoResponse
  <2>1. PICK ok : Conclude(ok)
    BY <1>9 DEF Respond, NoResponse
  <2>2. Admitted /\ Handshake(req) /\ req.op \in DOMAIN ActionOf
    BY <1>9 DEF Respond, NoResponse, Stages
  <2>3. req.port = "web" => MainsCause("ok")
    BY <2>2 DEF MainsCause, WebAnswers, HttpErrors, Admitted, HasToken, Handshake
  <2>4. MainsCause("bad_gateway")
    BY <2>2 DEF MainsCause, WebAnswers, HttpErrors, ActionOf
  <2>5. Ends("ok", ok, <<>>) \/ Ends("bad_gateway", ok, <<>>)
    BY <2>1 DEF Conclude
  <2> QED BY <1>9, <2>3, <2>4, <2>5, <1>u DEF Respond, NoResponse
<1>10. CASE WakeFails
  <2>1. MainsCause("server_error")
    BY <1>10 DEF WakeFails, MainsCause, WebAnswers, HttpErrors
  <2> QED BY <1>10, <2>1, <1>u DEF WakeFails
<1>11. CASE Wake
  <2>1. req.port = "web" => MainsCause("ok")
    BY <1>11 DEF Wake, MainsCause, WebAnswers, HttpErrors, Admitted, HasToken, Stages, Handshake
  <2> QED BY <1>11, <2>1, <1>u DEF Wake
<1>12. CASE NoHello \/ RejectAgent \/ HelloRaises \/ Welcome
  <2>1. at = "main" /\ req.op = "ws" /\ req' = req
    BY <1>12
    DEF NoHello, RejectAgent, HelloRaises, Welcome, IsHello, FirstMessage, Fails, Ends
  <2>2. req.port # "web"
    BY <2>1 DEF Stages, Routes, TokenOps, AgentOps, Actions
  <2> QED BY <2>1, <2>2 DEF Explained
<1>13. CASE GiveUp \/ Receive
  BY <1>13 DEF GiveUp, Receive, Explained, Cause, MainsCause
<1>14. CASE Rest
  BY <1>14 DEF Rest, Explained
<1>15. ASSUME NEW a \in Names, SessionLost(a) \/ \E report \in Reports : Report(a, report)
       PROVE  Explained'
  BY <1>15 DEF SessionLost, Report, Explained
<1>16. CASE UNCHANGED vars
  BY <1>16 DEF vars, Explained, Cause, MainsCause
<1> QED
  BY <1>1, <1>2, <1>3, <1>4, <1>5, <1>6, <1>7, <1>8, <1>9, <1>10, <1>11, <1>12, <1>13,
     <1>14, <1>15, <1>16 DEF Next

\* What a client makes of an answer that has a cause.
LEMMA ReceiveTells ==
    ASSUME TypeOK, OnlyAsked, AuditTellsAnswer, Fitting, Explained, Receive
    PROVE  ClientsTell'
<1> USE DEF config, registry, effects, ends
<1> DEFINE exc == Raised(Received)
<1>1. /\ at = "answered"
      /\ UNCHANGED <<agents, secret, tls, req, left, ran, lan, log, answer>>
  BY DEF Receive
<1>2. Received' = Received /\ (left = None => Received = answer.status)
  BY <1>1 DEF Received
<1>3. left # None => Received = left /\ left \in {"timeout", "refused"}
  BY DEF Received, TypeOK
<1>4. CASE req.client = "flow"
  <2>1. seen' = FlowShows(exc)
    BY <1>4 DEF Receive
  <2>2. Cause(answer.status) /\ req.op = "agents" /\ req.client \notin {"page", "button"}
    BY <1>1, <1>4 DEF Fitting, Explained, Ha
  <2>3. /\ seen' = "entry" => exc = "none"
        /\ seen' = "invalid_auth" => Received = "unauthorized"
        /\ seen' = "ssl_error" => Received = "untrusted"
        /\ seen' = "cannot_connect" => Received \in {"refused", "not_json"}
        /\ seen' = "raises" => Received \in HttpErrors \cup {"timeout", "bad_json"}
        /\ seen' \notin {"done", "data", "ok"}
    BY <2>1 DEF FlowShows, FlowErrors, Raised, HttpErrors
  <2>4. seen' = "entry" => Received \notin HttpErrors \cup {"unauthorized", "untrusted", "refused", "timeout"}
    BY <2>3 DEF Raised, HttpErrors
  <2>5. ASSUME req.url = "main"
        PROVE  /\ seen' = "entry" => req.token = secret.api /\ (req.verify => tls.trusted)
               /\ seen' = "invalid_auth" => req.token # secret.api
               /\ seen' = "ssl_error" => ~tls.trusted
               /\ seen' = "cannot_connect" => Received = "refused"
               /\ seen' = "raises" => left = "timeout" \/ ~Comparable(req.token, secret.api)
    <3>1. MainsCause(answer.status)
      BY <2>2, <2>5 DEF Cause
    <3>2. CASE left = None
      BY <1>2, <2>2, <2>3, <2>4, <3>1, <3>2 DEF MainsCause, WebAnswers, HttpErrors
    <3>3. CASE left # None
      BY <1>3, <2>3, <2>4, <3>3 DEF HttpErrors
    <3> QED BY <3>2, <3>3
  <2>6. seen' = "ssl_error" => req.verify
    BY <1>2, <1>3, <2>2, <2>3 DEF Cause
  <2>7. req.url = "nobody" => seen' \notin {"entry", "invalid_auth"}
    BY <1>2, <1>3, <2>2, <2>3, <2>4 DEF Cause
  <2> QED
    BY <1>1, <1>2, <1>4, <2>2, <2>3, <2>5, <2>6, <2>7 DEF ClientsTell, Comparable
<1>5. CASE req.client = "button"
  <2>1. seen' = PressShows(exc)
    BY <1>5 DEF Receive
  <2>2. Cause(answer.status) /\ req.op \in Actions \cup {"wake"}
    BY <1>1, <1>5 DEF Fitting, Explained, Ha
  <2>3. /\ seen' \in {"done", "raises", "warned"}
        /\ seen' = "done" => exc = "none"
        /\ seen' = "raises" => Received \in {"timeout", "bad_json"}
    BY <2>1 DEF PressShows, Raised, HttpErrors
  <2>4. seen' = "done" => Received \notin HttpErrors \cup {"unauthorized", "untrusted", "refused", "timeout"}
    BY <2>3 DEF Raised, HttpErrors
  <2>5. ASSUME req.url = "main"
        PROVE  /\ seen' = "raises" => left = "timeout"
               /\ seen' = "done" => log # {}
    <3>1. MainsCause(answer.status)
      BY <2>2, <2>5 DEF Cause
    <3>2. CASE left = None
      <4>1. seen' # "raises" /\ (seen' = "done" => answer.status = "ok")
        BY <1>2, <2>3, <2>4, <3>1, <3>2 DEF MainsCause, WebAnswers, HttpErrors
      <4>2. answer.status = "ok" => log # {}
        BY <2>2, <2>5, ExchangeAssumption DEF AuditTellsAnswer
      <4> QED BY <4>1, <4>2
    <3>3. CASE left # None
      BY <1>3, <2>3, <2>4, <3>3
    <3> QED BY <3>2, <3>3
  <2>6. req.url = "nobody" => seen' # "done"
    BY <1>2, <1>3, <2>2, <2>4 DEF Cause
  <2> QED BY <1>1, <1>5, <2>3, <2>5, <2>6 DEF ClientsTell
<1>6. CASE req.client \notin {"flow", "button"}
  <2>1. seen' \in {"failed", "data", "ok", "error"}
    BY <1>6 DEF Receive
  <2>2. ASSUME req.client = "page", seen' = "ok", req.op \in Actions
        PROVE  req.agent \in Stubs \/ \E x \in ran : x.ok
    <3>1. answer.ok /\ Received \in {"ok", "hello_ok"}
      BY <2>2 DEF Receive
    <3>2. answer.status \in {"ok", "hello_ok"}
      BY <1>2, <1>3, <3>1
    <3>3. lan = {} /\ req.url = "main"
      BY <1>1, <2>2 DEF OnlyAsked, Actions, Fitting
    <3> QED BY <2>2, <3>1, <3>2, <3>3, ExchangeAssumption DEF AuditTellsAnswer
  <2>3. ASSUME req.url = "nobody", req.op = "agents" PROVE seen' # "data"
    <3>1. CASE req.client = "poll"
      <4>1. Cause(answer.status)
        BY <1>1, <3>1 DEF Fitting, Explained, Ha
      <4>2. Received \in {"refused", "timeout"}
        BY <1>2, <1>3, <2>3, <4>1 DEF Cause
      <4>3. PollFails(exc)
        BY <2>3, <4>2 DEF PollFails, Raised, HttpErrors
      <4> QED BY <1>6, <3>1, <4>3 DEF Receive
    <3>2. CASE req.client # "poll"
      BY <1>6, <3>2 DEF Receive
    <3> QED BY <3>1, <3>2
  <2> QED BY <1>1, <1>6, <2>1, <2>2, <2>3 DEF ClientsTell
<1> QED BY <1>4, <1>5, <1>6

\* Only the client's conclusion ends an exchange.
LEMMA OnlyReceiveEnds == ASSUME Next, ~Receive PROVE at' # "over"
BY DEF Next, Begin, Refused, StrangerAnswers, Arrives, RejectToken, RejectTarget, View, ForwardOffline, Forward,
       Execute, Reply, Respond, NoResponse, Conclude, Wake, WakeFails, NoHello, RejectAgent,
       HelloRaises, Welcome, GiveUp, Rest, SessionLost, Report, Fails, Ends

\* A client concludes once.
LEMMA StepTells ==
    ASSUME TypeOK, OnlyAsked, AuditTellsAnswer, Fitting, Explained, ClientsTell, [Next]_vars
    PROVE  ClientsTell'
<1>1. CASE Receive
  BY <1>1, ReceiveTells
<1>2. CASE UNCHANGED vars
  BY <1>2 DEF vars, ClientsTell, Comparable, Received
<1>3. ASSUME Next, ~Receive PROVE at' # "over"
  BY <1>3, OnlyReceiveEnds
<1> QED BY <1>1, <1>2, <1>3 DEF ClientsTell

\* What a client concludes of main is true of the request, the configuration and
\* what was done, whatever the tokens and the agents, and wherever an answer is
\* lost or late; of another server, which may answer anything, no more is claimed
\* than that its certificate is doubted only if it was to be verified.
THEOREM ClientsTellTrue == Spec => []ClientsTell
<1> DEFINE Inv == Fitting /\ Explained /\ ClientsTell
<1>1. Init => Inv
  BY DEF Init, Fitting, Explained, ClientsTell
<1>2. ExchangeInv /\ Inv /\ [Next]_vars => Inv'
  BY StepFitting, StepExplained, StepTells DEF ExchangeInv
<1> QED BY <1>1, <1>2, ExchangeSafe, PTL DEF Spec

\* With a token of main's that is ASCII, an answer to the flow's own request can
\* only be "ok": each other status has a cause that is ruled out.
LEMMA RightTokenReceived ==
    ASSUME Fitting, Explained, secret.api \in Ascii, Receive
    PROVE  RightTokenAdmits'
<1> USE DEF Receive, config, registry, effects
<1> SUFFICES ASSUME req.client = "flow", req.url = "main", Received # "refused", Handshake(req),
                    left = None, req.token = secret.api
             PROVE  seen' = "entry"
  BY DEF RightTokenAdmits, Handshake, Received
<1>1. at = "answered" /\ req.port = "web" /\ req.op = "agents"
  BY DEF Fitting, Ha
<1>2. /\ MainsCause(answer.status) /\ Received = answer.status
      /\ answer.status = "untrusted" => req.verify
  BY <1>1 DEF Explained, Cause, Received
<1>3. Comparable(req.token, secret.api) /\ (req.verify => tls.trusted)
  BY <1>1 DEF Comparable, Handshake
<1>4. answer.status = "ok"
  BY <1>1, <1>2, <1>3 DEF MainsCause, WebAnswers, HttpErrors
<1> QED BY <1>2, <1>4 DEF Raised, HttpErrors, FlowShows

\* The finding about tokens has no other cause: if main's API token is ASCII, it
\* makes an entry whenever main is reached, trusted and answers in time.
THEOREM AsciiTokenAdmits == Spec => [](secret.api \in Ascii => RightTokenAdmits)
<1> DEFINE Inv == Fitting /\ Explained /\ (secret.api \in Ascii => RightTokenAdmits)
<1>1. Init => Inv
  BY DEF Init, Fitting, Explained, RightTokenAdmits
<1>2. ASSUME RightTokenAdmits, UNCHANGED vars PROVE RightTokenAdmits'
  BY <1>2 DEF vars, RightTokenAdmits, Handshake, Received
<1>3. ASSUME Next, ~Receive PROVE RightTokenAdmits'
  BY <1>3, OnlyReceiveEnds DEF RightTokenAdmits
<1>4. [Next]_vars => secret' = secret
  BY DEF vars, config, Next, Begin, Refused, StrangerAnswers, Arrives, RejectToken, RejectTarget, View,
         ForwardOffline, Forward, Execute, Reply, Respond, NoResponse, Conclude, Wake, WakeFails,
         NoHello, RejectAgent, HelloRaises, Welcome, GiveUp, Receive, Rest, SessionLost, Report,
         Fails, Ends
<1>5. ExchangeInv /\ Inv /\ [Next]_vars => Inv'
  BY <1>2, <1>3, <1>4, StepFitting, StepExplained, RightTokenReceived DEF ExchangeInv
<1> QED BY <1>1, <1>5, ExchangeSafe, PTL DEF Spec

----------------------------------------------------------------------------
(* The packets.                                                            *)

\* The MACs of the configuration are text, and every packet is of one that
\* parse_mac accepted.
PacketInv ==
    /\ \A a \in DOMAIN agents : agents[a].mac \in Seq(Kinds)
    /\ \A p \in lan : /\ p.mac \in Seq(Kinds) /\ Parsed(p.mac) >= 0
                     /\ p.length = PacketLength(p.mac)

\* Such packets are magic.
LEMMA PacketsMagic == PacketInv => PacketIsMagic
<1> SUFFICES ASSUME PacketInv, NEW p \in lan
             PROVE  /\ p.length <= 17 * Octets
                    /\ p.length # 17 * Octets => \E i \in DOMAIN p.mac : p.mac[i] = " "
  BY DEF PacketIsMagic
<1>1. p.mac \in Seq(Kinds) /\ Parsed(p.mac) >= 0 /\ p.length = Octets + 16 * Parsed(p.mac)
  BY DEF PacketInv, PacketLength
<1>2. /\ Parsed(p.mac) \in 0 .. Octets
      /\ Parsed(p.mac) # Octets => \E i \in DOMAIN p.mac : p.mac[i] = " "
  BY <1>1, ParsedBytes
<1>3. \A n \in 0 .. Octets : Octets + 16 * n <= 17 * Octets
                            /\ (n = Octets => Octets + 16 * n = 17 * Octets)
  BY WakeAssumption
<1> QED BY <1>1, <1>2, <1>3

\* Every step keeps the packets what they are: only a wake sends, of the agent
\* it names, after parse_mac.
LEMMA StepPackets == ASSUME PacketInv, [Next]_vars PROVE PacketInv'
<1> USE DEF config, registry, effects, ends
<1>1. ASSUME agents' = agents,
             \A p \in lan' : \/ p \in lan
                             \/ /\ req.agent \in DOMAIN agents
                                /\ Parsed(agents[req.agent].mac) >= 0
                                /\ \E d : p = Packet(req.agent, d)
      PROVE  PacketInv'
  <2>1. ASSUME NEW p \in lan', p \notin lan
        PROVE  p.mac \in Seq(Kinds) /\ Parsed(p.mac) >= 0 /\ p.length = PacketLength(p.mac)
    <3>1. PICK d : p = Packet(req.agent, d)
      BY <1>1, <2>1
    <3>2. p.mac = agents[req.agent].mac /\ p.length = PacketLength(agents[req.agent].mac)
      BY <3>1 DEF Packet
    <3> QED BY <1>1, <2>1, <3>2 DEF PacketInv
  <2> QED BY <1>1, <2>1 DEF PacketInv
<1>2. CASE Wake
  BY <1>1, <1>2 DEF Wake, Admitted, Ends
<1>3. CASE WakeFails
  BY <1>1, <1>3 DEF WakeFails, Admitted, Ends
<1>4. CASE UNCHANGED vars
  BY <1>1, <1>4 DEF vars
<1>5. ASSUME Next, ~Wake, ~WakeFails PROVE agents' = agents /\ lan' \in {lan, {}}
  BY <1>5
  DEF Next, Begin, Refused, StrangerAnswers, Arrives, RejectToken, RejectTarget, View, ForwardOffline, Forward,
      Execute, Reply, Respond, NoResponse, Conclude, NoHello, RejectAgent, HelloRaises,
      Welcome, GiveUp, Receive, Rest, SessionLost, Report, Fails, Ends
<1> QED BY <1>1, <1>2, <1>3, <1>4, <1>5

\* A packet has 17 times Octets bytes, for any text as MAC and any Octets, unless
\* there is white space inside the MAC, which makes it shorter.
THEOREM PacketsAreMagic == Spec => []PacketIsMagic
<1>1. Init => PacketInv
  <2> SUFFICES ASSUME Init PROVE PacketInv
    OBVIOUS
  <2>1. PICK env \in Envs : agents = load_config(env)
    BY DEF Init
  <2>2. \A a \in DOMAIN agents : agents[a].mac \in Seq(Kinds)
    BY <2>1, ConfigType
  <2> QED BY <2>2 DEF Init, PacketInv
<1>2. PacketInv /\ [Next]_vars => PacketInv'
  BY StepPackets
<1> QED BY <1>1, <1>2, PacketsMagic, PTL DEF Spec

----------------------------------------------------------------------------
(* What Home Assistant and the page show of an answer.                     *)

\* The answer to /api/agents has main's reports, and main says so.
Viewed ==
    at \in {"answered", "over"} /\ req.op = "agents" /\ answer.status = "ok" =>
        answer.ok /\ \A a \in DOMAIN answer.report : answer.report[a].telemetry.amd_smi \in Tables

\* Every step keeps Viewed.
LEMMA StepViewed == ASSUME TypeOK, Stages, Viewed, [Next]_vars PROVE Viewed'
<1> USE DEF config, registry, effects, ends
<1>1. ASSUME NEW status, NEW ok, NEW report, Ends(status, ok, report),
             status # "ok" \/ req.op # "agents"
      PROVE  Viewed'
  BY <1>1 DEF Ends, Viewed
<1>2. ASSUME at' \notin {"answered", "over"} PROVE Viewed'
  BY <1>2 DEF Viewed
<1>3. CASE View
  <2>1. ASSUME req.op = "agents" PROVE Ends("ok", TRUE, Views(DOMAIN agents))
    BY <1>3, <2>1 DEF View
  <2>2. \A a \in DOMAIN Views(DOMAIN agents) : Views(DOMAIN agents)[a].telemetry \in Reports
    BY DEF Views, TypeOK
  <2>3. \A report \in Reports : report.amd_smi \in Tables
    BY DEF Reports, NoReport, Tables
  <2>4. CASE req.op = "agents"
    BY <2>1, <2>2, <2>3, <2>4 DEF Ends, Viewed
  <2>5. CASE req.op # "agents"
    BY <1>1, <1>3, <2>5 DEF View
  <2> QED BY <2>4, <2>5
<1>4. CASE GiveUp \/ Receive
  BY <1>4 DEF GiveUp, Receive, Viewed
<1>5. CASE UNCHANGED vars
  BY <1>5 DEF vars, Viewed
<1>6. ASSUME NEW status, Fails(status), status # "ok" PROVE Viewed'
  BY <1>1, <1>6 DEF Fails
<1>7. CASE Refused \/ RejectToken \/ RejectTarget \/ NoHello \/ HelloRaises
  BY <1>6, <1>7 DEF Refused, RejectToken, RejectTarget, NoHello, HelloRaises
<1>8. CASE Arrives \/ StrangerAnswers
  <2>1. CASE Arrives
    BY <1>2, <1>6, <2>1 DEF Arrives
  <2>2. ASSUME Ends("ok", TRUE, <<>>) PROVE Viewed'
    BY <2>2 DEF Ends, Viewed
  <2>3. CASE StrangerAnswers
    BY <1>6, <2>2, <2>3 DEF StrangerAnswers, HttpErrors
  <2> QED BY <1>8, <2>1, <2>3
<1>9. CASE ForwardOffline \/ Wake \/ WakeFails \/ RejectAgent \/ Welcome
  BY <1>1, <1>9 DEF ForwardOffline, Wake, WakeFails, RejectAgent, Welcome
<1>10. CASE Respond \/ NoResponse
  <2>1. req.op # "agents"
    BY <1>10 DEF Respond, NoResponse, Stages, ActionOf
  <2>2. PICK ok : Conclude(ok)
    BY <1>10 DEF Respond, NoResponse
  <2> QED BY <1>1, <2>1, <2>2 DEF Conclude
<1>11. ASSUME NEW a \in Names, SessionLost(a) \/ \E report \in Reports : Report(a, report)
       PROVE  Viewed'
  BY <1>2, <1>11 DEF SessionLost, Report
<1>12. CASE Forward \/ Execute \/ Rest \/ \E r \in Requests : Begin(r)
  BY <1>2, <1>12 DEF Forward, Execute, Reply, Rest, Begin
<1> QED BY <1>3, <1>4, <1>5, <1>7, <1>8, <1>9, <1>10, <1>11, <1>12 DEF Next

\* What was concluded from such an answer, by the poll and by the page.
Concluded ==
    at = "over" /\ req.op = "agents" /\ answer.status = "ok" /\ left = None =>
        LET raises == \E a \in DOMAIN answer.report :
                         HaShows(answer.report[a]).table.verdict = "raises"
        IN  /\ req.client = "poll" => /\ seen = "failed" <=> raises
                                      /\ ~raises => shown = HaReads(answer.report)
            /\ req.client = "page" => seen # "failed" /\ shown = PageReads(answer.report)

\* A conclusion is drawn in one step, and no other is at the end of an exchange.
LEMMA StepConcluded == ASSUME Viewed, Concluded, [Next]_vars PROVE Concluded'
<1>1. CASE Receive
  <2> SUFFICES ASSUME req.op = "agents", answer.status = "ok", left = None PROVE Concluded'
    BY <1>1 DEF Receive, Concluded
  <2> DEFINE raises == \E a \in DOMAIN answer.report :
                          HaShows(answer.report[a]).table.verdict = "raises"
  <2>1. UNCHANGED <<req, answer, left>> /\ answer.ok /\ Received = "ok"
    BY <1>1 DEF Receive, Viewed, Received, config, registry, effects
  <2>2. Raised("ok") = "none" /\ (PollFails("none") <=> raises)
    BY DEF Raised, HttpErrors, PollFails
  <2>3. ASSUME req.client = "poll"
        PROVE  (seen' = "failed" <=> raises) /\ (~raises => shown' = HaReads(answer.report))
    BY <1>1, <2>1, <2>2, <2>3 DEF Receive
  <2>4. ASSUME req.client = "page" PROVE seen' # "failed" /\ shown' = PageReads(answer.report)
    BY <1>1, <2>1, <2>4 DEF Receive
  <2> QED BY <2>1, <2>3, <2>4 DEF Concluded, HaReads, PageReads
<1>2. CASE UNCHANGED vars
  BY <1>2 DEF vars, Concluded
<1>3. ASSUME Next, ~Receive PROVE at' # "over"
  BY <1>3, OnlyReceiveEnds
<1> QED BY <1>1, <1>2, <1>3 DEF Concluded

\* A table of main's is read alike by both, unless the Python raises.
LEMMA TablesAlike ==
    ASSUME NEW table \in Tables, parse_amd_smi(table).verdict # "raises",
           \A i \in DOMAIN table.rows : \A j \in DOMAIN table.rows[i] :
              table.rows[i][j] \in Floats <=> table.rows[i][j] \in Finite
    PROVE  parse_amd_smi(table) = parseAmdSmi(table)
<1>1. ASSUME NEW board \in Boards, table = Table(board)
      PROVE  parse_amd_smi(table) = parseAmdSmi(table)
  BY <1>1, BoardIsRead, ExchangeAssumption DEF Table
<1>2. CASE table \in OtherTables
  <2> DEFINE Token == {x \in STRING : x \in Floats <=> x \in Finite}
             rows == table.rows
  <2>1. rows \in Seq(Seq(STRING))
    BY <1>2, ExchangeAssumption
  <2>2. ASSUME NEW i \in DOMAIN rows PROVE rows[i] \in Seq(Token)
    <3> DEFINE t == rows[i]
    <3>1. t \in Seq(STRING) /\ \A j \in DOMAIN t : t[j] \in Token
      BY <2>1, <2>2
    <3> HIDE DEF t, Token
    <3>2. t \in Seq(Token)
      BY <3>1
    <3> QED BY <3>2 DEF t
  <2>3. rows \in Seq(Seq(Token))
    <3> HIDE DEF rows, Token
    <3> QED BY <2>1, <2>2
  <2>4. Token \cap Floats = Token \cap Finite
    OBVIOUS
  <2> HIDE DEF Token
  <2> QED BY <2>3, <2>4, ReadersAlike
<1>3. CASE table = NoTable
  BY <1>3 DEF NoTable, EXPECTED_HEADER, parse_amd_smi, parseAmdSmi
<1> QED BY <1>1, <1>2, <1>3 DEF Tables

\* If the Python raises on a table of main's, a row has 14 tokens, or no GPU.
LEMMA TableToBlame ==
    ASSUME NEW table \in Tables, parse_amd_smi(table).verdict = "raises"
    PROVE  \E i \in DOMAIN table.rows :
              LET t == table.rows[i] IN Len(t) = 14 \/ ~({t[1], t[2]} \subseteq Whole)
<1>1. ASSUME NEW board \in Boards, table = Table(board) PROVE FALSE
  BY <1>1, BoardIsRead, ExchangeAssumption DEF Table
<1>2. CASE table \in OtherTables
  <2>1. table.rows \in Seq(Seq(STRING))
    BY <1>2, ExchangeAssumption
  <2> QED BY <2>1, RaisingRow, Zenon
<1>3. CASE table = NoTable
  BY <1>3 DEF NoTable, EXPECTED_HEADER, parse_amd_smi, NothingRead
<1> QED BY <1>1, <1>2, <1>3 DEF Tables

\* Agents whose table is read alike are shown alike.
LEMMA ShownAlike ==
    ASSUME NEW agent, agent.telemetry.amd_smi \in Tables,
           parse_amd_smi(agent.telemetry.amd_smi) = parseAmdSmi(agent.telemetry.amd_smi)
    PROVE  HaShows(agent) = PageShows(agent)
BY DEF HaShows, PageShows, AGENT_SENSORS, CARD

\* What was concluded from main's reports agrees.
LEMMA ConclusionsAgree == ASSUME Fitting, Viewed, Concluded PROVE ReadersAgree
<1> DEFINE report == answer.report
           table(a) == report[a].telemetry.amd_smi
<1> SUFFICES ASSUME at = "over", req.op = "agents", answer.status = "ok", left = None,
                    req.client # "flow"
    PROVE
        /\ seen # "failed" /\ PlainNumbers(report) =>
              \A a \in DOMAIN report :
                  \/ parse_amd_smi(table(a)).verdict = "raises"
                  \/ shown[a] = HaShows(report[a]) /\ shown[a] = PageShows(report[a])
        /\ seen # "failed" =>
              \A a \in DOMAIN shown, board \in Boards :
                  table(a) = Table(board) =>
                      /\ shown[a].table.gpus = board
                      /\ \A i \in DOMAIN board, key \in DOMAIN GPU_SENSORS :
                            (\A j \in 1 .. i - 1 : board[j].gpu # board[i].gpu) =>
                                GpuSensor(shown[a].table.gpus, board[i].gpu, key)
                                    = board[i][GPU_SENSORS[key]]
        /\ seen = "failed" =>
              \E a \in DOMAIN report : \E i \in DOMAIN table(a).rows :
                  LET t == table(a).rows[i] IN
                      Len(t) = 14 \/ ~({t[1], t[2]} \subseteq Whole)
  BY DEF ReadersAgree
<1>1. req.client \in {"poll", "page"} /\ \A a \in DOMAIN report : table(a) \in Tables
  BY DEF Fitting, Viewed
<1>2. \A a \in DOMAIN report : HaShows(report[a]).table = parse_amd_smi(table(a))
                               /\ PageShows(report[a]).table = parseAmdSmi(table(a))
  BY DEF HaShows, PageShows
<1>3. ASSUME seen # "failed"
      PROVE  /\ DOMAIN shown = DOMAIN report
             /\ \/ \A a \in DOMAIN report : shown[a] = HaShows(report[a])
                \/ \A a \in DOMAIN report : shown[a] = PageShows(report[a])
  <2>1. CASE req.client = "poll"
    <3>1. shown = HaReads(report)
      BY <1>3, <2>1 DEF Concluded
    <3> QED BY <3>1 DEF HaReads
  <2>2. CASE req.client = "page"
    <3>1. shown = PageReads(report)
      BY <2>2 DEF Concluded
    <3> QED BY <3>1 DEF PageReads
  <2> QED BY <1>1, <2>1, <2>2
<1>4. ASSUME seen # "failed", PlainNumbers(report), NEW a \in DOMAIN report,
             parse_amd_smi(table(a)).verdict # "raises"
      PROVE  shown[a] = HaShows(report[a]) /\ shown[a] = PageShows(report[a])
  <2>1. parse_amd_smi(table(a)) = parseAmdSmi(table(a))
    BY <1>1, <1>4, TablesAlike DEF PlainNumbers
  <2>2. HaShows(report[a]) = PageShows(report[a])
    BY <1>1, <2>1, ShownAlike
  <2> QED BY <1>3, <1>4, <2>2
<1>5. ASSUME seen # "failed", NEW a \in DOMAIN shown, NEW board \in Boards,
             table(a) = Table(board)
      PROVE  shown[a].table.gpus = board
  <2>1. /\ parse_amd_smi(table(a)) = parseAmdSmi(table(a))
        /\ parse_amd_smi(table(a)).gpus = board
    BY <1>5, BoardIsRead, ExchangeAssumption DEF Table
  <2>2. a \in DOMAIN report /\ (shown[a] = HaShows(report[a]) \/ shown[a] = PageShows(report[a]))
    BY <1>3, <1>5
  <2> QED BY <1>2, <2>1, <2>2
<1>6. ASSUME seen = "failed"
      PROVE  \E a \in DOMAIN report : parse_amd_smi(table(a)).verdict = "raises"
  BY <1>1, <1>2, <1>6 DEF Concluded
<1>7. \A board \in Boards : \A i \in DOMAIN board, key \in DOMAIN GPU_SENSORS :
         (\A j \in 1 .. i - 1 : board[j].gpu # board[i].gpu) =>
             GpuSensor(board, board[i].gpu, key) = board[i][GPU_SENSORS[key]]
  BY FirstRowCounts, ExchangeAssumption
<1>8. seen = "failed" =>
        \E a \in DOMAIN report : \E i \in DOMAIN table(a).rows :
            LET t == table(a).rows[i] IN Len(t) = 14 \/ ~({t[1], t[2]} \subseteq Whole)
  BY <1>1, <1>6, TableToBlame
<1> HIDE DEF report, table
<1> QED BY <1>4, <1>5, <1>7, <1>8

\* Home Assistant and the page show the same of an answer of main's, and of what
\* amd-smi printed its figures, with any agents, tables and tokens in them.
THEOREM ReadersAgreeSafe == Spec => []ReadersAgree
<1> DEFINE Inv == Fitting /\ Viewed /\ Concluded
<1>1. Init => Inv
  BY DEF Init, Fitting, Viewed, Concluded
<1>2. ExchangeInv /\ Inv /\ [Next]_vars => Inv'
  BY StepFitting, StepViewed, StepConcluded DEF ExchangeInv
<1>3. Inv => ReadersAgree
  BY ConclusionsAgree
<1> QED BY <1>1, <1>2, <1>3, ExchangeSafe, PTL DEF Spec
=============================================================================
