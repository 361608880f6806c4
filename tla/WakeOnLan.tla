----------------------------- MODULE WakeOnLan -----------------------------
(***************************************************************************)
(* src/common/wol.py.  A MAC is a sequence of characters, of which only    *)
(* the kind matters: "h" a hexadecimal digit, ":" one of the separators    *)
(* : - and ., " " white space, "x" any other.                              *)
(***************************************************************************)
EXTENDS Integers, Sequences, FiniteSets

CONSTANT Octets     \* the length of a MAC in bytes, 6 in the source

ASSUME WakeAssumption == Octets \in Nat

Kinds == {"h", ":", " ", "x"}

\* str.strip
Strip(s) ==
    LET solid == {i \in DOMAIN s : s[i] # " "}
    IN  IF solid = {} THEN <<>>
        ELSE SubSeq(s, CHOOSE i \in solid : \A j \in solid : i <= j,
                       CHOOSE i \in solid : \A j \in solid : j <= i)

\* str.replace of each separator by nothing.
Unseparated(s) ==
    LET kept[i \in 0 .. Len(s)] ==
            IF i = 0 THEN <<>>
            ELSE IF s[i] = ":" THEN kept[i - 1] ELSE Append(kept[i - 1], s[i])
    IN  kept[Len(s)]

Cleaned(mac) == Unseparated(Strip(mac))

\* How many bytes bytes.fromhex makes of s, and -1 for ValueError.  It skips
\* white space before and after a pair of digits, but not inside of one: the
\* characters that are left go in pairs of neighbours.
FromHex(s) ==
    LET solid == {i \in DOMAIN s : s[i] # " "}
        seconds(firsts) == {i + 1 : i \in firsts}
    IN  IF /\ \A i \in solid : s[i] = "h"
           /\ \E firsts \in SUBSET solid :
                 firsts \cap seconds(firsts) = {} /\ firsts \cup seconds(firsts) = solid
        THEN Cardinality(solid) \div 2
        ELSE -1

\* A slip: white space is a separator as well, but the length is not tested.
ParsedLoosely(mac) == FromHex(Unseparated(mac))

\* The length in bytes of what parse_mac returns, and -1 for WolError.
Parsed(mac) == IF Len(Cleaned(mac)) # 2 * Octets THEN -1 ELSE FromHex(Cleaned(mac))

\* The length of the magic packet: a head of Octets bytes FF, 16 times the MAC.
PacketLength(mac) == Octets + 16 * Parsed(mac)
=============================================================================
