-------------------------------- MODULE Cidr --------------------------------
(***************************************************************************)
(* AddressUtils.checkInCIDRRange (jvmVer), which decides whether the ACL   *)
(* lets a destination bypass the proxy.  An Int is the set of its bits, so *)
(* that and, or and inv are set operations; a Long is a number.            *)
(***************************************************************************)
EXTENDS Integers

CONSTANTS
    Width,      \* bits of an Int (32)
    Lengths,    \* the prefix lengths in a list
    Entries     \* how many entries a list has

ASSUME WidthAssumption == Width \in Nat \ {0} /\ Lengths \subseteq 0..Width /\ Entries \in Nat

(* No range has two addresses: route_arrays.xml ends at /29.               *)
ASSUME LengthsAssumption == Width - 1 \notin Lengths

Bit == 0..(Width - 1)
Bits == SUBSET Bit
CIDR == [addr : Bits, len : Lengths]

VARIABLES
    ip,
    cidrs,
    k,          \* the entry the loop is at
    step,       \* in its body, or done
    netmask, address,
    found       \* the result

rangeVars == <<ip, cidrs, k, step, netmask, address, found>>

RangeTypeOK ==
    /\ ip \in Bits /\ cidrs \in [1..Entries -> CIDR] /\ k \in 1..(Entries + 1)
    /\ step \in {"or", "compare", "done"} /\ found \in BOOLEAN
    /\ netmask \in Bits /\ address \in Bits

RangeInit ==
    /\ ip \in Bits /\ cidrs \in [1..Entries -> CIDR]
    /\ k = 1 /\ step = "or" /\ netmask = {} /\ address = {} /\ found = FALSE

-----------------------------------------------------------------------------
(* Pow[n] is 2^n; Upto(x)[n] is the number that the last n bits of x are.  *)
Pow[n \in 0..Width] == IF n = 0 THEN 1 ELSE 2 * Pow[n - 1]
Upto(x) ==
    LET value[n \in 0..Width] ==
            IF n = 0 THEN 0 ELSE value[n - 1] + (IF n - 1 \in x THEN Pow[n - 1] ELSE 0)
    IN  value

(* x.toLong() and UNSIGNED_INT_MASK; x.toLong().                           *)
Unsigned(x) == Upto(x)[Width]
Signed(x) == Unsigned(x) - (IF Width - 1 \in x THEN Pow[Width] ELSE 0)

network == address \intersect netmask
broadcast == network \union (Bit \ netmask)

(* Variant: the second term is 1 at most.                                  *)
HighUnsubtracted == Unsigned(broadcast) - (IF Unsigned(network) > 1 THEN 1 ELSE 0)

Low ==
    (Unsigned(broadcast) - (IF Unsigned(network) > 1 THEN Signed(network) + 1 ELSE 0)) % Pow[Width]
High ==
    (Unsigned(broadcast) - (IF Unsigned(network) > 1 THEN Signed(broadcast) - 1 ELSE 0)) % Pow[Width]

(* Variant: the shift is one too far.                                      *)
OrInShifted ==
    /\ step = "or" /\ k <= Entries
    /\ address' = address \union cidrs[k].addr
    /\ netmask' = netmask \union {Width - j : j \in 0..(cidrs[k].len - 1)}
    /\ step' = "compare"
    /\ UNCHANGED <<ip, cidrs, k, found>>

(* The entry's address and mask are or-ed into the two variables.          *)
OrIn ==
    /\ step = "or" /\ k <= Entries
    /\ address' = address \union cidrs[k].addr
    /\ netmask' = netmask \union {Width - 1 - j : j \in 0..(cidrs[k].len - 1)}
    /\ step' = "compare"
    /\ UNCHANGED <<ip, cidrs, k, found>>

(* Variant: the variables are not reset between two entries.               *)
CompareKeeps ==
    /\ step = "compare"
    /\ IF Low <= Unsigned(ip) /\ Unsigned(ip) <= High
       THEN found' = TRUE /\ step' = "done" /\ UNCHANGED k
       ELSE k' = k + 1 /\ step' = "or" /\ UNCHANGED found
    /\ UNCHANGED <<ip, cidrs, netmask, address>>

Compare ==
    /\ step = "compare"
    /\ IF Low <= Unsigned(ip) /\ Unsigned(ip) <= High
       THEN found' = TRUE /\ step' = "done" /\ UNCHANGED <<k, netmask, address>>
       ELSE /\ k' = k + 1 /\ step' = "or" /\ netmask' = {} /\ address' = {}
            /\ UNCHANGED found
    /\ UNCHANGED <<ip, cidrs>>

Exhausted ==
    /\ step = "or" /\ k > Entries
    /\ step' = "done"
    /\ UNCHANGED <<ip, cidrs, k, netmask, address, found>>

RangeNext == OrIn \/ Compare \/ Exhausted
RangeSpec == RangeInit /\ [][RangeNext]_rangeVars
-----------------------------------------------------------------------------
(* The reference: an address is in a range if it shares its first bits.    *)
InRange(x, cidr) ==
    LET host == Pow[Width - cidr.len]
    IN  Unsigned(x) \div host = Unsigned(cidr.addr) \div host
Listed == \E i \in 1..Entries : InRange(ip, cidrs[i])

(* network and broadcast are the first and the last address of the entry   *)
(* the loop is at, whatever entries came before it.                        *)
EndsOfRange ==
    step = "compare" =>
        Unsigned(network) .. Unsigned(broadcast) =
            {Unsigned(x) : x \in {y \in Bits : InRange(y, cidrs[k])}}

(* Nothing goes around the proxy that no entry lists.                      *)
OnlyListed == found => Listed

(* "bypass acl list" (SSRLocal.kt 50): what the list holds is found in it. *)
ListedIsFound == step = "done" => (Listed => found)
=============================================================================
