--------------------------- MODULE AddressFilter ----------------------------
(***************************************************************************)
(* EBlacklistFilter and EWhitelistFilter (src/src/EBlacklistFilter.cpp,    *)
(* src/src/EWhitelistFilter.cpp), which are mirror images, over ESubnet    *)
(* (src/src/ESubnet.cpp).  An address is a signed integer of Bits bits.    *)
(*                                                                         *)
(* The list is copied on write: one call on it is one step, and a session  *)
(* is judged by the list of one moment.  set...list() makes many calls.    *)
(***************************************************************************)
EXTENDS Integers, SequencesExt

CONSTANTS Bits,      \* 32 in the code
          Subnets,   \* the subnets used: records of an address and a suffix
          MaxRules   \* bound: entries in the list

Addresses == -(2^(Bits - 1)) .. (2^(Bits - 1) - 1)

ASSUME AddressFilterAssumption ==
    Bits \in Nat \ {0} /\ MaxRules \in Nat /\ Subnets \subseteq [subnetInt: Addresses, suffix: 0..Bits]

VARIABLES
    isBlacklist,
    rules,     \* blacklist, or whitelist
    adding,    \* the entries the running set...list() has still to add
    listed     \* the entries a call has listed since, and none has taken away

filterVars == <<isBlacklist, rules, adding, listed>>

Null == [subnetInt |-> 0, suffix |-> -1]  \* a null in an array that is passed

-----------------------------------------------------------------------------
(* ESubnet *)

\* IP_MASK_V4 >> (mask - 1): the sign is shifted in, and the hardware takes the count
\* modulo the width, so that a mask of 0 becomes the mask of a single address.
SubnetMask(mask) == (-(2^(Bits - 1))) \div (2^((mask - 1) % Bits))

\* The bits of a that a mask of that form keeps.
ToSubnet(a, mask) == a - (a % (-mask))

AnyLocal == 0

InSubnet(s, a) == a = AnyLocal \/ ToSubnet(a, SubnetMask(s.suffix)) = s.subnetInt

\* Mutant of EqualSubnets: the suffix is not compared.
SameAddress(s, t) == s.subnetInt = t.subnetInt

EqualSubnets(s, t) == s.subnetInt = t.subnetInt /\ s.suffix = t.suffix

-----------------------------------------------------------------------------
IsListed(a) == \E i \in DOMAIN rules : InSubnet(rules[i], a)

\* sessionCreated() forwards, or returns false.
Accepts(a) == isBlacklist # IsListed(a)

FilterInit ==
    /\ isBlacklist \in BOOLEAN
    /\ rules = <<>> /\ adding = <<>> /\ listed = {}

\* setBlacklist() and setSubnetBlacklist(): the list is empty first ...
SetList(entries) ==
    /\ adding = <<>>
    /\ rules' = <<>> /\ listed' = {}
    /\ adding' = entries
    /\ UNCHANGED isBlacklist

\* block() and allow(); an address gets the suffix of a single one.
Added(s) == rules' = Append(rules, s) /\ listed' = listed \cup {s}

\* ... and gets the entries one by one, up to a null, which throws.
SetNext ==
    /\ adding # <<>>
    /\ IF Head(adding) = Null
       THEN adding' = <<>> /\ UNCHANGED <<rules, listed>>
       ELSE Added(Head(adding)) /\ adding' = Tail(adding)
    /\ UNCHANGED isBlacklist

Block(s) ==
    /\ Len(rules) + Len(adding) < MaxRules
    /\ Added(s)
    /\ UNCHANGED <<isBlacklist, adding>>

\* unblock() and disallow() remove the first entry that is equal.
Unblock(s) ==
    LET found == {i \in DOMAIN rules : EqualSubnets(rules[i], s)}
        first == CHOOSE i \in found : \A j \in found : i <= j
    IN  /\ rules' = IF found = {} THEN rules ELSE RemoveAt(rules, first)
        /\ listed' = listed \ {s}
        /\ UNCHANGED <<isBlacklist, adding>>

FilterNext ==
    \/ \E n \in 0..MaxRules : \E entries \in [1..n -> Subnets \cup {Null}] : SetList(entries)
    \/ SetNext
    \/ \E s \in Subnets : Block(s) \/ Unblock(s)

FilterSpec == FilterInit /\ [][FilterNext]_filterVars

-----------------------------------------------------------------------------
FilterTypeOK ==
    /\ isBlacklist \in BOOLEAN
    /\ rules \in Seq(Subnets) /\ Len(rules) <= MaxRules
    /\ adding \in Seq(Subnets \cup {Null})
    /\ listed \subseteq Subnets

\* A subnet is the addresses that have its first suffix bits, if it has no others set.
Size(s) == 2^(Bits - s.suffix)
Proper(s) == s.suffix > 0 /\ s.subnetInt % Size(s) = 0
Covers(s, a) == a \div Size(s) = s.subnetInt \div Size(s)

\* Whatever other threads list, take away or set meanwhile: an address of a subnet that a
\* call has listed, and no later call has taken away or cleared, is refused by a blacklist
\* and let through by a whitelist; an address that no entry covers is treated the other
\* way round.
JudgedAsListed ==
    \A a \in Addresses \ {AnyLocal} :
        /\ (\E s \in listed : Proper(s) /\ Covers(s, a)) => Accepts(a) = ~isBlacklist
        /\ (\A i \in DOMAIN rules : Proper(rules[i]) /\ ~Covers(rules[i], a)) => Accepts(a) = isBlacklist
=============================================================================
