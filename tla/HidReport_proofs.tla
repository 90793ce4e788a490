-------------------------- MODULE HidReport_proofs --------------------------
(***************************************************************************)
(* The HID reports are what the pressed keys make them, and every host     *)
(* knows what it should, for every set of keys, modifiers, sources and     *)
(* endpoints and every size of the reports.                                *)
(*                                                                         *)
(* The lemmas follow the handlers from the inside out: what each operator  *)
(* on the reports changes and flags, then what sending does, then the two  *)
(* keycode handlers as a whole, then the steps.                            *)
(***************************************************************************)
EXTENDS HidReport, Integers, FiniteSetTheorems, WellFoundedInduction, TLAPS

(* The types of the reports, without the bounds of the counters, which     *)
(* follow from what they count, and of what a host is told.                *)
CountsType == [Mod -> Int]
ModsType == SUBSET Mod
SlotsType == [Slot -> Key \cup {None}]
BitsType == SUBSET (Key \ Wide)
FlagsType == SUBSET {"kb", "nkro"}
ByteType == 0 .. ByteSize - 1
MediaType == [MediaSlot -> Media \cup {None}]
ButtonsType == SUBSET Button
ClicksType == [Button -> 0 .. MaxClicks]

Reports == [counts : CountsType, explicit : ModsType, implicit : ModsType,
            mods : ModsType, slots : SlotsType, bits : BitsType,
            kbCount : Int, bitCount : Int, changed : FlagsType, keysHeld : ByteType,
            media : MediaType, buttons : ButtonsType, buttonCounts : ClicksType]

Views == [mods : SUBSET Mod, keys : SUBSET Key, bits : SUBSET Key,
          media : SUBSET Media, buttons : SUBSET Button]

Input == [r : Reports, view : Views]

\* What two reports may have in common.
SameMods(q, r) ==
  /\ q.counts = r.counts /\ q.explicit = r.explicit
  /\ q.implicit = r.implicit /\ q.mods = r.mods
SameKeys(q, r) ==
  /\ q.slots = r.slots /\ q.bits = r.bits
  /\ q.kbCount = r.kbCount /\ q.bitCount = r.bitCount
SameMedia(q, r) == q.media = r.media
SameClicks(q, r) == q.buttons = r.buttons /\ q.buttonCounts = r.buttonCounts

\* A change of a report is flagged, and no flag is lost.
Flagged(q, r) ==
  /\ r.changed \subseteq q.changed
  /\ "kb" \notin q.changed => q.slots = r.slots
  /\ "nkro" \notin q.changed => q.bits = r.bits
ModsFlagged(q, r) ==
  /\ r.changed \subseteq q.changed
  /\ "kb" \notin q.changed => q.mods = r.mods

\* The operators on one part of the reports leave the others alone.
ModStep(q, r) ==
  q \in Reports /\ SameKeys(q, r) /\ SameMedia(q, r) /\ SameClicks(q, r) /\ Flagged(q, r)
KeyStep(q, r) ==
  q \in Reports /\ SameMods(q, r) /\ SameMedia(q, r) /\ SameClicks(q, r) /\ Flagged(q, r)
MediaStep(q, r) ==
  q \in Reports /\ SameMods(q, r) /\ SameKeys(q, r) /\ SameClicks(q, r)
  /\ q.changed = r.changed

\* The number of a condition that holds.
One(b) == IF b THEN 1 ELSE 0
-----------------------------------------------------------------------------
(* Modifiers *)

\* A modifier is explicit as long as it is counted.
ExplicitRight(r) ==
  \A m \in Mod : r.counts[m] >= 0 /\ ((m \in r.explicit) <=> (r.counts[m] > 0))

\* SET_MODIFIERS keeps the report's modifiers to these: without implicit ones,
\* they are the explicit ones.
Plain(r) == r.implicit = {} /\ r.mods = r.explicit

\* What registering and unregistering a modifier have in common.
Recount(r, c, x) ==
  FlagIfModsChanged(SetModifiers([r EXCEPT !.counts = c, !.explicit = x]), r)

LEMMA RecountDoes ==
  ASSUME NEW r \in Reports, NEW c \in CountsType, NEW x \in ModsType,
         NEW q, q = Recount(r, c, x)
  PROVE  /\ ModStep(q, r) /\ ModsFlagged(q, r)
         /\ q.counts = c /\ q.explicit = x
         /\ Plain(r) => Plain(q)
  <1> DEFINE q0 == [r EXCEPT !.counts = c, !.explicit = x, !.mods = x \cup r.implicit]
  <1>1. x \cup r.implicit \in ModsType
    BY DEF Reports, ModsType
  <1>2. q = IF q0.mods = r.mods THEN q0 ELSE [q0 EXCEPT !.changed = q0.changed \cup {"kb"}]
    BY DEF SetModifiers, Reports, Recount, FlagIfModsChanged
  <1>3. /\ q0 \in Reports /\ q0.mods = x \cup r.implicit
        /\ q0.counts = c /\ q0.explicit = x /\ q0.implicit = r.implicit
        /\ SameKeys(q0, r) /\ SameMedia(q0, r) /\ SameClicks(q0, r)
        /\ q0.changed = r.changed
    BY <1>1 DEF Reports, SameKeys, SameMedia, SameClicks
  <1> HIDE DEF q0
  <1>4. CASE q0.mods = r.mods
    <2>1. q = q0
      BY <1>2, <1>4
    <2> QED
      BY <1>3, <1>4, <2>1 DEF ModStep, ModsFlagged, Flagged, SameKeys, Plain
  <1>5. CASE q0.mods # r.mods
    <2>1. q = [q0 EXCEPT !.changed = q0.changed \cup {"kb"}]
      BY <1>2, <1>5
    <2>2. q0.changed \cup {"kb"} \in FlagsType
      BY <1>3 DEF Reports, FlagsType
    <2>3. /\ q \in Reports /\ q.mods = q0.mods
          /\ q.counts = c /\ q.explicit = x /\ q.implicit = r.implicit
          /\ SameKeys(q, r) /\ SameMedia(q, r) /\ SameClicks(q, r)
          /\ q.changed = r.changed \cup {"kb"}
      BY <1>3, <2>1, <2>2 DEF Reports, SameKeys, SameMedia, SameClicks
    <2> QED
      BY <1>3, <2>3 DEF ModStep, ModsFlagged, Flagged, SameKeys, Plain
  <1> QED
    BY <1>4, <1>5

\* zmk_hid_register_mod counts one more.
LEMMA RegisterModDoes ==
  ASSUME NEW r \in Reports, NEW m \in Mod, NEW q, q = RegisterMod(r, m)
  PROVE  /\ ModStep(q, r) /\ ModsFlagged(q, r) /\ (Plain(r) => Plain(q))
         /\ \A n \in Mod : q.counts[n] = r.counts[n] + One(n = m)
         /\ ExplicitRight(r) => ExplicitRight(q)
         /\ m \in q.explicit /\ r.explicit \subseteq q.explicit
  <1> DEFINE c == [r.counts EXCEPT ![m] = r.counts[m] + 1]
             x == r.explicit \cup {m}
  <1>1. c \in CountsType /\ \A n \in Mod : c[n] = r.counts[n] + One(n = m)
    BY DEF Reports, CountsType, One
  <1>2. x \in ModsType
    BY DEF Reports, ModsType
  <1>3. q = Recount(r, c, x)
    BY DEF RegisterMod, Recount
  <1>4. /\ ModStep(q, r) /\ ModsFlagged(q, r) /\ (Plain(r) => Plain(q))
        /\ q.counts = c /\ q.explicit = x
    <2> HIDE DEF c, x
    <2> QED
      BY <1>1, <1>2, <1>3, RecountDoes
  <1>5. ASSUME ExplicitRight(r) PROVE ExplicitRight(q)
    <2>1. ASSUME NEW n \in Mod
          PROVE  q.counts[n] >= 0 /\ ((n \in q.explicit) <=> (q.counts[n] > 0))
      <3>1. r.counts[n] \in Int /\ r.counts[n] >= 0
            /\ ((n \in r.explicit) <=> (r.counts[n] > 0))
        BY <1>5 DEF ExplicitRight, Reports, CountsType
      <3>2. q.counts[n] = r.counts[n] + One(n = m)
        BY <1>1, <1>4
      <3> QED
        BY <1>4, <3>1, <3>2 DEF One
    <2> QED
      BY <2>1 DEF ExplicitRight
  <1> QED
    BY <1>1, <1>4, <1>5

\* zmk_hid_unregister_mod counts one less, and the modifier stays explicit as
\* long as the count is not 0.
LEMMA UnregisterModDoes ==
  ASSUME NEW r \in Reports, NEW m \in Mod, NEW q, q = UnregisterMod(r, m),
         r.counts[m] # 0
  PROVE  /\ ModStep(q, r) /\ ModsFlagged(q, r) /\ (Plain(r) => Plain(q))
         /\ \A n \in Mod : q.counts[n] = r.counts[n] - One(n = m)
         /\ ExplicitRight(r) => ExplicitRight(q)
  <1> DEFINE left == r.counts[m] - 1
             c == [r.counts EXCEPT ![m] = left]
             x == IF left = 0 THEN r.explicit \ {m} ELSE r.explicit
  <1>1. c \in CountsType /\ \A n \in Mod : c[n] = r.counts[n] - One(n = m)
    BY DEF Reports, CountsType, One
  <1>2. x \in ModsType
    BY DEF Reports, ModsType
  <1>3. q = Recount(r, c, x)
    BY DEF UnregisterMod, Recount
  <1>4. /\ ModStep(q, r) /\ ModsFlagged(q, r) /\ (Plain(r) => Plain(q))
        /\ q.counts = c /\ q.explicit = x
    <2> HIDE DEF c, x
    <2> QED
      BY <1>1, <1>2, <1>3, RecountDoes
  <1>5. ASSUME ExplicitRight(r) PROVE ExplicitRight(q)
    <2>1. ASSUME NEW n \in Mod
          PROVE  q.counts[n] >= 0 /\ ((n \in q.explicit) <=> (q.counts[n] > 0))
      <3>1. r.counts[n] \in Int /\ r.counts[n] >= 0
            /\ ((n \in r.explicit) <=> (r.counts[n] > 0))
        BY <1>5 DEF ExplicitRight, Reports, CountsType
      <3>2. q.counts[n] = r.counts[n] - One(n = m)
        BY <1>1, <1>4
      <3>3. CASE n = m
        BY <1>4, <3>1, <3>2, <3>3 DEF One
      <3>4. CASE n # m
        BY <1>4, <3>1, <3>2, <3>4 DEF One
      <3> QED
        BY <3>3, <3>4
    <2> QED
      BY <2>1 DEF ExplicitRight
  <1> QED
    BY <1>1, <1>4, <1>5

\* Implicit modifiers neither count nor, if there are none, change anything.
LEMMA SetImplicitDoes ==
  ASSUME NEW r \in Reports, NEW ms \in SUBSET Mod, NEW q, q = SetImplicit(r, ms)
  PROVE  /\ ModStep(q, r) /\ q.changed = r.changed
         /\ q.counts = r.counts /\ q.explicit = r.explicit
         /\ Plain(r) /\ ms = {} => Plain(q) /\ q.mods = r.mods
  <1>1. r.explicit \cup ms \in ModsType /\ ms \in ModsType
    BY DEF Reports, ModsType
  <1>2. q = [r EXCEPT !.implicit = ms, !.mods = r.explicit \cup ms]
    BY DEF SetImplicit, SetModifiers, Reports
  <1>3. /\ q \in Reports /\ q.implicit = ms /\ q.mods = r.explicit \cup ms
        /\ SameKeys(q, r) /\ SameMedia(q, r) /\ SameClicks(q, r) /\ q.changed = r.changed
        /\ q.counts = r.counts /\ q.explicit = r.explicit
    BY <1>1, <1>2 DEF Reports, SameKeys, SameMedia, SameClicks
  <1> QED
    BY <1>3 DEF ModStep, Flagged, SameKeys, Plain
-----------------------------------------------------------------------------
(* Keys *)

LEMMA LeastOne ==
  ASSUME NEW T \in SUBSET Nat, T # {}
  PROVE  \E n \in T : \A k \in T : n <= k
  <1> DEFINE R == OpToRel(<, Nat)
  <1>1. IsWellFoundedOn(R, Nat)
    BY NatLessThanWellFounded
  <1>2. \A n, k \in Nat : n < k => <<n, k>> \in R
    BY DEF OpToRel
  <1> HIDE DEF R
  <1>3. PICK n \in T : \A k \in T : ~(<<k, n>> \in R)
    BY <1>1, WFMin
  <1>4. ASSUME NEW k \in T PROVE n <= k
    <2>1. n \in Nat /\ k \in Nat /\ ~(<<k, n>> \in R)
      BY <1>3
    <2>2. ~(k < n)
      BY <1>2, <2>1
    <2> QED
      BY <2>1, <2>2
  <1> QED
    BY <1>4

\* The first slot of a set is one of them.
LEMMA FirstOf ==
  ASSUME NEW S \in SUBSET Nat, S # {}
  PROVE  First(S) \in S
  BY LeastOne DEF First

LEMMA ByteRange ==
  ASSUME NEW n \in Nat
  PROVE  n % ByteSize \in ByteType
  BY HidAssumption DEF ByteType

LEMMA SlotsFinite ==
  /\ IsFiniteSet(Slot) /\ Cardinality(Slot) = KbSize
  /\ \A S \in SUBSET Slot : IsFiniteSet(S) /\ Cardinality(S) \in 0 .. KbSize
  <1>1. IsFiniteSet(Slot) /\ Cardinality(Slot) = KbSize
    BY HidAssumption, FS_Interval DEF Slot
  <1>2. ASSUME NEW S \in SUBSET Slot
        PROVE  IsFiniteSet(S) /\ Cardinality(S) \in 0 .. KbSize
    BY <1>1, FS_Subset, FS_CardinalityType, HidAssumption
  <1> QED
    BY <1>1, <1>2

LEMMA BitsFinite ==
  \A S \in SUBSET Key : IsFiniteSet(S) /\ Cardinality(S) \in 0 .. Cardinality(Key)
  BY HidAssumption, FS_Subset, FS_CardinalityType

\* kb_keys_count and nkro_bits_count count what they should.
KeysRight(r) ==
  /\ r.kbCount = Cardinality(Slot \ EmptySlots(r))
  /\ r.bitCount = Cardinality(r.bits)

\* Keys other than k are where they were.
OthersStay(q, r, k) == \A j \in Key \ {k} :
  /\ (j \in SlotKeys(q)) <=> (j \in SlotKeys(r))
  /\ (j \in q.bits) <=> (j \in r.bits)

\* The two ways select_keyboard_usage finds a place for a key.
LEMMA BitDoes ==
  ASSUME NEW r \in Reports, NEW k \in Key \ Wide, KeysRight(r), k \notin r.bits,
         r.kbCount = KbSize, NEW q, q = SelectKey(r, k)
  PROVE  /\ KeyStep(q, r) /\ ModsFlagged(q, r) /\ KeysRight(q)
         /\ q.slots = r.slots /\ q.bits = r.bits \cup {k}
  <1> DEFINE bs == r.bits \cup {k}
             n == r.bitCount + 1
             f == r.changed \cup {"nkro"}
             b == (r.keysHeld + 1) % ByteSize
  <1>1. bs \in BitsType /\ n \in Int /\ f \in FlagsType /\ b \in ByteType
    <2>1. r.keysHeld + 1 \in Nat
      BY HidAssumption DEF Reports, ByteType
    <2>2. b \in ByteType
      BY <2>1, ByteRange
    <2> QED
      BY <2>2 DEF Reports, BitsType, FlagsType
  <1>2. q = [r EXCEPT !.bits = bs, !.bitCount = n, !.changed = f, !.keysHeld = b]
    BY DEF SelectKey
  <1> HIDE DEF bs, n, f, b
  <1>3. /\ q \in Reports /\ SameMods(q, r) /\ SameMedia(q, r) /\ SameClicks(q, r)
        /\ q.slots = r.slots /\ q.kbCount = r.kbCount
        /\ q.bits = bs /\ q.bitCount = n /\ q.changed = f
    BY <1>1, <1>2 DEF Reports, SameMods, SameMedia, SameClicks
  <1>4. KeysRight(q)
    <2>1. IsFiniteSet(r.bits)
      BY BitsFinite DEF Reports, BitsType
    <2>2. Cardinality(bs) = Cardinality(r.bits) + 1
      BY <2>1, FS_AddElement DEF bs
    <2>3. EmptySlots(q) = EmptySlots(r)
      BY <1>3 DEF EmptySlots, SlotsOf
    <2> QED
      BY <1>3, <2>2, <2>3 DEF KeysRight, n
  <1> QED
    BY <1>3, <1>4 DEF KeyStep, Flagged, ModsFlagged, SameMods, bs, f

LEMMA SlotDoes ==
  ASSUME NEW r \in Reports, NEW k \in Key, KeysRight(r),
         r.kbCount # KbSize, NEW q, q = SelectKey(r, k)
  PROVE  /\ KeyStep(q, r) /\ ModsFlagged(q, r) /\ KeysRight(q)
         /\ q.bits = r.bits
         /\ \E i \in EmptySlots(r) : q.slots = [r.slots EXCEPT ![i] = k]
  <1>1. EmptySlots(r) # {}
    <2>1. ASSUME EmptySlots(r) = {} PROVE FALSE
      <3>1. Slot \ EmptySlots(r) = Slot
        BY <2>1
      <3> QED
        BY <3>1, SlotsFinite DEF KeysRight
    <2> QED
      BY <2>1
  <1>2. PICK i \in EmptySlots(r) : i = First(EmptySlots(r))
    <2>1. EmptySlots(r) \in SUBSET Nat
      BY DEF EmptySlots, SlotsOf, Slot
    <2> QED
      BY <1>1, <2>1, FirstOf
  <1>3. i \in Slot /\ r.slots[i] = None
    BY DEF EmptySlots, SlotsOf
  <1> DEFINE ss == [r.slots EXCEPT ![i] = k]
             n == r.kbCount + 1
             f == r.changed \cup {"kb"}
             b == (r.keysHeld + 1) % ByteSize
  <1>4. ss \in SlotsType /\ n \in Int /\ f \in FlagsType /\ b \in ByteType
    <2>1. r.keysHeld + 1 \in Nat
      BY HidAssumption DEF Reports, ByteType
    <2>2. b \in ByteType
      BY <2>1, ByteRange
    <2>3. ss \in SlotsType
      BY DEF Reports, SlotsType
    <2> QED
      BY <2>2, <2>3 DEF Reports, FlagsType
  <1>5. q = [r EXCEPT !.slots = ss, !.kbCount = n, !.changed = f, !.keysHeld = b]
    BY <1>1, <1>2 DEF SelectKey
  <1>6. ss[i] = k /\ \A j \in Slot \ {i} : ss[j] = r.slots[j]
    BY <1>3 DEF Reports, SlotsType
  <1> HIDE DEF ss, n, f, b
  <1>7. /\ q \in Reports /\ SameMods(q, r) /\ SameMedia(q, r) /\ SameClicks(q, r)
        /\ q.slots = ss /\ q.kbCount = n
        /\ q.bits = r.bits /\ q.bitCount = r.bitCount /\ q.changed = f
    BY <1>4, <1>5 DEF Reports, SameMods, SameMedia, SameClicks
  <1>8. KeysRight(q)
    <2>1. k # None
      BY HidAssumption
    <2>2. Slot \ EmptySlots(q) = (Slot \ EmptySlots(r)) \cup {i}
      BY <1>3, <1>6, <1>7, <2>1 DEF EmptySlots, SlotsOf
    <2>3. i \notin Slot \ EmptySlots(r) /\ IsFiniteSet(Slot \ EmptySlots(r))
      BY <1>2, SlotsFinite
    <2>4. Cardinality(Slot \ EmptySlots(q)) = Cardinality(Slot \ EmptySlots(r)) + 1
      BY <2>2, <2>3, FS_AddElement
    <2> QED
      BY <1>7, <2>4 DEF KeysRight, n
  <1>9. \E j \in EmptySlots(r) : q.slots = [r.slots EXCEPT ![j] = k]
    BY <1>7 DEF ss
  <1> QED
    BY <1>7, <1>8, <1>9 DEF KeyStep, Flagged, ModsFlagged, SameMods, f

\* select_keyboard_usage: a key that is not a bit yet finds a place, unless it is
\* too large for the bits and the slots are full.
LEMMA SelectKeyDoes ==
  ASSUME NEW r \in Reports, NEW k \in Key, KeysRight(r), k \notin r.bits,
         NEW q, q = SelectKey(r, k)
  PROVE  /\ KeyStep(q, r) /\ ModsFlagged(q, r) /\ KeysRight(q)
         /\ OthersStay(q, r, k)
         /\ k \notin Wide => k \in ReportKeys(q)
         /\ k \in q.bits /\ k \in SlotKeys(q) => k \in SlotKeys(r)
  <1>1. CASE r.kbCount = KbSize /\ k \in Wide
    BY <1>1 DEF SelectKey, KeyStep, ModsFlagged, Flagged, SameMods, SameMedia, SameClicks, OthersStay
  <1>2. CASE r.kbCount = KbSize /\ k \notin Wide
    <2>1. /\ KeyStep(q, r) /\ ModsFlagged(q, r) /\ KeysRight(q)
          /\ q.slots = r.slots /\ q.bits = r.bits \cup {k}
      BY <1>2, BitDoes
    <2> QED
      BY <2>1 DEF OthersStay, ReportKeys, SlotKeys
  <1>3. CASE r.kbCount # KbSize
    <2>1. /\ KeyStep(q, r) /\ ModsFlagged(q, r) /\ KeysRight(q) /\ q.bits = r.bits
      BY <1>3, SlotDoes
    <2>2. PICK i \in EmptySlots(r) : q.slots = [r.slots EXCEPT ![i] = k]
      BY <1>3, SlotDoes
    <2>3. /\ i \in Slot /\ r.slots[i] = None /\ q.slots[i] = k /\ k # None
          /\ \A j \in Slot \ {i} : q.slots[j] = r.slots[j]
      BY <2>2, HidAssumption DEF EmptySlots, SlotsOf, Reports, SlotsType
    <2>4. SlotKeys(q) = SlotKeys(r) \cup {k}
      BY <2>3 DEF SlotKeys
    <2> QED
      BY <2>1, <2>4 DEF OthersStay, ReportKeys
  <1> QED
    BY <1>1, <1>2, <1>3

LEMMA UnbitDoes ==
  ASSUME NEW r \in Reports, NEW k \in Key, KeysRight(r),
         r.bitCount > 0, k \in r.bits, NEW q, q = DeselectKey(r, k)
  PROVE  /\ KeyStep(q, r) /\ ModsFlagged(q, r) /\ KeysRight(q)
         /\ q.slots = r.slots /\ q.bits = r.bits \ {k}
  <1> DEFINE bs == r.bits \ {k}
             n == r.bitCount - 1
             f == r.changed \cup {"nkro"}
  <1>1. bs \in BitsType /\ n \in Int /\ f \in FlagsType /\ k \notin Wide
    BY DEF Reports, BitsType, FlagsType
  <1>2. q = [r EXCEPT !.bits = bs, !.bitCount = n, !.changed = f]
    BY <1>1 DEF DeselectKey
  <1> HIDE DEF bs, n, f
  <1>3. /\ q \in Reports /\ SameMods(q, r) /\ SameMedia(q, r) /\ SameClicks(q, r)
        /\ q.slots = r.slots /\ q.kbCount = r.kbCount
        /\ q.bits = bs /\ q.bitCount = n /\ q.changed = f
    BY <1>1, <1>2 DEF Reports, SameMods, SameMedia, SameClicks
  <1>4. KeysRight(q)
    <2>1. IsFiniteSet(r.bits)
      BY BitsFinite DEF Reports, BitsType
    <2>2. Cardinality(bs) = Cardinality(r.bits) - 1
      BY <2>1, FS_RemoveElement DEF bs
    <2>3. EmptySlots(q) = EmptySlots(r)
      BY <1>3 DEF EmptySlots, SlotsOf
    <2> QED
      BY <1>3, <2>2, <2>3 DEF KeysRight, n
  <1> QED
    BY <1>3, <1>4 DEF KeyStep, Flagged, ModsFlagged, SameMods, bs, f

LEMMA UnslotDoes ==
  ASSUME NEW r \in Reports, NEW k \in Key, KeysRight(r), k \notin r.bits,
         ~(r.bitCount > 0 /\ k \in Wide), NEW q, q = DeselectKey(r, k)
  PROVE  /\ KeyStep(q, r) /\ ModsFlagged(q, r) /\ KeysRight(q)
         /\ q.slots = [i \in Slot |-> IF r.slots[i] = k THEN None ELSE r.slots[i]]
         /\ q.bits = r.bits
  <1> DEFINE ss == [i \in Slot |-> IF r.slots[i] = k THEN None ELSE r.slots[i]]
             n == r.kbCount - Cardinality(SlotsOf(r, k))
             f == r.changed \cup {"kb"}
             b == (r.keysHeld + ByteSize - 1) % ByteSize
  <1>1. IsFiniteSet(SlotsOf(r, k)) /\ Cardinality(SlotsOf(r, k)) \in 0 .. KbSize
    <2>1. SlotsOf(r, k) \in SUBSET Slot
      BY DEF SlotsOf
    <2> QED
      BY <2>1, SlotsFinite
  <1>2. ss \in SlotsType /\ n \in Int /\ f \in FlagsType /\ b \in ByteType
    <2>1. r.keysHeld + ByteSize - 1 \in Nat
      BY HidAssumption DEF Reports, ByteType
    <2>2. b \in ByteType
      BY <2>1, ByteRange
    <2>3. ss \in SlotsType
      BY DEF Reports, SlotsType
    <2>4. n \in Int
      BY <1>1, HidAssumption DEF Reports
    <2> QED
      BY <2>2, <2>3, <2>4 DEF Reports, FlagsType
  <1>3. q = [r EXCEPT !.slots = ss, !.kbCount = n, !.changed = f, !.keysHeld = b]
    BY DEF DeselectKey
  <1>4. \A i \in Slot : ss[i] = IF r.slots[i] = k THEN None ELSE r.slots[i]
    OBVIOUS
  <1> HIDE DEF ss, n, f, b
  <1>5. /\ q \in Reports /\ SameMods(q, r) /\ SameMedia(q, r) /\ SameClicks(q, r)
        /\ q.slots = ss /\ q.kbCount = n
        /\ q.bits = r.bits /\ q.bitCount = r.bitCount /\ q.changed = f
    BY <1>2, <1>3 DEF Reports, SameMods, SameMedia, SameClicks
  <1>6. KeysRight(q)
    <2> DEFINE full == Slot \ EmptySlots(r)
    <2>1. Slot \ EmptySlots(q) = full \ SlotsOf(r, k)
      BY <1>4, <1>5 DEF EmptySlots, SlotsOf
    <2>2. full \cap SlotsOf(r, k) = SlotsOf(r, k)
      BY HidAssumption DEF EmptySlots, SlotsOf
    <2>3. IsFiniteSet(full)
      BY SlotsFinite
    <2>4. Cardinality(full \ SlotsOf(r, k)) = Cardinality(full) - Cardinality(SlotsOf(r, k))
      <3> HIDE DEF full
      <3> QED
        BY <2>2, <2>3, FS_Difference
    <2> QED
      BY <1>5, <2>1, <2>4 DEF KeysRight, n
  <1> QED
    BY <1>5, <1>6 DEF KeyStep, Flagged, ModsFlagged, SameMods, f, ss

\* A key that is a bit makes the count of the bits positive.
LEMMA BitsCounted ==
  ASSUME NEW r \in Reports, KeysRight(r)
  PROVE  r.bitCount \in Nat /\ ((r.bitCount > 0) <=> (r.bits # {}))
  <1>1. IsFiniteSet(r.bits)
    BY BitsFinite DEF Reports, BitsType
  <1> QED
    BY <1>1, FS_EmptySet, FS_CardinalityType DEF KeysRight

\* deselect_keyboard_usage: the key is no bit any more; it can stay in a slot only
\* if it was both there and a bit.
LEMMA DeselectKeyDoes ==
  ASSUME NEW r \in Reports, NEW k \in Key, KeysRight(r), NEW q, q = DeselectKey(r, k)
  PROVE  /\ KeyStep(q, r) /\ ModsFlagged(q, r) /\ KeysRight(q)
         /\ OthersStay(q, r, k)
         /\ k \notin q.bits
         /\ k \in SlotKeys(q) \ Wide => k \in SlotKeys(r) /\ k \in r.bits
  <1>1. CASE r.bitCount > 0 /\ k \in Wide
    <2>1. q = r /\ k \notin r.bits
      BY <1>1 DEF DeselectKey, Reports, BitsType
    <2> QED
      BY <1>1, <2>1 DEF KeyStep, ModsFlagged, Flagged, SameMods, SameMedia, SameClicks, OthersStay
  <1>2. CASE r.bitCount > 0 /\ k \in r.bits
    <2>1. /\ KeyStep(q, r) /\ ModsFlagged(q, r) /\ KeysRight(q)
          /\ q.slots = r.slots /\ q.bits = r.bits \ {k}
      BY <1>2, UnbitDoes
    <2> QED
      BY <1>2, <2>1 DEF OthersStay, SlotKeys
  <1>3. CASE ~(r.bitCount > 0 /\ k \in Wide) /\ k \notin r.bits
    <2>1. /\ KeyStep(q, r) /\ ModsFlagged(q, r) /\ KeysRight(q)
          /\ q.slots = [i \in Slot |-> IF r.slots[i] = k THEN None ELSE r.slots[i]]
          /\ q.bits = r.bits
      BY <1>3, UnslotDoes
    <2>2. \A j : j \in SlotKeys(q) <=> j \in SlotKeys(r) /\ j # k
      BY <2>1, HidAssumption DEF SlotKeys
    <2> QED
      BY <1>3, <2>1, <2>2 DEF OthersStay
  <1> QED
    BY <1>1, <1>2, <1>3, BitsCounted

\* check_keyboard_usage misses a key only if it is no bit.
LEMMA NotPressed ==
  ASSUME NEW r \in Reports, NEW k \in Key, KeysRight(r), ~KeyIsPressed(r, k)
  PROVE  k \notin r.bits
  BY BitsCounted DEF KeyIsPressed
-----------------------------------------------------------------------------
(* Consumer usages *)

LEMMA PressMediaDoes ==
  ASSUME NEW r \in Reports, NEW c \in Media, NEW q, q = PressMedia(r, c)
  PROVE  MediaStep(q, r)
  <1>1. CASE MediaSlotsOf(r, None) = {}
    BY <1>1 DEF PressMedia, MediaStep, SameMods, SameKeys, SameClicks
  <1>2. CASE MediaSlotsOf(r, None) # {}
    <2>1. PICK i \in MediaSlotsOf(r, None) : i = First(MediaSlotsOf(r, None))
      <3>1. MediaSlotsOf(r, None) \in SUBSET Nat
        BY DEF MediaSlotsOf, MediaSlot
      <3> QED
        BY <1>2, <3>1, FirstOf
    <2> DEFINE ms == [r.media EXCEPT ![i] = c]
    <2>2. ms \in MediaType
      BY DEF Reports, MediaType
    <2>3. q = [r EXCEPT !.media = ms]
      BY <1>2, <2>1 DEF PressMedia
    <2> HIDE DEF ms
    <2> QED
      BY <2>2, <2>3 DEF Reports, MediaStep, SameMods, SameKeys, SameClicks
  <1> QED
    BY <1>1, <1>2

LEMMA ReleaseMediaDoes ==
  ASSUME NEW r \in Reports, NEW c \in Media, NEW q, q = ReleaseMedia(r, c)
  PROVE  MediaStep(q, r)
  <1> DEFINE ms == [i \in MediaSlot |-> IF r.media[i] = c THEN None ELSE r.media[i]]
  <1>1. ms \in MediaType
    BY DEF Reports, MediaType
  <1>2. q = [r EXCEPT !.media = ms]
    BY DEF ReleaseMedia
  <1> HIDE DEF ms
  <1> QED
    BY <1>1, <1>2 DEF Reports, MediaStep, SameMods, SameKeys, SameClicks

LEMMA ReportMediaType ==
  ASSUME NEW r \in Reports
  PROVE  ReportMedia(r) \in SUBSET Media
  BY DEF ReportMedia, Reports, MediaType
-----------------------------------------------------------------------------
(* Sending *)

\* What the host behind the current endpoint knows, before ("pending") and after
\* a keyboard report is sent.
KeysPending(x) ==
  /\ "kb" \notin x.r.changed => x.view.keys = SlotKeys(x.r)
  /\ "nkro" \notin x.r.changed => x.view.bits = x.r.bits
KeysKnown(x) == x.view.keys = SlotKeys(x.r) /\ x.view.bits = x.r.bits
ModsPending(x) == "kb" \notin x.r.changed => x.view.mods = x.r.mods
ModsKnown(x) == x.view.mods = x.r.mods
MediaKnown(x) == x.view.media = ReportMedia(x.r)

SameReports(q, r) ==
  q \in Reports /\ SameMods(q, r) /\ SameKeys(q, r) /\ SameMedia(q, r) /\ SameClicks(q, r)

LEMMA SendKeyboardDoes ==
  ASSUME NEW x \in Input, NEW y, y = SendKeyboard(x)
  PROVE  /\ y \in Input /\ SameReports(y.r, x.r)
         /\ KeysPending(x) => KeysKnown(y)
         /\ ModsPending(x) => ModsKnown(y)
         /\ y.view.media = x.view.media
  <1> DEFINE v == [x.view EXCEPT
                     !.mods = IF "kb" \in x.r.changed THEN x.r.mods ELSE x.view.mods,
                     !.keys = IF "kb" \in x.r.changed THEN SlotKeys(x.r) ELSE x.view.keys,
                     !.bits = IF "nkro" \in x.r.changed THEN x.r.bits ELSE x.view.bits]
             q == [x.r EXCEPT !.changed = {}]
  <1>1. x.r \in Reports /\ x.view \in Views
    BY DEF Input
  <1>2. y.r = q /\ y.view = v /\ y = [r |-> q, view |-> v]
    BY DEF SendKeyboard
  <1>3. q \in Reports /\ SameReports(q, x.r)
    <2>1. {} \in FlagsType
      BY DEF FlagsType
    <2> QED
      BY <1>1, <2>1 DEF Reports, SameReports, SameMods, SameKeys, SameMedia, SameClicks
  <1>4. SlotKeys(x.r) \in SUBSET Key /\ x.r.bits \in SUBSET Key /\ x.r.mods \in SUBSET Mod
    BY <1>1 DEF SlotKeys, Reports, SlotsType, BitsType, ModsType
  <1>5. v \in Views
    BY <1>1, <1>4 DEF Views
  <1>6. /\ v.mods = IF "kb" \in x.r.changed THEN x.r.mods ELSE x.view.mods
        /\ v.keys = IF "kb" \in x.r.changed THEN SlotKeys(x.r) ELSE x.view.keys
        /\ v.bits = IF "nkro" \in x.r.changed THEN x.r.bits ELSE x.view.bits
        /\ v.media = x.view.media
    BY <1>1 DEF Views
  <1>7. SlotKeys(q) = SlotKeys(x.r) /\ q.bits = x.r.bits /\ q.mods = x.r.mods
    BY <1>3 DEF SameReports, SameKeys, SameMods, SlotKeys
  <1>8. y \in Input
    BY <1>2, <1>3, <1>5 DEF Input
  <1> HIDE DEF v, q
  <1> QED
    BY <1>2, <1>3, <1>6, <1>7, <1>8 DEF KeysPending, KeysKnown, ModsPending, ModsKnown

LEMMA SendMediaDoes ==
  ASSUME NEW x \in Input, NEW y, y = SendMedia(x)
  PROVE  /\ y \in Input /\ y.r = x.r /\ MediaKnown(y)
         /\ y.view.mods = x.view.mods
         /\ y.view.keys = x.view.keys /\ y.view.bits = x.view.bits
  <1> DEFINE m == ReportMedia(x.r)
             v == [x.view EXCEPT !.media = m]
  <1>1. x.r \in Reports /\ x.view \in Views
    BY DEF Input
  <1>2. m \in SUBSET Media
    BY <1>1, ReportMediaType
  <1>3. y = [x EXCEPT !.view = v]
    BY DEF SendMedia
  <1>4. y.r = x.r /\ y.view = v
    BY <1>3 DEF Input
  <1> HIDE DEF m
  <1>5. /\ v \in Views /\ v.media = m /\ v.mods = x.view.mods
        /\ v.keys = x.view.keys /\ v.bits = x.view.bits
    BY <1>1, <1>2 DEF Views
  <1> HIDE DEF v
  <1>6. y \in Input
    BY <1>1, <1>3, <1>5 DEF Input
  <1> QED
    BY <1>4, <1>5, <1>6 DEF MediaKnown, m
-----------------------------------------------------------------------------
(* The keycode handlers *)

Code == Mod \cup Key \cup Media

\* What pressing or releasing a usage of any page does to the other parts.
UsageStep(q, r, c) ==
  /\ q \in Reports /\ KeysRight(q)
  /\ Flagged(q, r) /\ ModsFlagged(q, r) /\ SameClicks(q, r)
  /\ c \notin Mod => SameMods(q, r)
  /\ c \notin Key => SameKeys(q, r)
  /\ c \notin Media => SameMedia(q, r)
  /\ c \in Key => OthersStay(q, r, c)
  /\ ExplicitRight(r) => ExplicitRight(q)
  /\ Plain(r) => Plain(q)

LEMMA UsageMod ==
  ASSUME NEW q, NEW r \in Reports, NEW c \in Mod, ModStep(q, r), ModsFlagged(q, r),
         Plain(r) => Plain(q), ExplicitRight(r) => ExplicitRight(q), KeysRight(r)
  PROVE  UsageStep(q, r, c)
  BY HidAssumption DEF UsageStep, ModStep, KeysRight, SameKeys, EmptySlots, SlotsOf

LEMMA UsageKey ==
  ASSUME NEW q, NEW r \in Reports, NEW c \in Key, KeyStep(q, r), ModsFlagged(q, r),
         KeysRight(q), OthersStay(q, r, c)
  PROVE  UsageStep(q, r, c)
  BY HidAssumption DEF UsageStep, KeyStep, SameMods, ExplicitRight, Plain

LEMMA UsageMedia ==
  ASSUME NEW q, NEW r \in Reports, NEW c \in Media, MediaStep(q, r), KeysRight(r)
  PROVE  UsageStep(q, r, c)
  BY HidAssumption DEF UsageStep, MediaStep, SameMods, SameKeys, ExplicitRight, Plain,
     Flagged, ModsFlagged, KeysRight, EmptySlots, SlotsOf

\* zmk_hid_press
LEMMA HidPressDoes ==
  ASSUME NEW r \in Reports, NEW c \in Code, KeysRight(r), c \notin r.bits,
         NEW q, q = HidPress(r, c)
  PROVE  /\ UsageStep(q, r, c)
         /\ \A m \in Mod : q.counts[m] = r.counts[m] + One(m = c)
         /\ c \in Key \ Wide => c \in ReportKeys(q)
         /\ c \in Key /\ c \in q.bits /\ c \in SlotKeys(q) => c \in SlotKeys(r)
  <1>1. CASE c \in Mod
    <2>1. q = RegisterMod(r, c)
      BY <1>1 DEF HidPress
    <2>2. /\ ModStep(q, r) /\ ModsFlagged(q, r) /\ (Plain(r) => Plain(q))
          /\ \A m \in Mod : q.counts[m] = r.counts[m] + One(m = c)
          /\ ExplicitRight(r) => ExplicitRight(q)
      BY <1>1, <2>1, RegisterModDoes
    <2> QED
      BY <1>1, <2>2, UsageMod, HidAssumption
  <1>2. CASE c \in Key
    <2>1. q = SelectKey(r, c)
      BY <1>2, HidAssumption DEF HidPress
    <2>2. /\ KeyStep(q, r) /\ ModsFlagged(q, r) /\ KeysRight(q)
          /\ OthersStay(q, r, c)
          /\ c \notin Wide => c \in ReportKeys(q)
          /\ c \in q.bits /\ c \in SlotKeys(q) => c \in SlotKeys(r)
      BY <1>2, <2>1, SelectKeyDoes
    <2>3. \A m \in Mod : q.counts[m] = r.counts[m] + One(m = c)
      <3>1. q.counts = r.counts /\ r.counts \in CountsType
        BY <2>2 DEF KeyStep, SameMods, Reports
      <3> QED
        BY <1>2, <3>1, HidAssumption DEF CountsType, One
    <2> QED
      BY <1>2, <2>2, <2>3, UsageKey
  <1>3. CASE c \in Media
    <2>1. q = PressMedia(r, c)
      BY <1>3, HidAssumption DEF HidPress
    <2>2. MediaStep(q, r)
      BY <1>3, <2>1, PressMediaDoes
    <2>3. \A m \in Mod : q.counts[m] = r.counts[m] + One(m = c)
      <3>1. q.counts = r.counts /\ r.counts \in CountsType
        BY <2>2 DEF MediaStep, SameMods, Reports
      <3> QED
        BY <1>3, <3>1, HidAssumption DEF CountsType, One
    <2> QED
      BY <1>3, <2>2, <2>3, UsageMedia, HidAssumption
  <1> QED
    BY <1>1, <1>2, <1>3 DEF Code

\* zmk_hid_release
LEMMA HidReleaseDoes ==
  ASSUME NEW r \in Reports, NEW c \in Code, KeysRight(r),
         c \in Mod => r.counts[c] # 0,
         NEW q, q = HidRelease(r, c)
  PROVE  /\ UsageStep(q, r, c)
         /\ \A m \in Mod : q.counts[m] = r.counts[m] - One(m = c)
         /\ c \in Key => c \notin q.bits
         /\ c \in Key /\ c \in SlotKeys(q) \ Wide => c \in SlotKeys(r) /\ c \in r.bits
  <1>1. CASE c \in Mod
    <2>1. q = UnregisterMod(r, c)
      BY <1>1 DEF HidRelease
    <2>2. /\ ModStep(q, r) /\ ModsFlagged(q, r) /\ (Plain(r) => Plain(q))
          /\ \A m \in Mod : q.counts[m] = r.counts[m] - One(m = c)
          /\ ExplicitRight(r) => ExplicitRight(q)
      BY <1>1, <2>1, UnregisterModDoes
    <2> QED
      BY <1>1, <2>2, UsageMod, HidAssumption
  <1>2. CASE c \in Key
    <2>1. q = DeselectKey(r, c)
      BY <1>2, HidAssumption DEF HidRelease
    <2>2. /\ KeyStep(q, r) /\ ModsFlagged(q, r) /\ KeysRight(q)
          /\ OthersStay(q, r, c)
          /\ c \notin q.bits
          /\ c \in SlotKeys(q) \ Wide => c \in SlotKeys(r) /\ c \in r.bits
      BY <1>2, <2>1, DeselectKeyDoes
    <2>3. \A m \in Mod : q.counts[m] = r.counts[m] - One(m = c)
      <3>1. q.counts = r.counts /\ r.counts \in CountsType
        BY <2>2 DEF KeyStep, SameMods, Reports
      <3> QED
        BY <1>2, <3>1, HidAssumption DEF CountsType, One
    <2> QED
      BY <1>2, <2>2, <2>3, UsageKey
  <1>3. CASE c \in Media
    <2>1. q = ReleaseMedia(r, c)
      BY <1>3, HidAssumption DEF HidRelease
    <2>2. MediaStep(q, r)
      BY <1>3, <2>1, ReleaseMediaDoes
    <2>3. \A m \in Mod : q.counts[m] = r.counts[m] - One(m = c)
      <3>1. q.counts = r.counts /\ r.counts \in CountsType
        BY <2>2 DEF MediaStep, SameMods, Reports
      <3> QED
        BY <1>3, <3>1, HidAssumption DEF CountsType, One
    <2> QED
      BY <1>3, <2>2, <2>3, UsageMedia, HidAssumption
  <1> QED
    BY <1>1, <1>2, <1>3 DEF Code

\* The explicit modifier of an event, then its implicit ones.
LEMMA PressModsDo ==
  ASSUME NEW r \in Reports, NEW m \in Mod \cup {None}, NEW ms \in SUBSET Mod,
         NEW q, q = SetImplicit(RegisterMods(r, m), ms)
  PROVE  /\ ModStep(q, r)
         /\ \A n \in Mod : q.counts[n] = r.counts[n] + One(n = m)
         /\ ExplicitRight(r) => ExplicitRight(q)
         /\ Plain(r) /\ ms = {} => Plain(q) /\ ModsFlagged(q, r)
  <1> DEFINE p == RegisterMods(r, m)
  <1>1. /\ ModStep(p, r) /\ ModsFlagged(p, r) /\ (Plain(r) => Plain(p))
        /\ \A n \in Mod : p.counts[n] = r.counts[n] + One(n = m)
        /\ ExplicitRight(r) => ExplicitRight(p)
    <2>1. CASE m = None
      <3>1. p = r /\ \A n \in Mod : One(n = m) = 0
        BY <2>1, HidAssumption DEF RegisterMods, One
      <3> QED
        BY <3>1 DEF Reports, CountsType, ModStep, ModsFlagged, Flagged, SameKeys, SameMedia,
           SameClicks
    <2>2. CASE m # None
      BY <2>2, RegisterModDoes DEF RegisterMods
    <2> QED
      BY <2>1, <2>2
  <1>2. q = SetImplicit(p, ms)
    OBVIOUS
  <1> HIDE DEF p
  <1>3. p \in Reports
    BY <1>1 DEF ModStep
  <1>4. /\ ModStep(q, p) /\ q.changed = p.changed
        /\ q.counts = p.counts /\ q.explicit = p.explicit
        /\ Plain(p) /\ ms = {} => Plain(q) /\ q.mods = p.mods
    BY <1>2, <1>3, SetImplicitDoes
  <1>5. ModStep(q, r)
    BY <1>1, <1>4 DEF ModStep, SameKeys, SameMedia, SameClicks, Flagged
  <1> QED
    BY <1>1, <1>4, <1>5 DEF ExplicitRight, ModsFlagged

LEMMA ReleaseModsDo ==
  ASSUME NEW r \in Reports, NEW m \in Mod \cup {None}, NEW ms \in SUBSET Mod,
         m \in Mod => r.counts[m] # 0,
         NEW q, q = SetImplicit(UnregisterMods(r, m), ms)
  PROVE  /\ ModStep(q, r)
         /\ \A n \in Mod : q.counts[n] = r.counts[n] - One(n = m)
         /\ ExplicitRight(r) => ExplicitRight(q)
         /\ Plain(r) /\ ms = {} => Plain(q) /\ ModsFlagged(q, r)
  <1> DEFINE p == UnregisterMods(r, m)
  <1>1. /\ ModStep(p, r) /\ ModsFlagged(p, r) /\ (Plain(r) => Plain(p))
        /\ \A n \in Mod : p.counts[n] = r.counts[n] - One(n = m)
        /\ ExplicitRight(r) => ExplicitRight(p)
    <2>1. CASE m = None
      <3>1. p = r /\ \A n \in Mod : One(n = m) = 0
        BY <2>1, HidAssumption DEF UnregisterMods, One
      <3> QED
        BY <3>1 DEF Reports, CountsType, ModStep, ModsFlagged, Flagged, SameKeys, SameMedia,
           SameClicks
    <2>2. CASE m # None
      BY <2>2, UnregisterModDoes DEF UnregisterMods
    <2> QED
      BY <2>1, <2>2
  <1>2. q = SetImplicit(p, ms)
    OBVIOUS
  <1> HIDE DEF p
  <1>3. p \in Reports
    BY <1>1 DEF ModStep
  <1>4. /\ ModStep(q, p) /\ q.changed = p.changed
        /\ q.counts = p.counts /\ q.explicit = p.explicit
        /\ Plain(p) /\ ms = {} => Plain(q) /\ q.mods = p.mods
    BY <1>2, <1>3, SetImplicitDoes
  <1>5. ModStep(q, r)
    BY <1>1, <1>4 DEF ModStep, SameKeys, SameMedia, SameClicks, Flagged
  <1> QED
    BY <1>1, <1>4, <1>5 DEF ExplicitRight, ModsFlagged

\* The end of both handlers: what changed since the host was told reaches it.
LEMMA FinishDoes ==
  ASSUME NEW x \in Input, NEW r \in Reports, NEW in \in Reports, NEW c \in Code,
         Flagged(r, x.r), c \in Media => SameKeys(r, x.r),
         c \notin Media => SameMedia(r, x.r),
         NEW y, y = Send(SendModsOf(With(x, r), in, c), c)
  PROVE  /\ y \in Input /\ SameReports(y.r, r)
         /\ KeysKnown(x) => KeysKnown(y)
         /\ MediaKnown(x) => MediaKnown(y)
         /\ /\ ModsKnown(x) /\ ModsFlagged(r, x.r)
            /\ c \in Media => in.mods = x.r.mods
            => ModsKnown(y)
  <1> DEFINE w == With(x, r)
  <1>1. w \in Input /\ w.r = r /\ w.view = x.view
    BY DEF With, Input
  <1>2. KeysKnown(x) => KeysPending(w)
    BY <1>1 DEF KeysKnown, KeysPending, Flagged, SlotKeys
  <1>3. ModsKnown(x) /\ ModsFlagged(r, x.r) => ModsPending(w)
    BY <1>1 DEF ModsKnown, ModsPending, ModsFlagged
  <1>4. SameReports(r, r)
    BY DEF SameReports, SameKeys, SameMods, SameMedia, SameClicks
  <1> HIDE DEF w
  <1>5. CASE c \notin Media
    <2>1. y = SendKeyboard(w)
      BY <1>5 DEF w, Send, SendModsOf
    <2>2. /\ y \in Input /\ SameReports(y.r, r)
          /\ KeysPending(w) => KeysKnown(y)
          /\ ModsPending(w) => ModsKnown(y)
          /\ y.view.media = x.view.media
      BY <1>1, <2>1, SendKeyboardDoes
    <2>3. ReportMedia(y.r) = ReportMedia(x.r)
      BY <1>5, <2>2 DEF SameReports, SameMedia, ReportMedia
    <2> QED
      BY <1>2, <1>3, <1>5, <2>2, <2>3 DEF MediaKnown
  <1>6. CASE c \in Media /\ r.mods # in.mods
    <2> DEFINE z == SendKeyboard(w)
    <2>1. y = SendMedia(z)
      BY <1>1, <1>6 DEF w, Send, SendModsOf
    <2>2. /\ z \in Input /\ SameReports(z.r, r)
          /\ KeysPending(w) => KeysKnown(z)
          /\ ModsPending(w) => ModsKnown(z)
      BY <1>1, SendKeyboardDoes
    <2> HIDE DEF z
    <2>3. /\ y \in Input /\ y.r = z.r /\ MediaKnown(y)
          /\ y.view.mods = z.view.mods
          /\ y.view.keys = z.view.keys /\ y.view.bits = z.view.bits
      BY <2>1, <2>2, SendMediaDoes
    <2> QED
      BY <1>2, <1>3, <2>2, <2>3 DEF KeysKnown, ModsKnown
  <1>7. CASE c \in Media /\ r.mods = in.mods
    <2>1. y = SendMedia(w)
      BY <1>1, <1>7 DEF w, Send, SendModsOf
    <2>2. /\ y \in Input /\ y.r = r /\ MediaKnown(y)
          /\ y.view.mods = x.view.mods
          /\ y.view.keys = x.view.keys /\ y.view.bits = x.view.bits
      BY <1>1, <2>1, SendMediaDoes
    <2>3. SlotKeys(r) = SlotKeys(x.r) /\ r.bits = x.r.bits
      BY <1>7 DEF SameKeys, SlotKeys
    <2> QED
      BY <1>4, <1>7, <2>2, <2>3 DEF KeysKnown, ModsKnown
  <1> QED
    BY <1>5, <1>6, <1>7

LEMMA SameReportsKeep ==
  ASSUME NEW q, NEW r, SameReports(q, r)
  PROVE  /\ KeysRight(r) => KeysRight(q)
         /\ ExplicitRight(r) => ExplicitRight(q)
         /\ Plain(r) => Plain(q)
         /\ q.counts = r.counts /\ q.mods = r.mods /\ q.bits = r.bits
         /\ SlotKeys(q) = SlotKeys(r) /\ ReportKeys(q) = ReportKeys(r)
  <1>1. q.slots = r.slots /\ q.bits = r.bits /\ q.kbCount = r.kbCount /\ q.bitCount = r.bitCount
    BY DEF SameReports, SameKeys
  <1>2. EmptySlots(q) = EmptySlots(r) /\ SlotKeys(q) = SlotKeys(r)
    BY <1>1 DEF EmptySlots, SlotsOf, SlotKeys
  <1> QED
    BY <1>1, <1>2 DEF SameReports, SameMods, KeysRight, ExplicitRight, Plain, ReportKeys

\* A key that is already in a report is released first. Whatever it was, it is no
\* bit afterwards.
LEMMA PreReleaseDoes ==
  ASSUME NEW x \in Input, NEW c \in Code, KeysRight(x.r), NEW y, y = PreRelease(x, c)
  PROVE  /\ y \in Input /\ KeysRight(y.r)
         /\ y.r.counts = x.r.counts /\ y.r.mods = x.r.mods
         /\ ExplicitRight(x.r) => ExplicitRight(y.r)
         /\ Plain(x.r) => Plain(y.r)
         /\ c \notin Key => SlotKeys(y.r) = SlotKeys(x.r) /\ y.r.bits = x.r.bits
         /\ c \in Key => OthersStay(y.r, x.r, c)
         /\ c \notin y.r.bits
         /\ c \in SlotKeys(y.r) \ Wide => c \in SlotKeys(x.r)
         /\ KeysKnown(x) => KeysKnown(y)
         /\ MediaKnown(x) => MediaKnown(y)
         /\ ModsKnown(x) => ModsKnown(y)
  <1>1. x.r \in Reports
    BY DEF Input
  <1>2. CASE c \in Mod \/ ~HidIsPressed(x.r, c)
    <2>1. y = x
      BY <1>2 DEF PreRelease
    <2>2. c \notin x.r.bits
      <3>1. c \notin Key => c \notin x.r.bits
        BY <1>1 DEF Reports, BitsType
      <3>2. c \in Key => ~KeyIsPressed(x.r, c)
        BY <1>2, HidAssumption DEF HidIsPressed
      <3> QED
        BY <1>1, <3>1, <3>2, NotPressed
    <2> QED
      BY <2>1, <2>2 DEF OthersStay
  <1>3. CASE c \notin Mod /\ HidIsPressed(x.r, c)
    <2> DEFINE q == HidRelease(x.r, c)
    <2>1. /\ UsageStep(q, x.r, c)
          /\ c \in Key => c \notin q.bits
          /\ c \in Key /\ c \in SlotKeys(q) \ Wide => c \in SlotKeys(x.r) /\ c \in x.r.bits
      BY <1>1, <1>3, HidReleaseDoes
    <2>2. y = Send(With(x, q), c)
      BY <1>3 DEF PreRelease
    <2> HIDE DEF q
    <2>3. /\ q \in Reports /\ KeysRight(q) /\ Flagged(q, x.r) /\ ModsFlagged(q, x.r)
          /\ SameMods(q, x.r)
          /\ c \notin Key => SameKeys(q, x.r)
          /\ c \notin Media => SameMedia(q, x.r)
          /\ c \in Key => OthersStay(q, x.r, c)
          /\ ExplicitRight(x.r) => ExplicitRight(q)
          /\ Plain(x.r) => Plain(q)
      BY <1>3, <2>1 DEF UsageStep
    <2>4. y = Send(SendModsOf(With(x, q), q, c), c)
      <3>1. With(x, q).r = q
        BY DEF With, Input
      <3> QED
        BY <2>2, <3>1 DEF SendModsOf
    <2>5. /\ y \in Input /\ SameReports(y.r, q)
          /\ KeysKnown(x) => KeysKnown(y)
          /\ MediaKnown(x) => MediaKnown(y)
          /\ ModsKnown(x) => ModsKnown(y)
      <3>1. c \in Media => c \notin Key /\ q.mods = x.r.mods
        BY <2>3, HidAssumption DEF SameMods
      <3> QED
        BY <2>3, <2>4, <3>1, FinishDoes
    <2>6. /\ KeysRight(y.r) /\ (ExplicitRight(q) => ExplicitRight(y.r))
          /\ Plain(q) => Plain(y.r)
          /\ y.r.counts = q.counts /\ y.r.mods = q.mods /\ y.r.bits = q.bits
          /\ SlotKeys(y.r) = SlotKeys(q)
      BY <2>3, <2>5, SameReportsKeep
    <2>7. c \notin Key => SlotKeys(q) = SlotKeys(x.r) /\ q.bits = x.r.bits
      BY <2>3 DEF SameKeys, SlotKeys
    <2>8. c \notin y.r.bits
      <3>1. c \notin Key => c \notin x.r.bits
        BY <1>1 DEF Reports, BitsType
      <3> QED
        BY <2>1, <2>6, <2>7, <3>1
    <2>9. c \in SlotKeys(y.r) \ Wide => c \in SlotKeys(x.r)
      BY <2>1, <2>6, <2>7
    <2>10. c \in Key => OthersStay(y.r, x.r, c)
      BY <2>3, <2>6 DEF OthersStay
    <2> QED
      BY <2>3, <2>5, <2>6, <2>7, <2>8, <2>9, <2>10 DEF SameMods
  <1> QED
    BY <1>2, <1>3

\* What the whole handler of an event e leaves behind, for the theorems of the
\* module to read off: modifiers by their counts, keys by where they are.
HandlerDone(y, x, e) ==
  /\ y \in Input /\ KeysRight(y.r)
  /\ ExplicitRight(x.r) => ExplicitRight(y.r)
  /\ e.code \notin Key => SlotKeys(y.r) = SlotKeys(x.r) /\ y.r.bits = x.r.bits
  /\ e.code \in Key => OthersStay(y.r, x.r, e.code)
  /\ KeysKnown(x) => KeysKnown(y)
  /\ MediaKnown(x) => MediaKnown(y)
  /\ ModsKnown(x) /\ Plain(x.r) /\ e.imp = {} => ModsKnown(y) /\ Plain(y.r)

\* The common part: after the usage itself (in), the modifiers and the sending.
LEMMA HandlerEnd ==
  ASSUME NEW x \in Input, NEW e \in KeycodeEvent, NEW in, NEW r, NEW y,
         UsageStep(in, x.r, e.code), ModStep(r, in),
         ExplicitRight(in) => ExplicitRight(r),
         Plain(in) /\ e.imp = {} => Plain(r) /\ ModsFlagged(r, in),
         y = Send(SendModsOf(With(x, r), in, e.code), e.code)
  PROVE  /\ HandlerDone(y, x, e)
         /\ y.r.counts = r.counts
         /\ SlotKeys(y.r) = SlotKeys(in) /\ y.r.bits = in.bits
  <1> DEFINE c == e.code
  <1>1. c \in Code /\ x.r \in Reports
    BY DEF KeycodeEvent, Code, Input
  <1>2. /\ in \in Reports /\ KeysRight(in) /\ Flagged(in, x.r) /\ ModsFlagged(in, x.r)
        /\ c \notin Mod => SameMods(in, x.r)
        /\ c \notin Key => SameKeys(in, x.r)
        /\ c \notin Media => SameMedia(in, x.r)
        /\ c \in Key => OthersStay(in, x.r, c)
        /\ ExplicitRight(x.r) => ExplicitRight(in)
        /\ Plain(x.r) => Plain(in)
    BY DEF UsageStep
  <1>3. r \in Reports /\ SameKeys(r, in) /\ SameMedia(r, in) /\ Flagged(r, in)
    BY DEF ModStep
  <1> HIDE DEF c
  <1>4. Flagged(r, x.r)
    BY <1>2, <1>3 DEF Flagged
  <1>5. (c \notin Key => SameKeys(r, x.r)) /\ (c \notin Media => SameMedia(r, x.r))
    BY <1>2, <1>3 DEF SameKeys, SameMedia
  <1>6. c \in Media => c \notin Key /\ in.mods = x.r.mods
    BY <1>2, HidAssumption DEF SameMods
  <1>7. /\ y \in Input /\ SameReports(y.r, r)
        /\ KeysKnown(x) => KeysKnown(y)
        /\ MediaKnown(x) => MediaKnown(y)
        /\ ModsKnown(x) /\ ModsFlagged(r, x.r) => ModsKnown(y)
    <2>1. y = Send(SendModsOf(With(x, r), in, c), c)
      BY DEF c
    <2> QED
      BY <1>1, <1>2, <1>3, <1>4, <1>5, <1>6, <2>1, FinishDoes
  <1>8. /\ KeysRight(r) => KeysRight(y.r)
        /\ ExplicitRight(r) => ExplicitRight(y.r)
        /\ Plain(r) => Plain(y.r)
        /\ y.r.counts = r.counts /\ y.r.bits = r.bits /\ SlotKeys(y.r) = SlotKeys(r)
    BY <1>7, SameReportsKeep
  <1>9. KeysRight(r) /\ SlotKeys(r) = SlotKeys(in) /\ r.bits = in.bits
    BY <1>2, <1>3 DEF KeysRight, SameKeys, EmptySlots, SlotsOf, SlotKeys
  <1>10. ASSUME ModsKnown(x), Plain(x.r), e.imp = {}
         PROVE  ModsKnown(y) /\ Plain(y.r)
    <2>1. Plain(r) /\ ModsFlagged(r, in)
      BY <1>2, <1>10
    <2>2. ModsFlagged(r, x.r)
      BY <1>2, <2>1 DEF ModsFlagged
    <2> QED
      BY <1>7, <1>8, <1>10, <2>1, <2>2
  <1>11. c \notin Key => SlotKeys(in) = SlotKeys(x.r) /\ in.bits = x.r.bits
    BY <1>2 DEF SameKeys, SlotKeys
  <1>12. c \in Key => OthersStay(y.r, x.r, c)
    BY <1>2, <1>8, <1>9 DEF OthersStay
  <1>13. HandlerDone(y, x, e)
    BY <1>2, <1>7, <1>8, <1>9, <1>10, <1>11, <1>12 DEF HandlerDone, c
  <1> QED
    BY <1>8, <1>9, <1>13

\* hid_listener_keycode_pressed
LEMMA PressedDoes ==
  ASSUME NEW x \in Input, NEW e \in KeycodeEvent, KeysRight(x.r),
         NEW y, y = Pressed(x, e)
  PROVE  /\ HandlerDone(y, x, e)
         /\ \A m \in Mod :
              y.r.counts[m] = x.r.counts[m] + One(m = e.code) + One(m = e.exp)
         /\ e.code \in Key \ Wide => e.code \in ReportKeys(y.r)
         /\ e.code \in SlotKeys(y.r) \cap y.r.bits => e.code \in SlotKeys(x.r)
  <1> DEFINE c == e.code
             pre == PreRelease(x, c)
             in == HidPress(pre.r, c)
             r == SetImplicit(RegisterMods(in, e.exp), e.imp)
  <1>1. /\ c \in Code /\ x.r \in Reports
        /\ e.exp \in Mod \cup {None} /\ e.imp \in SUBSET Mod
    BY DEF KeycodeEvent, Code, Input
  <1>2. y = Send(SendModsOf(With(pre, r), in, c), c)
    BY DEF Pressed
  <1>3. /\ pre \in Input /\ KeysRight(pre.r)
        /\ pre.r.counts = x.r.counts
        /\ ExplicitRight(x.r) => ExplicitRight(pre.r)
        /\ Plain(x.r) => Plain(pre.r)
        /\ c \notin Key => SlotKeys(pre.r) = SlotKeys(x.r) /\ pre.r.bits = x.r.bits
        /\ c \in Key => OthersStay(pre.r, x.r, c)
        /\ c \notin pre.r.bits
        /\ c \in SlotKeys(pre.r) \ Wide => c \in SlotKeys(x.r)
        /\ KeysKnown(x) => KeysKnown(pre)
        /\ MediaKnown(x) => MediaKnown(pre)
        /\ ModsKnown(x) => ModsKnown(pre)
    <2> HIDE DEF c
    <2> QED
      BY <1>1, PreReleaseDoes
  <1> HIDE DEF pre
  <1>4. pre.r \in Reports
    BY <1>3 DEF Input
  <1>5. /\ UsageStep(in, pre.r, c)
        /\ \A m \in Mod : in.counts[m] = pre.r.counts[m] + One(m = c)
        /\ c \in Key \ Wide => c \in ReportKeys(in)
        /\ c \in Key /\ c \in in.bits /\ c \in SlotKeys(in) => c \in SlotKeys(pre.r)
    <2> HIDE DEF c
    <2> QED
      BY <1>1, <1>3, <1>4, HidPressDoes
  <1> HIDE DEF in
  <1>6. in \in Reports
    BY <1>5 DEF UsageStep
  <1>7. /\ ModStep(r, in)
        /\ \A m \in Mod : r.counts[m] = in.counts[m] + One(m = e.exp)
        /\ ExplicitRight(in) => ExplicitRight(r)
        /\ Plain(in) /\ e.imp = {} => Plain(r) /\ ModsFlagged(r, in)
    BY <1>1, <1>6, PressModsDo
  <1> HIDE DEF r
  <1>8. /\ HandlerDone(y, pre, e) /\ y.r.counts = r.counts
        /\ SlotKeys(y.r) = SlotKeys(in) /\ y.r.bits = in.bits
    BY <1>2, <1>3, <1>5, <1>7, HandlerEnd
  <1>9. HandlerDone(y, x, e)
    BY <1>3, <1>8 DEF HandlerDone, OthersStay
  <1>10. ASSUME NEW m \in Mod
         PROVE  y.r.counts[m] = x.r.counts[m] + One(m = e.code) + One(m = e.exp)
    BY <1>3, <1>5, <1>7, <1>8
  <1>11. c \in Key \ Wide => c \in ReportKeys(y.r)
    BY <1>5, <1>8 DEF ReportKeys
  <1>12. c \in SlotKeys(y.r) \cap y.r.bits => c \in SlotKeys(x.r)
    <2>1. in.bits \subseteq Key \ Wide
      BY <1>6 DEF Reports, BitsType
    <2> QED
      BY <1>3, <1>5, <1>8, <2>1
  <1> QED
    BY <1>9, <1>10, <1>11, <1>12

\* hid_listener_keycode_released, of an event whose modifiers are counted
LEMMA ReleasedDoes ==
  ASSUME NEW x \in Input, NEW e \in KeycodeEvent, KeysRight(x.r),
         \A m \in Mod : x.r.counts[m] >= One(m = e.code) + One(m = e.exp),
         NEW y, y = Released(x, e)
  PROVE  /\ HandlerDone(y, x, e)
         /\ \A m \in Mod :
              y.r.counts[m] = x.r.counts[m] - One(m = e.code) - One(m = e.exp)
         /\ e.code \in SlotKeys(y.r) \ Wide => e.code \in SlotKeys(x.r) /\ e.code \in x.r.bits
         /\ e.code \notin y.r.bits
  <1> DEFINE c == e.code
             in == HidRelease(x.r, c)
             r == SetImplicit(UnregisterMods(in, e.exp), {})
  <1>1. c \in Code /\ x.r \in Reports /\ e.exp \in Mod \cup {None}
    BY DEF KeycodeEvent, Code, Input
  <1>2. \A m \in Mod : x.r.counts[m] \in Int /\ One(m = c) \in {0, 1} /\ One(m = e.exp) \in {0, 1}
    BY <1>1 DEF Reports, CountsType, One
  <1>3. c \in Mod => x.r.counts[c] # 0
    BY <1>2 DEF One
  <1>4. y = Send(SendModsOf(With(x, r), in, c), c)
    BY <1>3 DEF Released
  <1>5. /\ UsageStep(in, x.r, c)
        /\ \A m \in Mod : in.counts[m] = x.r.counts[m] - One(m = c)
        /\ c \in Key => c \notin in.bits
        /\ c \in Key /\ c \in SlotKeys(in) \ Wide => c \in SlotKeys(x.r) /\ c \in x.r.bits
    <2>1. KeysRight(x.r)
      OBVIOUS
    <2> HIDE DEF c
    <2> QED
      BY <1>1, <1>3, <2>1, HidReleaseDoes
  <1> HIDE DEF in
  <1>6. in \in Reports
    BY <1>5 DEF UsageStep
  <1>7. e.exp \in Mod => in.counts[e.exp] # 0
    <2> SUFFICES ASSUME e.exp \in Mod PROVE in.counts[e.exp] # 0
      OBVIOUS
    <2>1. x.r.counts[e.exp] >= One(e.exp = c) + 1
      BY DEF One
    <2> QED
      BY <1>2, <1>5, <2>1
  <1>8. /\ ModStep(r, in)
        /\ \A m \in Mod : r.counts[m] = in.counts[m] - One(m = e.exp)
        /\ ExplicitRight(in) => ExplicitRight(r)
        /\ Plain(in) => Plain(r) /\ ModsFlagged(r, in)
    <2>1. {} \in SUBSET Mod
      OBVIOUS
    <2> QED
      BY <1>1, <1>6, <1>7, <2>1, ReleaseModsDo
  <1> HIDE DEF r
  <1>9. /\ HandlerDone(y, x, e) /\ y.r.counts = r.counts
        /\ SlotKeys(y.r) = SlotKeys(in) /\ y.r.bits = in.bits
    BY <1>4, <1>5, <1>8, HandlerEnd
  <1>10. ASSUME NEW m \in Mod
         PROVE  y.r.counts[m] = x.r.counts[m] - One(m = e.code) - One(m = e.exp)
    BY <1>5, <1>8, <1>9
  <1>11. c \notin Key => c \notin SlotKeys(in) /\ c \notin in.bits
    <2>1. SlotKeys(in) \subseteq Key /\ in.bits \subseteq Key
      BY <1>6 DEF Reports, SlotsType, BitsType, SlotKeys
    <2> QED
      BY <2>1
  <1> QED
    BY <1>5, <1>9, <1>10, <1>11
-----------------------------------------------------------------------------
(* The inductive invariant *)

\* The sources that press a modifier, by the usage or along with it.
Coders(m) == {s \in Source : Event[s].code = m}
Explicits(m) == {s \in Source : Event[s].exp = m}

\* How many presses of m the pressed sources stand for.
CountFor(H, m) == Cardinality(H \cap Coders(m)) + Cardinality(H \cap Explicits(m))

Types ==
  /\ h \in Reports
  /\ host \in [Endpoint -> Views]
  /\ current \in Endpoint
  /\ held \subseteq Source /\ due \subseteq held
  /\ crossed \in BOOLEAN

Counted == \A m \in Mod : h.counts[m] = CountFor(held, m)

\* A key that is in a slot and a bit as well was pressed twice: it was in a slot
\* when only the bits were looked at.
Twice == \A k \in SlotKeys(h) \cap h.bits :
  \E s, t \in held : s # t /\ Event[s].code = k /\ Event[t].code = k

IInv ==
  /\ Types
  /\ Counted /\ ExplicitRight(h)
  /\ KeysRight(h) /\ ReportExact /\ Twice
  /\ KeysKnown(Now) /\ MediaKnown(Now)
  /\ OldEndpointKeysReleased

LEMMA CountWith ==
  ASSUME NEW H \in SUBSET Source, NEW s \in Source \ H, NEW G
  PROVE  Cardinality((H \cup {s}) \cap G) = Cardinality(H \cap G) + One(s \in G)
  <1>1. IsFiniteSet(H \cap G)
    BY HidAssumption, FS_Subset
  <1>2. CASE s \in G
    <2>1. (H \cup {s}) \cap G = (H \cap G) \cup {s}
      BY <1>2
    <2> QED
      BY <1>1, <1>2, <2>1, FS_AddElement DEF One
  <1>3. CASE s \notin G
    <2>1. Cardinality((H \cup {s}) \cap G) = Cardinality(H \cap G)
      <3>1. (H \cup {s}) \cap G = H \cap G
        BY <1>3
      <3> QED
        BY <3>1
    <2>2. Cardinality(H \cap G) \in Nat
      BY <1>1, FS_CardinalityType
    <2> QED
      BY <1>3, <2>1, <2>2 DEF One
  <1> QED
    BY <1>2, <1>3

LEMMA CountPress ==
  ASSUME NEW H \in SUBSET Source, NEW s \in Source \ H, NEW m \in Mod
  PROVE  CountFor(H \cup {s}, m) =
           CountFor(H, m) + One(m = Event[s].code) + One(m = Event[s].exp)
  <1>1. /\ One(s \in Coders(m)) = One(m = Event[s].code)
        /\ One(s \in Explicits(m)) = One(m = Event[s].exp)
    BY DEF Coders, Explicits, One
  <1> DEFINE A == Cardinality(H \cap Coders(m))
             B == Cardinality(H \cap Explicits(m))
  <1>2. /\ Cardinality((H \cup {s}) \cap Coders(m)) = A + One(s \in Coders(m))
        /\ Cardinality((H \cup {s}) \cap Explicits(m)) = B + One(s \in Explicits(m))
    BY CountWith
  <1>3. A \in Nat /\ B \in Nat
    BY HidAssumption, FS_Subset, FS_CardinalityType
  <1>4. /\ One(m = Event[s].code) \in Int /\ One(m = Event[s].exp) \in Int
    BY DEF One
  <1>5. CountFor(H, m) = A + B
    BY DEF CountFor
  <1>6. CountFor(H \cup {s}, m) = A + One(m = Event[s].code) + (B + One(m = Event[s].exp))
    BY <1>1, <1>2 DEF CountFor
  <1> HIDE DEF A, B
  <1> QED
    BY <1>3, <1>4, <1>5, <1>6

LEMMA CountRelease ==
  ASSUME NEW H \in SUBSET Source, NEW s \in H, NEW m \in Mod
  PROVE  /\ CountFor(H \ {s}, m) =
              CountFor(H, m) - One(m = Event[s].code) - One(m = Event[s].exp)
         /\ CountFor(H, m) >= One(m = Event[s].code) + One(m = Event[s].exp)
  <1>1. s \in Source \ (H \ {s}) /\ H = (H \ {s}) \cup {s}
    OBVIOUS
  <1>2. CountFor(H, m) =
          CountFor(H \ {s}, m) + One(m = Event[s].code) + One(m = Event[s].exp)
    BY <1>1, CountPress
  <1>3. CountFor(H \ {s}, m) \in Nat
    <2>1. /\ Cardinality((H \ {s}) \cap Coders(m)) \in Nat
          /\ Cardinality((H \ {s}) \cap Explicits(m)) \in Nat
      BY HidAssumption, FS_Subset, FS_CardinalityType
    <2> QED
      BY <2>1 DEF CountFor
  <1>4. /\ One(m = Event[s].code) \in Int /\ One(m = Event[s].exp) \in Int
    BY DEF One
  <1> QED
    BY <1>2, <1>3, <1>4

LEMMA CountPositive ==
  ASSUME NEW H \in SUBSET Source, NEW m \in Mod
  PROVE  /\ CountFor(H, m) \in Nat
         /\ (CountFor(H, m) > 0) <=> (\E s \in H : m \in ModsOf(s))
  <1>1. /\ IsFiniteSet(H \cap Coders(m)) /\ IsFiniteSet(H \cap Explicits(m))
        /\ Cardinality(H \cap Coders(m)) \in Nat /\ Cardinality(H \cap Explicits(m)) \in Nat
    BY HidAssumption, FS_Subset, FS_CardinalityType
  <1>2. /\ Cardinality(H \cap Coders(m)) = 0 <=> H \cap Coders(m) = {}
        /\ Cardinality(H \cap Explicits(m)) = 0 <=> H \cap Explicits(m) = {}
    BY <1>1, FS_EmptySet
  <1>3. (\E s \in H : m \in ModsOf(s))
          <=> (H \cap Coders(m) # {} \/ H \cap Explicits(m) # {})
    <2>1. ASSUME NEW s \in H
          PROVE  m \in ModsOf(s) <=> (s \in Coders(m) \/ s \in Explicits(m))
      BY HidAssumption DEF ModsOf, Coders, Explicits
    <2> QED
      BY <2>1
  <1>4. CountFor(H, m) = Cardinality(H \cap Coders(m)) + Cardinality(H \cap Explicits(m))
    BY DEF CountFor
  <1> QED
    BY <1>1, <1>2, <1>3, <1>4

LEMMA NowType ==
  ASSUME Types
  PROVE  Now \in Input /\ Now.r = h /\ Now.view = host[current]
  BY DEF Types, Now, Input

\* What a keycode handler leaves of the hosts.
LEMMA BecomeKnown ==
  ASSUME Types, NEW y \in Input, Become(y), current' = current, OldEndpointKeysReleased
  PROVE  /\ h' = y.r /\ h' \in Reports /\ host' \in [Endpoint -> Views]
         /\ host'[current] = y.view
         /\ \A e \in Endpoint \ {current} : host'[e] = host[e]
         /\ KeysKnown(Now)' <=> KeysKnown(y)
         /\ MediaKnown(Now)' <=> MediaKnown(y)
         /\ ModsKnown(Now)' <=> ModsKnown(y)
         /\ OldEndpointKeysReleased'
  <1>1. /\ h' = y.r /\ h' \in Reports /\ host' \in [Endpoint -> Views]
        /\ host'[current] = y.view
        /\ \A e \in Endpoint \ {current} : host'[e] = host[e]
    BY DEF Types, Become, Input
  <1>2. Now'.r = y.r /\ Now'.view = y.view
    BY <1>1 DEF Now
  <1>3. OldEndpointKeysReleased'
    BY <1>1 DEF OldEndpointKeysReleased
  <1>4. KeysKnown(Now)' <=> KeysKnown(y)
    BY <1>2 DEF KeysKnown, SlotKeys
  <1>5. MediaKnown(Now)' <=> MediaKnown(y)
    BY <1>2 DEF MediaKnown, ReportMedia
  <1>6. ModsKnown(Now)' <=> ModsKnown(y)
    BY <1>2 DEF ModsKnown
  <1> QED
    BY <1>1, <1>3, <1>4, <1>5, <1>6

LEMMA InitOK == Init => IInv
  <1> SUFFICES ASSUME Init PROVE IInv
    OBVIOUS
  <1>1. /\ h.counts = [m \in Mod |-> 0] /\ h.explicit = {} /\ h.slots = [i \in Slot |-> None]
        /\ h.bits = {} /\ h.kbCount = 0 /\ h.bitCount = 0
        /\ h.media = [i \in MediaSlot |-> None]
    BY DEF Init
  <1>2. h \in Reports
    <2>1. /\ [m \in Mod |-> 0] \in CountsType /\ {} \in ModsType
          /\ [i \in Slot |-> None] \in SlotsType /\ {} \in BitsType /\ {} \in FlagsType
          /\ [i \in MediaSlot |-> None] \in MediaType /\ {} \in ButtonsType
      BY DEF CountsType, ModsType, SlotsType, BitsType, FlagsType, MediaType, ButtonsType
    <2>2. 0 \in ByteType /\ [b \in Button |-> 0] \in ClicksType
      BY HidAssumption DEF ByteType, ClicksType
    <2> QED
      BY <2>1, <2>2 DEF Init, Reports
  <1>3. Types
    <2>1. NoInput \in Views
      BY DEF NoInput, Views
    <2> QED
      BY <1>2, <2>1, HidAssumption DEF Init, Types
  <1>4. Counted /\ ExplicitRight(h)
    <2>1. ASSUME NEW m \in Mod PROVE CountFor({}, m) = 0
      BY FS_EmptySet DEF CountFor
    <2> QED
      BY <1>1, <2>1 DEF Init, Counted, ExplicitRight
  <1>5. SlotKeys(h) = {} /\ EmptySlots(h) = Slot /\ ReportMedia(h) = {}
    BY <1>1 DEF SlotKeys, EmptySlots, SlotsOf, ReportMedia
  <1>6. KeysRight(h)
    <2>1. Slot \ EmptySlots(h) = {}
      BY <1>5
    <2> QED
      BY <1>1, <2>1, FS_EmptySet DEF KeysRight
  <1>7. ReportExact /\ Twice
    BY <1>1, <1>5 DEF Init, ReportExact, ReportKeys, Twice
  <1>8. /\ \A e \in Endpoint : host[e] = NoInput
        /\ Now.r = h /\ Now.view = NoInput
    BY HidAssumption DEF Init, Now
  <1>9. KeysKnown(Now) /\ MediaKnown(Now) /\ OldEndpointKeysReleased
    <2>1. NoInput.keys = {} /\ NoInput.bits = {} /\ NoInput.media = {}
      BY DEF NoInput
    <2> QED
      BY <1>1, <1>5, <1>8, <2>1 DEF KeysKnown, MediaKnown, OldEndpointKeysReleased
  <1> QED
    BY <1>3, <1>4, <1>6, <1>7, <1>9 DEF IInv
-----------------------------------------------------------------------------
(* The steps *)

LEMMA PressOK ==
  ASSUME IInv, NEW s \in Source, Press(s)
  PROVE  IInv'
  <1>1. PICK y : y = Pressed(Now, Event[s])
    OBVIOUS
  <1>2. PICK e \in KeycodeEvent : e = Event[s]
    BY HidAssumption
  <1>3. /\ s \notin held /\ held' = held \cup {s} /\ due' = due \cup {s}
        /\ Become(y) /\ UNCHANGED <<current, crossed>>
    BY <1>1 DEF Press
  <1>4. /\ Types /\ Counted /\ ExplicitRight(h) /\ KeysRight(h) /\ ReportExact /\ Twice
        /\ KeysKnown(Now) /\ MediaKnown(Now) /\ OldEndpointKeysReleased
    BY DEF IInv
  <1>5. Now \in Input /\ Now.r = h
    BY <1>4, NowType
  <1>6. /\ HandlerDone(y, Now, e)
        /\ \A m \in Mod : y.r.counts[m] = h.counts[m] + One(m = e.code) + One(m = e.exp)
        /\ e.code \in Key \ Wide => e.code \in ReportKeys(y.r)
        /\ e.code \in SlotKeys(y.r) \cap y.r.bits => e.code \in SlotKeys(h)
    BY <1>1, <1>2, <1>4, <1>5, PressedDoes
  <1>7. /\ y \in Input /\ KeysRight(y.r) /\ ExplicitRight(y.r) /\ KeysKnown(y) /\ MediaKnown(y)
        /\ e.code \notin Key => SlotKeys(y.r) = SlotKeys(h) /\ y.r.bits = h.bits
        /\ e.code \in Key => OthersStay(y.r, h, e.code)
    BY <1>4, <1>5, <1>6 DEF HandlerDone
  <1>8. /\ h' = y.r /\ h' \in Reports /\ host' \in [Endpoint -> Views]
        /\ KeysKnown(Now)' /\ MediaKnown(Now)' /\ OldEndpointKeysReleased'
    BY <1>3, <1>4, <1>7, BecomeKnown
  <1>9. Types'
    BY <1>3, <1>4, <1>8 DEF Types
  <1>10. Counted'
    <2>1. ASSUME NEW m \in Mod PROVE h'.counts[m] = CountFor(held', m)
      BY <1>2, <1>3, <1>4, <1>6, <1>8, CountPress DEF Counted, Types
    <2> QED
      BY <2>1 DEF Counted, CountFor
  <1>11. ExplicitRight(h)' /\ KeysRight(h)'
    BY <1>7, <1>8 DEF ExplicitRight, KeysRight, EmptySlots, SlotsOf
  <1>12. SlotKeys(h') \subseteq Key /\ h'.bits \subseteq Key \ Wide
    BY <1>8 DEF Reports, SlotsType, BitsType, SlotKeys
  <1>13. ASSUME NEW k \in Key, k # e.code
         PROVE  /\ k \in SlotKeys(h') <=> k \in SlotKeys(h)
                /\ k \in h'.bits <=> k \in h.bits
    BY <1>7, <1>8, <1>13 DEF OthersStay
  <1>14. ASSUME NEW t \in due', Event[t].code \in Key \ Wide
         PROVE  Event[t].code \in ReportKeys(h')
    <2>1. CASE Event[t].code = e.code
      BY <1>6, <1>8, <1>14, <2>1
    <2>2. CASE Event[t].code # e.code
      <3>1. t \in due
        BY <1>2, <1>3, <2>2
      <3>2. Event[t].code \in ReportKeys(h)
        BY <1>4, <1>14, <3>1 DEF ReportExact
      <3> QED
        BY <1>13, <1>14, <2>2, <3>2 DEF ReportKeys
    <2> QED
      BY <2>1, <2>2
  <1>15. ASSUME NEW k \in ReportKeys(h') \ Wide
         PROVE  \E t \in held' : Event[t].code = k
    <2>1. CASE k = e.code
      BY <1>2, <1>3, <2>1
    <2>2. CASE k # e.code
      <3>1. k \in ReportKeys(h) \ Wide
        BY <1>12, <1>13, <1>15, <2>2 DEF ReportKeys
      <3>2. \E t \in held : Event[t].code = k
        BY <1>4, <3>1 DEF ReportExact
      <3> QED
        BY <1>3, <3>2
    <2> QED
      BY <2>1, <2>2
  <1>16. ReportExact'
    BY <1>14, <1>15 DEF ReportExact, ReportKeys, SlotKeys
  <1>17. ASSUME NEW k \in SlotKeys(h') \cap h'.bits
         PROVE  \E t, u \in held' : t # u /\ Event[t].code = k /\ Event[u].code = k
    <2>1. k \in Key \ Wide
      BY <1>12
    <2>2. CASE k = e.code
      <3>1. k \in ReportKeys(h) \ Wide
        BY <1>6, <1>8, <2>1, <2>2 DEF ReportKeys
      <3>2. PICK t \in held : Event[t].code = k
        BY <1>4, <3>1 DEF ReportExact
      <3> QED
        BY <1>2, <1>3, <2>2, <3>2
    <2>3. CASE k # e.code
      <3>1. k \in SlotKeys(h) \cap h.bits
        BY <1>13, <2>1, <2>3
      <3> QED
        BY <1>3, <1>4, <3>1 DEF Twice
    <2> QED
      BY <2>2, <2>3
  <1>18. Twice'
    BY <1>17 DEF Twice, SlotKeys
  <1> QED
    BY <1>8, <1>9, <1>10, <1>11, <1>16, <1>18 DEF IInv

LEMMA ReleaseOK ==
  ASSUME IInv, NEW s \in Source, Release(s)
  PROVE  IInv'
  <1>1. PICK y : y = Released(Now, Event[s])
    OBVIOUS
  <1>2. PICK e \in KeycodeEvent : e = Event[s]
    BY HidAssumption
  <1>3. /\ s \in held /\ held' = held \ {s}
        /\ due' = {t \in due : Event[t].code # Event[s].code}
        /\ Become(y) /\ UNCHANGED <<current, crossed>>
    BY <1>1 DEF Release
  <1>4. /\ Types /\ Counted /\ ExplicitRight(h) /\ KeysRight(h) /\ ReportExact /\ Twice
        /\ KeysKnown(Now) /\ MediaKnown(Now) /\ OldEndpointKeysReleased
    BY DEF IInv
  <1>5. Now \in Input /\ Now.r = h
    BY <1>4, NowType
  <1>6. ASSUME NEW m \in Mod
        PROVE  /\ h.counts[m] = CountFor(held, m)
               /\ h.counts[m] >= One(m = e.code) + One(m = e.exp)
               /\ CountFor(held', m) = h.counts[m] - One(m = e.code) - One(m = e.exp)
    BY <1>2, <1>3, <1>4, CountRelease DEF Counted, Types
  <1>7. /\ HandlerDone(y, Now, e)
        /\ \A m \in Mod : y.r.counts[m] = h.counts[m] - One(m = e.code) - One(m = e.exp)
        /\ e.code \in SlotKeys(y.r) \ Wide => e.code \in SlotKeys(h) /\ e.code \in h.bits
        /\ e.code \notin y.r.bits
    BY <1>1, <1>2, <1>4, <1>5, <1>6, ReleasedDoes
  <1>8. /\ y \in Input /\ KeysRight(y.r) /\ ExplicitRight(y.r) /\ KeysKnown(y) /\ MediaKnown(y)
        /\ e.code \notin Key => SlotKeys(y.r) = SlotKeys(h) /\ y.r.bits = h.bits
        /\ e.code \in Key => OthersStay(y.r, h, e.code)
    BY <1>4, <1>5, <1>7 DEF HandlerDone
  <1>9. /\ h' = y.r /\ h' \in Reports /\ host' \in [Endpoint -> Views]
        /\ KeysKnown(Now)' /\ MediaKnown(Now)' /\ OldEndpointKeysReleased'
    BY <1>3, <1>4, <1>8, BecomeKnown
  <1>10. Types'
    <2>1. held' \subseteq Source /\ due' \subseteq held'
      BY <1>3, <1>4 DEF Types
    <2> QED
      BY <1>3, <1>4, <1>9, <2>1 DEF Types
  <1>11. Counted'
    <2>1. ASSUME NEW m \in Mod PROVE h'.counts[m] = CountFor(held', m)
      BY <1>6, <1>7, <1>9
    <2> QED
      BY <2>1 DEF Counted, CountFor
  <1>12. ExplicitRight(h)' /\ KeysRight(h)'
    BY <1>8, <1>9 DEF ExplicitRight, KeysRight, EmptySlots, SlotsOf
  <1>13. SlotKeys(h') \subseteq Key /\ h'.bits \subseteq Key \ Wide
    BY <1>9 DEF Reports, SlotsType, BitsType, SlotKeys
  <1>14. ASSUME NEW k \in Key, k # e.code
         PROVE  /\ k \in SlotKeys(h') <=> k \in SlotKeys(h)
                /\ k \in h'.bits <=> k \in h.bits
    BY <1>8, <1>9, <1>14 DEF OthersStay
  <1>15. ASSUME NEW t \in due', Event[t].code \in Key \ Wide
         PROVE  Event[t].code \in ReportKeys(h')
    <2>1. t \in due /\ Event[t].code # e.code
      BY <1>2, <1>3
    <2>2. Event[t].code \in ReportKeys(h)
      BY <1>4, <1>15, <2>1 DEF ReportExact
    <2> QED
      BY <1>14, <1>15, <2>1, <2>2 DEF ReportKeys
  <1>16. ASSUME NEW k \in ReportKeys(h') \ Wide
         PROVE  \E t \in held' : Event[t].code = k
    <2>1. CASE k = e.code
      <3>1. k \in SlotKeys(h) \cap h.bits
        BY <1>7, <1>9, <1>16, <2>1 DEF ReportKeys
      <3>2. PICK t, u \in held : t # u /\ Event[t].code = k /\ Event[u].code = k
        BY <1>4, <3>1 DEF Twice
      <3> QED
        BY <1>3, <3>2
    <2>2. CASE k # e.code
      <3>1. k \in ReportKeys(h) \ Wide
        BY <1>13, <1>14, <1>16, <2>2 DEF ReportKeys
      <3>2. PICK t \in held : Event[t].code = k
        BY <1>4, <3>1 DEF ReportExact
      <3> QED
        BY <1>2, <1>3, <2>2, <3>2
    <2> QED
      BY <2>1, <2>2
  <1>17. ReportExact'
    BY <1>15, <1>16 DEF ReportExact, ReportKeys, SlotKeys
  <1>18. ASSUME NEW k \in SlotKeys(h') \cap h'.bits
         PROVE  \E t, u \in held' : t # u /\ Event[t].code = k /\ Event[u].code = k
    <2>1. k \in Key /\ k # e.code
      BY <1>7, <1>9, <1>13
    <2>2. k \in SlotKeys(h) \cap h.bits
      BY <1>14, <2>1
    <2>3. PICK t, u \in held : t # u /\ Event[t].code = k /\ Event[u].code = k
      BY <1>4, <2>2 DEF Twice
    <2> QED
      BY <1>2, <1>3, <2>1, <2>3
  <1>19. Twice'
    BY <1>18 DEF Twice, SlotKeys
  <1> QED
    BY <1>9, <1>10, <1>11, <1>12, <1>17, <1>19 DEF IInv

\* &mkp only touches the mouse buttons.
LEMMA ClickOK ==
  ASSUME IInv, NEW counts \in ClicksType, Click(counts)
  PROVE  /\ IInv'
         /\ h'.mods = h.mods /\ h'.explicit = h.explicit /\ h'.implicit = h.implicit
         /\ \A e \in Endpoint : host'[e].mods = host[e].mods
         /\ UNCHANGED <<current, crossed>>
  <1>1. /\ h' = [h EXCEPT !.buttonCounts = counts, !.buttons = Buttons(counts)]
        /\ host' = [host EXCEPT ![current].buttons = Buttons(counts)]
        /\ UNCHANGED <<current, held, due, crossed>>
    BY DEF Click
  <1>2. /\ Types /\ Counted /\ ExplicitRight(h) /\ KeysRight(h) /\ ReportExact /\ Twice
        /\ KeysKnown(Now) /\ MediaKnown(Now) /\ OldEndpointKeysReleased
    BY DEF IInv
  <1>3. Buttons(counts) \in ButtonsType
    BY DEF Buttons, ButtonsType
  <1>4. /\ h' \in Reports /\ SameMods(h', h) /\ SameKeys(h', h) /\ SameMedia(h', h)
    BY <1>1, <1>2, <1>3 DEF Types, Reports, SameMods, SameKeys, SameMedia
  <1>5. /\ host' \in [Endpoint -> Views]
        /\ \A e \in Endpoint :
             /\ host'[e].mods = host[e].mods /\ host'[e].keys = host[e].keys
             /\ host'[e].bits = host[e].bits /\ host'[e].media = host[e].media
    <2> DEFINE v == [host[current] EXCEPT !.buttons = Buttons(counts)]
    <2>1. host' = [host EXCEPT ![current] = v]
      BY <1>1
    <2>2. host[current] \in Views
      BY <1>2 DEF Types
    <2>3. /\ v \in Views /\ v.mods = host[current].mods /\ v.keys = host[current].keys
          /\ v.bits = host[current].bits /\ v.media = host[current].media
      BY <1>3, <2>2 DEF Views, ButtonsType
    <2> HIDE DEF v
    <2> QED
      BY <1>2, <2>1, <2>3 DEF Types
  <1>6. Types' /\ Counted'
    BY <1>1, <1>2, <1>4, <1>5 DEF Types, Counted, SameMods, CountFor
  <1>7. /\ h'.slots = h.slots /\ h'.bits = h.bits
        /\ h'.kbCount = h.kbCount /\ h'.bitCount = h.bitCount
        /\ h'.counts = h.counts /\ h'.explicit = h.explicit /\ h'.media = h.media
    BY <1>4 DEF SameKeys, SameMods, SameMedia
  <1>8. ExplicitRight(h)' /\ KeysRight(h)'
    BY <1>2, <1>7 DEF ExplicitRight, KeysRight, EmptySlots, SlotsOf
  <1>9. ReportExact' /\ Twice'
    BY <1>1, <1>2, <1>7 DEF ReportExact, Twice, ReportKeys, SlotKeys
  <1>10. KeysKnown(Now)' /\ MediaKnown(Now)' /\ OldEndpointKeysReleased'
    <2>1. current \in Endpoint /\ current' = current
      BY <1>1, <1>2 DEF Types
    <2>2. /\ Now.view.keys = SlotKeys(h) /\ Now.view.bits = h.bits
          /\ Now.view.media = ReportMedia(h)
          /\ Now.view = host[current]
      BY <1>2 DEF KeysKnown, MediaKnown, Now
    <2>3. SlotKeys(h') = SlotKeys(h) /\ ReportMedia(h') = ReportMedia(h)
      BY <1>7 DEF SlotKeys, ReportMedia
    <2>4. /\ host'[current].keys = SlotKeys(h') /\ host'[current].bits = h'.bits
          /\ host'[current].media = ReportMedia(h')
      BY <1>5, <1>7, <2>1, <2>2, <2>3
    <2>5. Now'.r = h' /\ Now'.view = host'[current]
      BY <2>1 DEF Now
    <2>6. KeysKnown(Now)' /\ MediaKnown(Now)'
      BY <2>4, <2>5 DEF KeysKnown, MediaKnown, SlotKeys, ReportMedia
    <2>7. OldEndpointKeysReleased'
      BY <1>2, <1>5, <2>1 DEF OldEndpointKeysReleased
    <2> QED
      BY <2>6, <2>7
  <1> QED
    BY <1>1, <1>4, <1>5, <1>6, <1>8, <1>9, <1>10 DEF IInv, SameMods

LEMMA MouseCounts ==
  ASSUME Types, NEW b \in Button
  PROVE  /\ h.buttonCounts[b] < MaxClicks
              => [h.buttonCounts EXCEPT ![b] = @ + 1] \in ClicksType
         /\ h.buttonCounts[b] > 0
              => [h.buttonCounts EXCEPT ![b] = @ - 1] \in ClicksType
  <1>1. h.buttonCounts \in [Button -> 0 .. MaxClicks] /\ MaxClicks \in Nat
    BY HidAssumption DEF Types, Reports, ClicksType
  <1> QED
    BY <1>1 DEF ClicksType

\* What the three of them do to the reports together.
Overwrite(r, m, ss, bs, n, f, ms, bt) ==
  [r EXCEPT !.mods = m, !.slots = ss, !.bits = bs, !.kbCount = n,
            !.bitCount = n, !.changed = f, !.media = ms, !.buttons = bt]

LEMMA Overwritten ==
  ASSUME NEW r \in Reports, NEW m \in ModsType, NEW ss \in SlotsType, NEW bs \in BitsType,
         NEW n \in Int, NEW f \in FlagsType, NEW ms \in MediaType, NEW bt \in ButtonsType,
         NEW q, q = Overwrite(r, m, ss, bs, n, f, ms, bt)
  PROVE  /\ q \in Reports /\ q.counts = r.counts /\ q.explicit = r.explicit
         /\ q.implicit = r.implicit /\ q.mods = m /\ q.slots = ss /\ q.bits = bs
         /\ q.kbCount = n /\ q.bitCount = n /\ q.changed = f /\ q.media = ms
  BY DEF Reports, Overwrite

\* zmk_hid_keyboard_clear, zmk_hid_consumer_clear, zmk_hid_mouse_clear
LEMMA ClearedDoes ==
  ASSUME NEW r \in Reports, KeysRight(r), NEW q, q = Cleared(r)
  PROVE  /\ q \in Reports /\ KeysRight(q)
         /\ q.counts = r.counts /\ q.explicit = r.explicit /\ q.implicit = r.implicit
         /\ q.mods = {} /\ SlotKeys(q) = {} /\ q.bits = {} /\ ReportMedia(q) = {}
         /\ "kb" \notin q.changed => SlotKeys(r) = {}
         /\ "nkro" \notin q.changed => r.bits = {}
  <1>0. PICK none, zero : none = {} /\ zero = 0
    OBVIOUS
  <1> DEFINE ss == [i \in Slot |-> None]
             ms == [i \in MediaSlot |-> None]
             f == r.changed \cup (IF r.kbCount > 0 THEN {"kb"} ELSE {})
                            \cup (IF r.bitCount > 0 THEN {"nkro"} ELSE {})
  <1>1. /\ ss \in SlotsType /\ ms \in MediaType /\ f \in FlagsType
        /\ none \in ModsType /\ none \in BitsType /\ none \in ButtonsType /\ zero \in Int
    BY <1>0 DEF SlotsType, MediaType, FlagsType, ModsType, BitsType, ButtonsType, Reports
  <1>2. q = Overwrite(r, none, ss, none, zero, f, ms, none)
    BY <1>0 DEF Cleared, Overwrite
  <1>3. /\ "kb" \notin f => ~(r.kbCount > 0)
        /\ "nkro" \notin f => ~(r.bitCount > 0)
    OBVIOUS
  <1>4. (\A i \in Slot : ss[i] = None) /\ (\A i \in MediaSlot : ms[i] = None)
    OBVIOUS
  <1> HIDE DEF ss, ms, f
  <1>5. /\ q \in Reports /\ q.counts = r.counts /\ q.explicit = r.explicit
        /\ q.implicit = r.implicit /\ q.mods = none /\ q.slots = ss /\ q.bits = none
        /\ q.kbCount = zero /\ q.bitCount = zero /\ q.changed = f /\ q.media = ms
    BY <1>1, <1>2, Overwritten
  <1>6. SlotKeys(q) = {} /\ ReportMedia(q) = {} /\ EmptySlots(q) = Slot
    BY <1>4, <1>5 DEF SlotKeys, ReportMedia, EmptySlots, SlotsOf
  <1>7. KeysRight(q)
    <2>1. Slot \ EmptySlots(q) = {}
      BY <1>6
    <2> QED
      BY <1>0, <1>5, <2>1, FS_EmptySet DEF KeysRight
  <1>8. ~(r.kbCount > 0) => SlotKeys(r) = {}
    <2> SUFFICES ASSUME ~(r.kbCount > 0) PROVE SlotKeys(r) = {}
      OBVIOUS
    <2>1. IsFiniteSet(Slot \ EmptySlots(r)) /\ Cardinality(Slot \ EmptySlots(r)) \in Nat
      BY SlotsFinite
    <2>2. Slot \ EmptySlots(r) = {}
      BY <2>1, FS_EmptySet DEF KeysRight
    <2> QED
      BY <2>2 DEF EmptySlots, SlotsOf, SlotKeys
  <1>9. ~(r.bitCount > 0) => r.bits = {}
    BY BitsCounted
  <1> QED
    BY <1>0, <1>3, <1>5, <1>6, <1>7, <1>8, <1>9

\* Another endpoint: the old one is told that nothing is pressed any more, and
\* the new one has been told so before.
LEMMA SwitchOK ==
  ASSUME IInv, NEW e \in Endpoint, SwitchEndpoint(e)
  PROVE  /\ IInv'
         /\ h'.mods = {} /\ h'.explicit = h.explicit /\ h'.implicit = h.implicit
         /\ ModsKnown(Now) /\ h.mods = {} => host'[current].mods = {}
         /\ \A d \in Endpoint \ {current} : host'[d] = host[d]
         /\ current' = e /\ e # current
         /\ crossed' = (crossed \/ h.explicit # {})
  <1> DEFINE q == Cleared(h)
             w == With(Now, q)
             z == SendKeyboard(w)
             x == SendMedia(z)
             v == IF current \in Dropped THEN NoInput ELSE x.view
  <1>1. /\ e # current /\ h' = x.r /\ host' = [host EXCEPT ![current] = v]
        /\ current' = e /\ due' = {} /\ crossed' = (crossed \/ h.explicit # {})
        /\ held' = held
    BY DEF SwitchEndpoint
  <1>2. /\ Types /\ Counted /\ ExplicitRight(h) /\ KeysRight(h)
        /\ KeysKnown(Now) /\ MediaKnown(Now) /\ OldEndpointKeysReleased
    BY DEF IInv
  <1>3. Now \in Input /\ Now.r = h /\ Now.view = host[current] /\ h \in Reports
    BY <1>2, NowType DEF Types
  <1>4. /\ q \in Reports /\ KeysRight(q)
        /\ q.counts = h.counts /\ q.explicit = h.explicit /\ q.implicit = h.implicit
        /\ q.mods = {} /\ SlotKeys(q) = {} /\ q.bits = {} /\ ReportMedia(q) = {}
        /\ "kb" \notin q.changed => SlotKeys(h) = {}
        /\ "nkro" \notin q.changed => h.bits = {}
    BY <1>2, <1>3, ClearedDoes
  <1> HIDE DEF q
  <1>5. w \in Input /\ w.r = q /\ w.view = Now.view
    BY <1>3, <1>4 DEF With, Input
  <1>6. KeysPending(w)
    BY <1>2, <1>3, <1>4, <1>5 DEF KeysPending, KeysKnown
  <1>7. ModsKnown(Now) /\ h.mods = {} => ModsPending(w)
    BY <1>3, <1>4, <1>5 DEF ModsPending, ModsKnown
  <1> HIDE DEF w
  <1>8. /\ z \in Input /\ SameReports(z.r, q)
        /\ KeysKnown(z)
        /\ ModsPending(w) => ModsKnown(z)
    BY <1>5, <1>6, SendKeyboardDoes
  <1> HIDE DEF z
  <1>9. /\ x \in Input /\ x.r = z.r /\ MediaKnown(x)
        /\ x.view.mods = z.view.mods
        /\ x.view.keys = z.view.keys /\ x.view.bits = z.view.bits
    BY <1>8, SendMediaDoes
  <1> HIDE DEF x
  <1>10. /\ h' \in Reports /\ h'.counts = h.counts /\ h'.explicit = h.explicit
         /\ h'.implicit = h.implicit /\ h'.mods = {} /\ SlotKeys(h') = {} /\ h'.bits = {}
         /\ ReportMedia(h') = {} /\ KeysRight(h')
    <2>1. /\ KeysRight(z.r) /\ SlotKeys(z.r) = {} /\ z.r.bits = {} /\ z.r.mods = {}
          /\ z.r.counts = h.counts
      BY <1>4, <1>8, SameReportsKeep
    <2>2. ReportMedia(z.r) = {}
      BY <1>4, <1>8 DEF SameReports, SameMedia, ReportMedia
    <2>3. z.r.explicit = h.explicit /\ z.r.implicit = h.implicit /\ z.r \in Reports
      BY <1>4, <1>8 DEF SameReports, SameMods
    <2> QED
      BY <1>1, <1>9, <2>1, <2>2, <2>3
  <1>11. /\ v \in Views /\ v.keys = {} /\ v.bits = {} /\ v.media = {}
         /\ ModsKnown(Now) /\ h.mods = {} => v.mods = {}
    <2>1. /\ NoInput \in Views /\ NoInput.keys = {} /\ NoInput.bits = {}
          /\ NoInput.media = {} /\ NoInput.mods = {}
      BY DEF NoInput, Views
    <2>2. /\ x.view \in Views /\ x.view.keys = {} /\ x.view.bits = {} /\ x.view.media = {}
      BY <1>1, <1>8, <1>9, <1>10 DEF KeysKnown, MediaKnown, Input
    <2>3. ModsKnown(Now) /\ h.mods = {} => x.view.mods = {}
      BY <1>1, <1>7, <1>8, <1>9, <1>10 DEF ModsKnown
    <2> QED
      BY <2>1, <2>2, <2>3
  <1> HIDE DEF v
  <1>12. /\ host' \in [Endpoint -> Views] /\ host'[current] = v
         /\ \A d \in Endpoint \ {current} : host'[d] = host[d]
    BY <1>1, <1>2, <1>11 DEF Types
  <1>13. Types'
    BY <1>1, <1>2, <1>10, <1>12 DEF Types
  <1>14. Counted' /\ ExplicitRight(h)' /\ KeysRight(h)'
    BY <1>1, <1>2, <1>10 DEF Counted, ExplicitRight, CountFor, KeysRight, EmptySlots, SlotsOf
  <1>15. ReportExact' /\ Twice'
    BY <1>1, <1>10 DEF ReportExact, Twice, ReportKeys, SlotKeys
  <1>16. Now'.r = h' /\ Now'.view = host[e]
    BY <1>1, <1>12 DEF Now
  <1>17. host[e].keys = {} /\ host[e].bits = {} /\ host[e].media = {}
    BY <1>1, <1>2 DEF OldEndpointKeysReleased
  <1>18. KeysKnown(Now)' /\ MediaKnown(Now)'
    BY <1>10, <1>16, <1>17 DEF KeysKnown, MediaKnown, SlotKeys, ReportMedia
  <1>19. OldEndpointKeysReleased'
    BY <1>1, <1>2, <1>11, <1>12 DEF OldEndpointKeysReleased
  <1> QED
    BY <1>1, <1>10, <1>11, <1>12, <1>13, <1>14, <1>15, <1>18, <1>19 DEF IInv

LEMMA StepOK == IInv /\ [Next]_vars => IInv'
  <1> SUFFICES ASSUME IInv, [Next]_vars PROVE IInv'
    OBVIOUS
  <1>1. CASE UNCHANGED vars
    BY <1>1 DEF vars, IInv, Types, Counted, CountFor, ExplicitRight, KeysRight, EmptySlots,
       SlotsOf, ReportExact, Twice, ReportKeys, SlotKeys, KeysKnown, MediaKnown, ReportMedia,
       Now, OldEndpointKeysReleased
  <1>2. ASSUME NEW b \in Button, MousePress(b) \/ MouseRelease(b) PROVE IInv'
    <2>1. Types
      BY DEF IInv
    <2>2. \E counts \in ClicksType : Click(counts)
      BY <1>2, <2>1, MouseCounts DEF MousePress, MouseRelease
    <2> QED
      BY <2>2, ClickOK
  <1> QED
    BY <1>1, <1>2, PressOK, ReleaseOK, SwitchOK DEF Next

LEMMA InvAlways == Spec => []IInv
  BY InitOK, StepOK, PTL DEF Spec

\* The counts are what they count, so they stay within their bounds.
LEMMA IInvSound == IInv => HidSound
  <1> SUFFICES ASSUME IInv PROVE HidSound
    OBVIOUS
  <1>1. Types /\ Counted /\ ExplicitRight(h) /\ KeysRight(h)
    BY DEF IInv
  <1>2. h.counts \in [Mod -> Nat]
    <2>1. \A m \in Mod : h.counts[m] \in Nat
      BY <1>1, CountPositive DEF Counted, Types
    <2> QED
      BY <1>1, <2>1 DEF Types, Reports, CountsType
  <1>3. h.kbCount \in 0 .. KbSize /\ h.bitCount \in 0 .. Cardinality(Key)
    BY <1>1, SlotsFinite, BitsFinite DEF KeysRight, Types, Reports, BitsType
  <1>4. TypeOK
    <2> USE DEF Reports
    <2>1. /\ h.explicit \in SUBSET Mod /\ h.implicit \in SUBSET Mod /\ h.mods \in SUBSET Mod
          /\ h.slots \in [Slot -> Key \cup {None}] /\ h.bits \in SUBSET (Key \ Wide)
          /\ h.changed \in SUBSET {"kb", "nkro"} /\ h.keysHeld \in 0 .. ByteSize - 1
      BY <1>1 DEF Types, ModsType, SlotsType, BitsType, FlagsType, ByteType
    <2>2. /\ h.media \in [MediaSlot -> Media \cup {None}] /\ h.buttons \in SUBSET Button
          /\ h.buttonCounts \in [Button -> 0 .. MaxClicks]
      BY <1>1 DEF Types, MediaType, ButtonsType, ClicksType
    <2> DEFINE T1 == [Mod -> Nat]
               T2 == SUBSET Mod
               T3 == [Slot -> Key \cup {None}]
               T4 == SUBSET (Key \ Wide)
               T5 == 0 .. KbSize
               T6 == 0 .. Cardinality(Key)
               T7 == SUBSET {"kb", "nkro"}
               T8 == 0 .. ByteSize - 1
               T9 == [MediaSlot -> Media \cup {None}]
               T10 == SUBSET Button
               T11 == [Button -> 0 .. MaxClicks]
    <2>3. /\ h.counts \in T1 /\ h.explicit \in T2 /\ h.implicit \in T2 /\ h.mods \in T2
          /\ h.slots \in T3 /\ h.bits \in T4 /\ h.kbCount \in T5 /\ h.bitCount \in T6
          /\ h.changed \in T7 /\ h.keysHeld \in T8 /\ h.media \in T9
          /\ h.buttons \in T10 /\ h.buttonCounts \in T11
      BY <1>2, <1>3, <2>1, <2>2
    <2> HIDE DEF T1, T2, T3, T4, T5, T6, T7, T8, T9, T10, T11
    <2>4. h \in [counts : T1, explicit : T2, implicit : T2, mods : T2, slots : T3,
                 bits : T4, kbCount : T5, bitCount : T6, changed : T7, keysHeld : T8,
                 media : T9, buttons : T10, buttonCounts : T11]
      BY <1>1, <2>3 DEF Types
    <2> USE DEF T1, T2, T3, T4, T5, T6, T7, T8, T9, T10, T11
    <2>5. h \in [counts : [Mod -> Nat], explicit : SUBSET Mod, implicit : SUBSET Mod,
            mods : SUBSET Mod, slots : [Slot -> Key \cup {None}],
            bits : SUBSET (Key \ Wide), kbCount : 0 .. KbSize, bitCount : 0 .. Cardinality(Key),
            changed : SUBSET {"kb", "nkro"}, keysHeld : 0 .. ByteSize - 1,
            media : [MediaSlot -> Media \cup {None}],
            buttons : SUBSET Button, buttonCounts : [Button -> 0 .. MaxClicks]]
      BY <2>4, Zenon
    <2> QED
      BY <1>1, <2>5, Zenon DEF Types, TypeOK, Views
  <1>5. ModsExact
    <2>1. ASSUME NEW m \in Mod
          PROVE  (m \in h.explicit) <=> (\E s \in held : m \in ModsOf(s))
      <3>1. /\ (m \in h.explicit) <=> (h.counts[m] > 0)
            /\ h.counts[m] = CountFor(held, m)
        BY <1>1 DEF ExplicitRight, Counted
      <3>2. (CountFor(held, m) > 0) <=> (\E s \in held : m \in ModsOf(s))
        BY <1>1, CountPositive DEF Types
      <3> QED
        BY <3>1, <3>2
    <2> QED
      BY <2>1 DEF ModsExact
  <1>6. CountsExact
    BY <1>1 DEF KeysRight, CountsExact
  <1> QED
    BY <1>4, <1>5, <1>6 DEF HidSound

\* The reports have their types, the explicit modifiers are those of the pressed
\* sources however they overlap, and the counts of slots and bits are exact
\* (zmk_hid_register_mod, select_keyboard_usage in hid_keychron.c).
THEOREM ReportsSound == Spec => []HidSound
  BY InvAlways, IInvSound, PTL

\* No pressed key is missing from the reports and none stays behind, as keys move
\* between the slots and the bits (hid_listener.c and hid_keychron.c).
THEOREM KeysExact == Spec => []ReportExact
  <1>1. IInv => ReportExact
    BY DEF IInv
  <1> QED
    BY InvAlways, <1>1, PTL

\* The current host knows the keys and the consumer usages, although only flagged
\* reports are sent (send_keyboard_report in endpoints.c).
THEOREM HostKnowsKeys == Spec => []HostKeysInSync
  <1>1. IInv => HostKeysInSync
    <2> SUFFICES ASSUME IInv PROVE HostKeysInSync
      OBVIOUS
    <2>1. Now.r = h /\ Now.view = host[current]
      BY NowType DEF IInv
    <2> QED
      BY <2>1 DEF IInv, KeysKnown, MediaKnown, HostKeysInSync
  <1> QED
    BY InvAlways, <1>1, PTL

\* Changing endpoint leaves no key on the old one (disconnect_current_endpoint).
THEOREM OldEndpointForgetsKeys == Spec => []OldEndpointKeysReleased
  <1>1. IInv => OldEndpointKeysReleased
    BY DEF IInv
  <1> QED
    BY InvAlways, <1>1, PTL
-----------------------------------------------------------------------------
(* The modifiers the host knows *)

\* No event carries implicit modifiers. With them the host is not always told,
\* which is what a run shows.
NoImplicit == \A s \in Source : Event[s].imp = {}

\* As long as no endpoint was left with a modifier held, the report's modifiers
\* are the explicit ones and every host knows those that concern it.
ModsInv == ~crossed =>
  /\ Plain(h) /\ ModsKnown(Now)
  /\ \A e \in Endpoint \ {current} : host[e].mods = {}

LEMMA ModsHandled ==
  ASSUME IInv, ModsInv, NEW e \in KeycodeEvent, e.imp = {}, NEW y \in Input,
         HandlerDone(y, Now, e), Become(y), UNCHANGED <<current, crossed>>
  PROVE  ModsInv'
  <1> SUFFICES ASSUME ~crossed' PROVE ModsInv'
    BY DEF ModsInv
  <1>1. Types /\ OldEndpointKeysReleased /\ Now.r = h
    BY NowType DEF IInv
  <1>2. /\ Plain(h) /\ ModsKnown(Now)
        /\ \A d \in Endpoint \ {current} : host[d].mods = {}
    BY DEF ModsInv
  <1>3. ModsKnown(y) /\ Plain(y.r)
    BY <1>1, <1>2 DEF HandlerDone
  <1>4. /\ h' = y.r /\ ModsKnown(Now)'
        /\ \A d \in Endpoint \ {current} : host'[d] = host[d]
    BY <1>1, <1>3, BecomeKnown
  <1>5. Plain(h)'
    BY <1>3, <1>4 DEF Plain
  <1> QED
    BY <1>2, <1>4, <1>5 DEF ModsInv

LEMMA ModsStep ==
  ASSUME NoImplicit, IInv, ModsInv, [Next]_vars
  PROVE  ModsInv'
  <1>0. Types /\ KeysRight(h) /\ Counted /\ Now \in Input /\ Now.r = h /\ Now.view = host[current]
    BY NowType DEF IInv
  <1>1. CASE UNCHANGED vars
    BY <1>1 DEF vars, ModsInv, Plain, ModsKnown, Now
  <1>2. ASSUME NEW s \in Source, Press(s) PROVE ModsInv'
    <2>1. PICK y : y = Pressed(Now, Event[s])
      OBVIOUS
    <2>2. PICK e \in KeycodeEvent : e = Event[s]
      BY HidAssumption
    <2>3. HandlerDone(y, Now, e)
      BY <1>0, <2>1, <2>2, PressedDoes
    <2>4. y \in Input /\ e.imp = {} /\ Become(y) /\ UNCHANGED <<current, crossed>>
      BY <1>2, <2>1, <2>2, <2>3 DEF Press, NoImplicit, HandlerDone
    <2> QED
      BY <2>3, <2>4, ModsHandled
  <1>3. ASSUME NEW s \in Source, Release(s) PROVE ModsInv'
    <2>1. PICK y : y = Released(Now, Event[s])
      OBVIOUS
    <2>2. PICK e \in KeycodeEvent : e = Event[s]
      BY HidAssumption
    <2>3. \A m \in Mod : h.counts[m] >= One(m = e.code) + One(m = e.exp)
      BY <1>0, <1>3, <2>2, CountRelease DEF Counted, Types, Release
    <2>4. HandlerDone(y, Now, e)
      BY <1>0, <2>1, <2>2, <2>3, ReleasedDoes
    <2>5. y \in Input /\ e.imp = {} /\ Become(y) /\ UNCHANGED <<current, crossed>>
      BY <1>3, <2>1, <2>2, <2>4 DEF Release, NoImplicit, HandlerDone
    <2> QED
      BY <2>4, <2>5, ModsHandled
  <1>4. ASSUME NEW b \in Button, MousePress(b) \/ MouseRelease(b) PROVE ModsInv'
    <2>1. PICK counts \in ClicksType : Click(counts)
      BY <1>0, <1>4, MouseCounts DEF MousePress, MouseRelease
    <2>2. /\ h'.mods = h.mods /\ h'.explicit = h.explicit /\ h'.implicit = h.implicit
          /\ \A e \in Endpoint : host'[e].mods = host[e].mods
          /\ UNCHANGED <<current, crossed>> /\ current \in Endpoint
      BY <1>0, <2>1, ClickOK DEF Types
    <2>3. Now'.r = h' /\ Now'.view = host'[current]
      BY <2>2 DEF Now
    <2> QED
      BY <1>0, <2>2, <2>3 DEF ModsInv, Plain, ModsKnown
  <1>5. ASSUME NEW e \in Endpoint, SwitchEndpoint(e) PROVE ModsInv'
    <2> SUFFICES ASSUME ~crossed' PROVE ModsInv'
      BY DEF ModsInv
    <2>1. /\ h'.mods = {} /\ h'.explicit = h.explicit /\ h'.implicit = h.implicit
          /\ ModsKnown(Now) /\ h.mods = {} => host'[current].mods = {}
          /\ \A d \in Endpoint \ {current} : host'[d] = host[d]
          /\ current' = e /\ e # current
          /\ ~crossed /\ h.explicit = {}
      BY <1>5, SwitchOK
    <2>2. /\ h.implicit = {} /\ h.mods = {} /\ ModsKnown(Now)
          /\ \A d \in Endpoint \ {current} : host[d].mods = {}
      BY <2>1 DEF ModsInv, Plain
    <2>3. Now'.r = h' /\ Now'.view = host'[e]
      BY <2>1 DEF Now
    <2>4. \A d \in Endpoint : host'[d].mods = {}
      BY <2>1, <2>2
    <2> QED
      BY <2>1, <2>2, <2>3, <2>4 DEF ModsInv, Plain, ModsKnown
  <1> QED
    BY <1>1, <1>2, <1>3, <1>4, <1>5 DEF Next

\* If no event carries implicit modifiers and no endpoint was left with a modifier
\* held, the current host knows the modifiers too.
THEOREM HostKnowsAll ==
  ASSUME NoImplicit
  PROVE  Spec => []HostInSync
  <1>1. Init => IInv /\ ModsInv
    <2> SUFFICES ASSUME Init PROVE ModsInv
      BY InitOK
    <2>1. /\ h.implicit = {} /\ h.mods = {} /\ h.explicit = {}
          /\ \A e \in Endpoint : host[e].mods = {}
          /\ current \in Endpoint
      BY HidAssumption DEF Init, NoInput
    <2> QED
      BY <2>1 DEF ModsInv, Plain, ModsKnown, Now
  <1>2. IInv /\ ModsInv /\ [Next]_vars => (IInv /\ ModsInv)'
    BY StepOK, ModsStep
  <1>3. IInv /\ ModsInv => HostInSync
    <2> SUFFICES ASSUME IInv, ModsInv PROVE HostInSync
      OBVIOUS
    <2>1. Now.r = h /\ Now.view = host[current]
      BY NowType DEF IInv
    <2> QED
      BY <2>1 DEF IInv, KeysKnown, MediaKnown, ModsInv, ModsKnown, HostInSync,
         HostKeysInSync, HostModsInSync
  <1> QED
    BY <1>1, <1>2, <1>3, PTL DEF Spec
=============================================================================
