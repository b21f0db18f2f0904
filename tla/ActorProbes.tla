---------------------------- MODULE ActorProbes ----------------------------
(***************************************************************************)
(* Actor observation: tools/erl_hls_tools/topology_debug_actors.py.  It    *)
(* accepts a compiler projection of the actors, exports the bits that      *)
(* carry them as one vector of taps, and generates the logic that cuts the *)
(* vector up again and answers a query with one row of one bank.           *)
(*                                                                         *)
(* A bank is [kind, slots, width, phase, pending, failure, reduction,      *)
(* mailbox, at, live]: offsets of the state fields, the packed collection  *)
(* metadata (or None), whether mailboxes are observed (in a direct bank at *)
(* the offset "at"), and whether the state is sampled live.  A reduction   *)
(* is [live, fields, extent, sites, size, mask]: are its offsets those of  *)
(* the live row, <<offset, width>> of each field, the width it claims, and *)
(* how many sites it has, how many members the largest, and whether their  *)
(* number is known at run time.  A net is what elaboration found on the    *)
(* bank's ports.  A bit is <<bank, port, position>>.                       *)
(***************************************************************************)
EXTENDS Integers, Sequences, FiniteSets, SequencesExt

CONSTANT None

Bit(b, port, i) == <<b, port, i>>
Bits(b, port, n) == [i \in 1 .. n |-> Bit(b, port, i - 1)]
Zero == Bit(0, "zero", 0)
Written == Bit(0, "written", 0)

Positions(offset, size) == [i \in 1 .. size |-> offset + i - 1]
Flat(seqs) == FoldLeft(LAMBDA s, t : s \o t, << >>, seqs)
Distinct(s) == Cardinality(Range(s)) = Len(s)

-----------------------------------------------------------------------------
(* check_write_contract(): the address, data and enable of the memory,     *)
(* through the muxes that disable them.                                    *)

RECURSIVE Selected(_, _, _, _)
Selected(muxes, signal, enabled, seen) ==
    IF signal \in seen THEN None
    ELSE LET through == {m \in muxes : m.y = signal /\ m.s = "wr_en"} IN
         IF through = {} THEN signal
         ELSE LET m == CHOOSE x \in through : TRUE IN
              Selected(muxes, IF enabled THEN m.b ELSE m.a, enabled, seen \cup {signal})

WriteContract(ram) ==
    LET When(signal, enabled) == Selected(ram.muxes, signal, enabled, {}) IN
    /\ ram.clocked
    /\ When(ram.addr, TRUE) = "wr_addr" /\ When(ram.data, TRUE) = "wr_data"
    /\ When(ram.en, TRUE) = "1" /\ When(ram.en, FALSE) = "0"

(* What the contract has to mean, for every value the signals can take.    *)
Signals(ram) == {"wr_en", "wr_addr", "wr_data", "0", "1", ram.addr, ram.data, ram.en}
    \cup UNION {{m.y, m.a, m.b, m.s} : m \in ram.muxes}

WriteExact(ram) ==
    WriteContract(ram) =>
      \A v \in [Signals(ram) -> {0, 1}] :
        (/\ v["0"] = 0 /\ v["1"] = 1
         /\ \A m \in ram.muxes : v[m.y] = IF v[m.s] = 1 THEN v[m.b] ELSE v[m.a])
        => /\ v[ram.en] = v["wr_en"]
           /\ v["wr_en"] = 1 => v[ram.addr] = v["wr_addr"] /\ v[ram.data] = v["wr_data"]

-----------------------------------------------------------------------------
Least == <<2, 1, 32, 1, 16, 1, 1>>       \* status, site, key, remaining, failure, expected, seen
Most == <<2, 8, 32, 8, 16, 255, 255>>

Extent(r) == FoldLeft(LAMBDA n, f : n + f[2], 0, r.fields)
FieldBits(r) == Flat([n \in DOMAIN r.fields |-> Positions(r.fields[n][1], r.fields[n][2])])

(* reduction_bits(): the bits, or None.                                    *)
ReductionBits(r, width) ==
    IF /\ \/ Len(r.fields) = 5
          \/ Len(r.fields) = 6 /\ r.mask
          \/ Len(r.fields) = 7 /\ r.mask /\ r.fields[7][2] = r.fields[6][2]
       /\ \A n \in DOMAIN r.fields :
            LET f == r.fields[n] IN f[2] \in Least[n] .. Most[n] /\ f[1] \in 0 .. width - f[2]
       /\ r.extent = Extent(r) /\ r.extent <= 72
       /\ r.sites \in 1 .. 2 ^ r.fields[2][2]
       /\ r.size \in 1 .. 2 ^ r.fields[4][2] - 1
       /\ (Len(r.fields) > 5) => r.size <= r.fields[6][2]
    THEN FieldBits(r) ELSE None

LiveCollection(bank) == bank.reduction # None /\ bank.reduction.live

(* The RAM's part of a reduction. *)
RamReductionWidth(bank) ==
    IF bank.reduction = None \/ LiveCollection(bank) THEN 0 ELSE bank.reduction.extent

StateBits(bank) ==
    Positions(bank.phase, 8) \o Positions(bank.pending, 1) \o Positions(bank.failure, 16)

StateFits(bank) ==
    /\ bank.phase \in 0 .. bank.width - 8 /\ bank.pending \in 0 .. bank.width - 1
    /\ bank.failure \in 0 .. bank.width - 16

LiveWidth(bank) == 26 + bank.reduction.extent

(* selected_fields(): disjoint fields of the state word, or None.  Live    *)
(* metadata has offsets of its own, above the 26 bits of the live state.   *)
SelectedFields(bank) ==
    LET r == bank.reduction
        packed == IF r = None THEN << >>
                  ELSE ReductionBits(r, IF r.live THEN LiveWidth(bank) ELSE bank.width)
        chosen == StateBits(bank) \o IF r = None \/ packed = None \/ r.live THEN << >> ELSE packed
    IN IF /\ StateFits(bank) /\ packed # None /\ Distinct(chosen)
          /\ LiveCollection(bank) =>
               bank.live /\ Distinct(packed) /\ \A i \in Range(packed) : i >= 26
       THEN chosen ELSE None

AddressWidth(bank) ==
    IF bank.kind = "direct" THEN 1
    ELSE CHOOSE w \in 1 .. bank.slots : 2 ^ w >= bank.slots /\ (w = 1 \/ 2 ^ (w - 1) < bank.slots)

(* ram_source(), direct_source(), sampled_array_source(): ports of the     *)
(* right width, on the observed clock, always ready.                       *)
SourceBound(bank, net) ==
    /\ net.clock /\ net.data = bank.width
    /\ IF bank.kind = "direct" THEN bank.slots = 1 /\ bank.mailbox /\ net.ready
       ELSE net.wired /\ net.addr = AddressWidth(bank)
    /\ bank.mailbox /\ bank.kind = "shared" => net.ready /\ net.mailbox = 24 * bank.slots
    /\ bank.live => net.ready /\ net.live = LiveWidth(bank) * bank.slots

(* discover(), for one bank. *)
Accepts(bank, net) ==
    LET selected == SelectedFields(bank)
        box == Positions(bank.at, 24)
    IN /\ bank.slots >= 1 /\ bank.width >= (IF bank.kind = "direct" THEN 49 ELSE 33)
       /\ bank.live => bank.kind = "shared" /\ bank.reduction # None
       /\ selected # None /\ SourceBound(bank, net)
       /\ bank.kind = "direct" =>
            /\ bank.at \in 0 .. bank.width - 24
            /\ Range(selected) \cap Range(box) = {} /\ Len(selected) + 24 = bank.width

Prefix(b, bank, net) ==
    IF bank.kind = "direct" THEN <<Bit(b, "vld", 0), Zero>>
    ELSE <<Bit(b, "wr_en", 0)>> \o Bits(b, "wr_addr", net.addr)

MailboxTaps(b, bank, net) ==
    IF ~bank.mailbox THEN << >>
    ELSE IF bank.kind = "direct"
         THEN <<Bit(b, "vld", 0)>> \o [i \in 1 .. 24 |-> Bit(b, "data", bank.at + i - 1)]
         ELSE <<Bit(b, "mailbox_vld", 0)>> \o Bits(b, "mailbox", net.mailbox)

LiveTaps(b, bank, net) ==
    IF bank.live THEN <<Bit(b, "live_vld", 0)>> \o Bits(b, "live", net.live) ELSE << >>

Taps(b, bank, net) ==
    LET selected == SelectedFields(bank) IN
    Prefix(b, bank, net) \o [n \in DOMAIN selected |-> Bit(b, "data", selected[n])]
      \o MailboxTaps(b, bank, net) \o LiveTaps(b, bank, net)

Discover(banks, nets) ==
    IF /\ banks # << >>
       /\ \A b \in DOMAIN banks : Accepts(banks[b], nets[b])
    THEN [b \in DOMAIN banks |->
            [bank |-> banks[b], taps |-> Taps(b, banks[b], nets[b]), aw |-> AddressWidth(banks[b])]]
    ELSE << >>

-----------------------------------------------------------------------------
(* measure_topology_debug.py, actor_state: the same banks, without their   *)
(* mailboxes.                                                              *)
WithoutMailboxes(found) ==
    [b \in DOMAIN found |->
       LET bank == found[b].bank
           start == 1 + found[b].aw + 25 + RamReductionWidth(bank)
           size == IF bank.mailbox THEN 1 + 24 * bank.slots ELSE 0
           taps == found[b].taps
       IN [found[b] EXCEPT !.bank.mailbox = FALSE,
             !.taps = SubSeq(taps, 1, start) \o SubSeq(taps, start + size + 1, Len(taps))]]

(* resources(): one for each slot, numbered after the physical ones.       *)
ResourceWidth(bank) ==
    IF bank.reduction # None THEN 56 + bank.reduction.extent
    ELSE IF bank.mailbox THEN 56 ELSE 26

First(found, first, b) ==
    FoldLeft(LAMBDA n, x : n + x.bank.slots, first, SubSeq(found, 1, b - 1))

(* wrapper(): where a bank's slices start in the vector of all taps.       *)
TapOffset(found, b) == FoldLeft(LAMBDA n, x : n + Len(x.taps), 0, SubSeq(found, 1, b - 1))

WriteWidth(bank) == 25 + RamReductionWidth(bank)
MailboxOffset(found, b) ==
    TapOffset(found, b) + 1 + found[b].aw + WriteWidth(found[b].bank)

(* Mutant: the live sample where it is without mailboxes. *)
LiveOffsetFixed(found, b) == MailboxOffset(found, b)

LiveOffset(found, b) ==
    MailboxOffset(found, b) + IF found[b].bank.mailbox THEN 1 + 24 * found[b].bank.slots ELSE 0

(* The generated read of one bank: an answer's bit is <<enable, address,   *)
(* bit, row>>, the bit kept in the row that the address named, or <<valid, *)
(* <<>>, bit, 0>>, a bit of an array kept whole.  Blank is a constant.     *)
Blank == <<Zero, << >>, Zero, 0>>
Whole(valid, bits) == [i \in DOMAIN bits |-> <<valid, << >>, bits[i], 0>>]
Blanks(n) == [i \in 1 .. n |-> Blank]

Read(found, first, b, id) ==
    LET vector == Flat([n \in DOMAIN found |-> found[n].taps])
        Slice(from, size) == SubSeq(vector, from + 1, from + size)
        bank == found[b].bank
        aw == found[b].aw
        rowBase == First(found, first, b) % 2 ^ aw
        row == (id - rowBase) % 2 ^ aw
        offset == TapOffset(found, b)
        address == Slice(offset + 1, aw)
        value == Slice(offset + 1 + aw, WriteWidth(bank))
        Kept(bits) == [i \in DOMAIN bits |-> <<vector[offset + 1], address, bits[i], row>>]
        box == MailboxOffset(found, b)
        boxes == IF bank.mailbox THEN Whole(vector[box + 1], Slice(box + 1 + 24 * row, 24))
                 ELSE Blanks(24)
        live == LiveOffset(found, b)
        rowBits == Slice(live + 1 + LiveWidth(bank) * row, LiveWidth(bank))
        packed == IF bank.reduction.live
                  THEN Flat([n \in DOMAIN bank.reduction.fields |->
                          SubSeq(rowBits, bank.reduction.fields[n][1] + 1,
                                 bank.reduction.fields[n][1] + bank.reduction.fields[n][2])])
                  ELSE SubSeq(rowBits, 27, 26 + bank.reduction.extent)
        answer == IF bank.live
                  THEN Whole(vector[live + 1], SubSeq(rowBits, 1, 26)) \o Blanks(6) \o boxes
                         \o Whole(vector[live + 1], packed)
                  ELSE Kept(SubSeq(value, 1, 25)) \o Kept(<<Written>>) \o Blanks(6) \o boxes
                         \o Kept(SubSeq(value, 26, Len(value)))
    IN answer \o Blanks(128 - Len(answer))

(* The terms that a query address selects. *)
Selecting(found, first, id) ==
    {b \in DOMAIN found :
        id >= First(found, first, b) /\ id < First(found, first, b) + found[b].bank.slots}

-----------------------------------------------------------------------------
(* What an answer has to be: the fields of slot s in their fixed places,   *)
(* each taken from its own port of bank b.                                 *)
Expected(b, bank, s) ==
    LET en == IF bank.kind = "direct" THEN Bit(b, "vld", 0) ELSE Bit(b, "wr_en", 0)
        address == IF bank.kind = "direct" THEN <<Zero>> ELSE Bits(b, "wr_addr", AddressWidth(bank))
        Kept(bits) == [i \in DOMAIN bits |-> <<en, address, bits[i], s>>]
        Word(positions) == [i \in DOMAIN positions |-> Bit(b, "data", positions[i])]
        Live(positions) == Whole(Bit(b, "live_vld", 0),
            [i \in DOMAIN positions |-> Bit(b, "live", LiveWidth(bank) * s + positions[i])])
        boxes == IF ~bank.mailbox THEN Blanks(24)
                 ELSE IF bank.kind = "direct" THEN Whole(en, Word(Positions(bank.at, 24)))
                 ELSE Whole(Bit(b, "mailbox_vld", 0),
                            [i \in 1 .. 24 |-> Bit(b, "mailbox", 24 * s + i - 1)])
        state == IF bank.live THEN Live(Positions(0, 26))
                 ELSE Kept(Word(StateBits(bank))) \o Kept(<<Written>>)
        metadata == IF bank.reduction = None THEN << >>
                    ELSE IF bank.reduction.live THEN Live(FieldBits(bank.reduction))
                    ELSE IF bank.live THEN Live(Positions(26, bank.reduction.extent))
                    ELSE Kept(Word(FieldBits(bank.reduction)))
        answer == state \o Blanks(6) \o boxes \o metadata
    IN answer \o Blanks(128 - Len(answer))

AnswersExact(found, first) ==
    \A b \in DOMAIN found : \A s \in 0 .. found[b].bank.slots - 1 :
        LET id == First(found, first, b) + s
            bank == found[b].bank
            answer == Read(found, first, b, id)
        IN /\ Selecting(found, first, id) = {b}
           /\ answer = Expected(b, bank, s)
           /\ \A i \in ResourceWidth(bank) + 1 .. 128 : answer[i] = Blank

(* A projection that is accepted is answered bit for bit, with and without *)
(* its mailboxes, and no answer exceeds the width of its resource.         *)
ProbesExact(banks, nets, first) ==
    LET found == Discover(banks, nets) IN
    found # << >> =>
      /\ AnswersExact(found, first)
      /\ AnswersExact(WithoutMailboxes(found), first)
=============================================================================
