--------------------------- MODULE SequencePacking ---------------------------
(***************************************************************************)
(* The packers of data/packing/algorithms.py: the numbers 1..n of a list   *)
(* of lengths are put into bins, each a sequence of numbers, whose lengths *)
(* add up to at most the capacity.                                         *)
(***************************************************************************)
EXTENDS Integers, Sequences, FiniteSets, SequencesExt, FiniteSetsExt

Load(bin, lens) ==
    LET sum[n \in 0..Len(bin)] == IF n = 0 THEN 0 ELSE sum[n - 1] + lens[bin[n]]
    IN  sum[Len(bin)]

Fits(bin, i, lens, capacity) == Load(bin, lens) + lens[i] <= capacity

AddTo(bins, b, i) == [bins EXCEPT ![b] = Append(@, i)]

\* The members of a finite set in a strict total order.
Sorted(items, Before(_, _)) ==
    [n \in 1..Cardinality(items) |->
        CHOOSE i \in items : Cardinality({j \in items : Before(j, i)}) = n - 1]

\* What a sequence has at these places, in its order.  (SelectSeq, as a
\* recursive function a proof can unfold.)
Kept(items, places) ==
    LET kept[n \in 0..Len(items)] ==
            IF n = 0 THEN <<>>
            ELSE IF n \in places THEN Append(kept[n - 1], items[n])
                 ELSE kept[n - 1]
    IN  kept[Len(items)]

\* Stable sorts of a set of numbers by their lengths.
Descending(items, lens) ==
    Sorted(items, LAMBDA i, j : lens[i] > lens[j] \/ (lens[i] = lens[j] /\ i < j))

Ascending(items, lens) ==
    Sorted(items, LAMBDA i, j : lens[i] < lens[j] \/ (lens[i] = lens[j] /\ i < j))

Concatenative(lens, capacity) ==
    LET Place(bins, i) ==
            IF bins # <<>> /\ Fits(Last(bins), i, lens, capacity)
            THEN AddTo(bins, Len(bins), i)
            ELSE Append(bins, <<i>>)
        packed[n \in 0..Len(lens)] == IF n = 0 THEN <<>> ELSE Place(packed[n - 1], n)
    IN  packed[Len(lens)]

\* The subclasses differ in the order in which the sequences are placed.
FirstFit(lens, capacity, order) ==
    LET Place(bins, i) ==
            LET fitting == {b \in DOMAIN bins : Fits(bins[b], i, lens, capacity)}
            IN  IF fitting = {} THEN Append(bins, <<i>>)
                                ELSE AddTo(bins, Min(fitting), i)
        packed[n \in 0..Len(order)] ==
            IF n = 0 THEN <<>> ELSE Place(packed[n - 1], order[n])
    IN  packed[Len(order)]

\* Of equal lengths the last comes first: the pairs are sorted in reverse.
FirstFitDecreasing(lens, capacity) ==
    FirstFit(lens, capacity,
        Sorted(DOMAIN lens,
            LAMBDA i, j : lens[i] > lens[j] \/ (lens[i] = lens[j] /\ i > j)))

-----------------------------------------------------------------------------
\* Modified first-fit decreasing.  While it packs, "rest" holds the numbers
\* that are in no bin yet, in the order in which they are tried.

Large(lens, capacity) == {i \in DOMAIN lens : 2 * lens[i] > capacity}
Medium(lens, capacity) ==
    {i \in DOMAIN lens : 2 * lens[i] <= capacity /\ 3 * lens[i] > capacity}
Small(lens, capacity) ==
    {i \in DOMAIN lens : 3 * lens[i] <= capacity /\ 6 * lens[i] > capacity}

\* Phase 2: the largest medium item that fits joins a large one.
AddMedium(lens, capacity) ==
    LET large == Descending(Large(lens, capacity), lens)
        Join(packing, bin) ==
            LET rest == packing.rest
                fitting == {k \in DOMAIN rest : Fits(bin, rest[k], lens, capacity)}
                k == Min(fitting)
            IN  IF fitting = {}
                THEN [packing EXCEPT !.bins = Append(@, bin)]
                ELSE [bins |-> Append(packing.bins, Append(bin, rest[k])),
                      rest |-> RemoveAt(rest, k)]
        visited[n \in 0..Len(large)] ==
            IF n = 0
            THEN [bins |-> <<>>, rest |-> Descending(Medium(lens, capacity), lens)]
            ELSE Join(visited[n - 1], <<large[n]>>)
    IN  visited[Len(large)].bins

\* Phase 3: the smallest small item, and the largest that fits beside it, join
\* a large one that has no medium one, the last bins first.
AddSmallPairs(bins, lens, capacity) ==
    LET Join(packing, bin) ==
            LET rest == packing.rest
                room == capacity - Load(bin, lens)
                seconds == {k \in 2..Len(rest) : lens[rest[1]] + lens[rest[k]] <= room}
                k == Max(seconds)
            IN  IF Len(bin) > 1 \/ 2 \notin seconds
                THEN [packing EXCEPT !.bins = <<bin>> \o @]
                ELSE [bins |-> <<bin \o <<rest[1], rest[k]>> >> \o packing.bins,
                      rest |-> Tail(RemoveAt(rest, k))]
        visited[n \in 1..(Len(bins) + 1)] ==
            IF n > Len(bins)
            THEN [bins |-> <<>>, rest |-> Ascending(Small(lens, capacity), lens)]
            ELSE Join(visited[n + 1], bins[n])
    IN  visited[1].bins

\* What a bin takes of the items that are tried in this order.
Filled(bin, items, lens, capacity) ==
    LET tried[n \in 0..Len(items)] ==
            IF n = 0 THEN bin
            ELSE IF Fits(tried[n - 1], items[n], lens, capacity)
                 THEN Append(tried[n - 1], items[n])
                 ELSE tried[n - 1]
    IN  tried[Len(items)]

Without(items, bin) == Kept(items, {n \in DOMAIN items : items[n] \notin ToSet(bin)})

\* Phase 4: each bin takes what fits of the rest, the largest first.
FillGreedily(bins, items, lens, capacity) ==
    LET Fill(packing, bin) ==
            LET filled == Filled(bin, packing.rest, lens, capacity)
            IN  [bins |-> Append(packing.bins, filled),
                 rest |-> Without(packing.rest, filled)]
        visited[n \in 0..Len(bins)] ==
            IF n = 0 THEN [bins |-> <<>>, rest |-> Descending(items, lens)]
            ELSE Fill(visited[n - 1], bins[n])
    IN  visited[Len(bins)]

\* Phase 5: a leftover goes to the emptiest of the new bins, or to one more;
\* they are kept in the order of their loads.
PackLeftovers(items, lens, capacity) ==
    LET Insert(bins, bin) ==
            LET lighter == {b \in DOMAIN bins : Load(bins[b], lens) <= Load(bin, lens)}
            IN  InsertAt(bins, Cardinality(lighter) + 1, bin)
        Place(bins, i) ==
            IF Fits(bins[1], i, lens, capacity)
            THEN Insert(Tail(bins), Append(bins[1], i))
            ELSE Insert(bins, <<i>>)
        packed[n \in 0..Len(items)] ==
            IF n = 0 THEN << <<>> >> ELSE Place(packed[n - 1], items[n])
    IN  packed[Len(items)]

ModifiedFirstFitDecreasing(lens, capacity) ==
    LET bins == AddSmallPairs(AddMedium(lens, capacity), lens, capacity)
        others == DOMAIN lens \ ToSet(FlattenSeq(bins))
        filled == FillGreedily(bins, others, lens, capacity)
        packed == filled.bins \o PackLeftovers(filled.rest, lens, capacity)
    IN  Kept(packed, {b \in DOMAIN packed : packed[b] # <<>>})

-----------------------------------------------------------------------------
\* _adjust_bin_count: a multiple of "multiple" bins, at least one each.

\* mutant: adds a multiple to a whole number of them.
TargetCountNext(bins, multiple) ==
    (Max({Len(bins), multiple}) \div multiple + 1) * multiple

TargetCount(bins, multiple) ==
    ((Max({Len(bins), multiple}) + multiple - 1) \div multiple) * multiple

EnoughFor(count, bins) == Len(FlattenSeq(bins)) >= count

\* The last item of the largest bin that still has two goes to each new bin.
AdjustBinCount(bins, multiple) ==
    LET sources == Sorted(DOMAIN bins,
            LAMBDA a, b : \/ Len(bins[a]) > Len(bins[b])
                          \/ Len(bins[a]) = Len(bins[b]) /\ a > b)
        Split(adjusted) ==
            LET donors == {k \in DOMAIN sources : Len(adjusted[sources[k]]) > 1}
                from == sources[Min(donors)]
            IN  Append([adjusted EXCEPT ![from] = Front(@)], <<Last(adjusted[from])>>)
        missing == TargetCount(bins, multiple) - Len(bins)
        split[n \in 0..missing] == IF n = 0 THEN bins ELSE Split(split[n - 1])
    IN  split[missing]
=============================================================================
