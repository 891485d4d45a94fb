------------------------ MODULE PagedIngestionProofs ------------------------
(* Theorems about PagedIngestion, for every provider, source, window and     *)
(* schedule of tasks, and the lemmas about pages and snapshots they rest on. *)
EXTENDS PagedIngestion, SequenceTheorems, FiniteSetTheorems, WellFoundedInduction, TLAPS

----------------------------------------------------------------------------
(* Sequences, whatever their elements. *)

IsSeq(s) == s \in Seq(ToSet(s))

LEMMA SeqForm ==
    ASSUME NEW s, IsSeq(s)
    PROVE  /\ Len(s) \in Nat /\ DOMAIN s = 1..Len(s)
           /\ \A i \in 1..Len(s) : s[i] \in ToSet(s)
           /\ s = [i \in 1..Len(s) |-> s[i]]
  <1>1. s \in Seq(ToSet(s))
    BY DEF IsSeq
  <1>2. Len(s) \in Nat /\ DOMAIN s = 1..Len(s) /\ s \in [1..Len(s) -> ToSet(s)]
    BY <1>1, LenProperties
  <1>3. QED
    BY <1>2

LEMMA SeqByLength ==
    ASSUME NEW n \in Nat, NEW s, DOMAIN s = 1..n, s = [i \in 1..n |-> s[i]]
    PROVE  IsSeq(s) /\ Len(s) = n
  <1>1. \A i \in 1..n : s[i] \in ToSet(s)
    BY DEF ToSet
  <1>2. s \in [1..n -> ToSet(s)]
    BY <1>1
  <1>3. s \in Seq(ToSet(s))
    BY <1>2, SeqDef
  <1>4. DOMAIN s = 1..Len(s) /\ Len(s) \in Nat
    BY <1>3, LenProperties
  <1>5. QED
    BY <1>3, <1>4 DEF IsSeq

LEMMA SeqOfAny ==
    ASSUME NEW S, NEW s \in Seq(S) PROVE IsSeq(s)
  <1>1. Len(s) \in Nat /\ DOMAIN s = 1..Len(s) /\ s \in [1..Len(s) -> S]
    BY LenProperties
  <1>2. QED
    BY <1>1, SeqByLength

LEMMA AppendSeq ==
    ASSUME NEW s, IsSeq(s), NEW x
    PROVE  /\ IsSeq(Append(s, x)) /\ Len(Append(s, x)) = Len(s) + 1
           /\ \A i \in 1..Len(s) : Append(s, x)[i] = s[i]
           /\ Append(s, x)[Len(s) + 1] = x
  <1> DEFINE S == ToSet(s) \cup {x}
  <1>1. s \in Seq(S) /\ x \in S
    BY SeqMonotonic DEF IsSeq
  <1> HIDE DEF S
  <1>2. /\ Append(s, x) \in Seq(S) /\ Len(Append(s, x)) = Len(s) + 1
        /\ \A i \in 1..Len(s) : Append(s, x)[i] = s[i]
        /\ Append(s, x)[Len(s) + 1] = x
    BY <1>1, AppendProperties
  <1>3. QED
    BY <1>2, SeqOfAny

LEMMA ConcatSeq ==
    ASSUME NEW s, IsSeq(s), NEW t, IsSeq(t)
    PROVE  IsSeq(s \o t) /\ Len(s \o t) = Len(s) + Len(t)
  <1> DEFINE S == ToSet(s) \cup ToSet(t)
  <1>1. s \in Seq(S) /\ t \in Seq(S)
    BY SeqMonotonic DEF IsSeq
  <1>2. QED
    BY <1>1, ConcatProperties, SeqOfAny

LEMMA SubSeqSeq ==
    ASSUME NEW s, NEW m \in Int, NEW n \in Int
    PROVE  /\ IsSeq(SubSeq(s, m, n))
           /\ Len(SubSeq(s, m, n)) = IF m <= n THEN n - m + 1 ELSE 0
           /\ \A i \in 1 .. n - m + 1 : SubSeq(s, m, n)[i] = s[m + i - 1]
  <1> DEFINE S == {s[i] : i \in m..n}
  <1>1. \A i \in m..n : s[i] \in S
    OBVIOUS
  <1> HIDE DEF S
  <1>2. /\ SubSeq(s, m, n) \in Seq(S)
        /\ Len(SubSeq(s, m, n)) = IF m <= n THEN n - m + 1 ELSE 0
        /\ \A i \in 1 .. n - m + 1 : SubSeq(s, m, n)[i] = s[m + i - 1]
    BY <1>1, SubSeqProperties
  <1>3. QED
    BY <1>2, SeqOfAny

\* The operator evaluates its argument, and no more.
LEMMA OnlyElement == \A x : (CHOOSE r \in {x} : TRUE) = x
  OBVIOUS

LEMMA AtSeq ==
    ASSUME NEW n \in Nat, NEW P \in SUBSET (1..n), NEW s
    PROVE  IsSeq(At(s, P))
  <1>1. Cardinality(P) \in Nat
    <2>1. IsFiniteSet(1..n)
      BY FS_Interval
    <2>2. IsFiniteSet(P)
      BY <2>1, FS_Subset
    <2>3. QED
      BY <2>2, FS_CardinalityType
  <1> DEFINE F(ps) == [k \in 1..Cardinality(ps) |->
                          s[CHOOSE i \in ps : Cardinality({j \in ps : j <= i}) = k]]
  <1>2. At(s, P) = CHOOSE r \in {F(x) : x \in {P}} : TRUE
    BY DEF At, With
  <1>3. DOMAIN F(P) = 1..Cardinality(P) /\ F(P) = [k \in 1..Cardinality(P) |-> F(P)[k]]
    OBVIOUS
  <1> HIDE DEF F
  <1>4. {F(x) : x \in {P}} = {F(P)}
    OBVIOUS
  <1>5. At(s, P) = F(P)
    BY <1>2, <1>4, OnlyElement
  <1>6. QED
    BY <1>1, <1>3, <1>5, SeqByLength
LEMMA SortedSeq ==
    ASSUME NEW s, IsSeq(s) PROVE IsSeq(Sorted(s, Before)) /\ IsSeq(Sorted(s, After))
  <1> DEFINE F(t) == [n \in DOMAIN t |-> t[CHOOSE i \in DOMAIN t : Rank(t, i, Before) = n]]
             G(t) == [n \in DOMAIN t |-> t[CHOOSE i \in DOMAIN t : Rank(t, i, After) = n]]
  <1>1. /\ Sorted(s, Before) = CHOOSE r \in {F(x) : x \in {s}} : TRUE
        /\ Sorted(s, After) = CHOOSE r \in {G(x) : x \in {s}} : TRUE
    BY DEF Sorted, With
  <1>2. /\ DOMAIN F(s) = DOMAIN s /\ F(s) = [n \in DOMAIN s |-> F(s)[n]]
        /\ DOMAIN G(s) = DOMAIN s /\ G(s) = [n \in DOMAIN s |-> G(s)[n]]
    OBVIOUS
  <1> HIDE DEF F, G
  <1>3. {F(x) : x \in {s}} = {F(s)} /\ {G(x) : x \in {s}} = {G(s)}
    OBVIOUS
  <1>4. Sorted(s, Before) = F(s) /\ Sorted(s, After) = G(s)
    BY <1>1, <1>3, OnlyElement
  <1>5. QED
    BY <1>2, <1>4, SeqForm, SeqByLength

LEMMA InWindowSeq ==
    ASSUME NEW s, IsSeq(s), NEW q PROVE IsSeq(InWindow(s, q))
  <1> DEFINE F(t) == At(t, {i \in DOMAIN t : t[i].at \in Window[q]})
  <1>1. InWindow(s, q) = CHOOSE r \in {F(x) : x \in {s}} : TRUE
    BY DEF InWindow, With
  <1>2. IsSeq(F(s))
    BY SeqForm, AtSeq
  <1> HIDE DEF F
  <1>3. {F(x) : x \in {s}} = {F(s)}
    OBVIOUS
  <1>4. QED
    BY <1>1, <1>2, <1>3, OnlyElement

LEMMA FirstOfSeq ==
    ASSUME NEW s, IsSeq(s) PROVE IsSeq(FirstOf(s, IdOf)) /\ IsSeq(FirstOf(s, UrlOf))
  <1> DEFINE F(t) == At(t, {i \in DOMAIN t : \A j \in 1..(i - 1) : IdOf(t[j]) # IdOf(t[i])})
             G(t) == At(t, {i \in DOMAIN t : \A j \in 1..(i - 1) : UrlOf(t[j]) # UrlOf(t[i])})
  <1>1. /\ FirstOf(s, IdOf) = CHOOSE r \in {F(x) : x \in {s}} : TRUE
        /\ FirstOf(s, UrlOf) = CHOOSE r \in {G(x) : x \in {s}} : TRUE
    BY DEF FirstOf, With
  <1>2. IsSeq(F(s)) /\ IsSeq(G(s))
    BY SeqForm, AtSeq
  <1> HIDE DEF F, G
  <1>3. {F(x) : x \in {s}} = {F(s)} /\ {G(x) : x \in {s}} = {G(s)}
    OBVIOUS
  <1>4. QED
    BY <1>1, <1>2, <1>3, OnlyElement

LEMMA ItemizedSeq ==
    ASSUME NEW s, IsSeq(s)
    PROVE  /\ IsSeq(Itemized(s, NbsRelease)) /\ IsSeq(Itemized(s, NbsArticle))
           /\ IsSeq(Itemized(s, HkmaRelease)) /\ IsSeq(Itemized(s, CenstatdTitle))
           /\ IsSeq(Itemized(s, BlsRelease)) /\ IsSeq(Itemized(s, BeaRelease))
  <1>1. Len(s) \in Nat /\ DOMAIN s = 1..Len(s)
    BY SeqForm
  <1> DEFINE A == Itemized(s, NbsRelease)
             B == Itemized(s, NbsArticle)
             C == Itemized(s, HkmaRelease)
             D == Itemized(s, CenstatdTitle)
             E == Itemized(s, BlsRelease)
             F == Itemized(s, BeaRelease)
  <1>2. /\ DOMAIN A = DOMAIN s /\ A = [i \in DOMAIN s |-> A[i]]
        /\ DOMAIN B = DOMAIN s /\ B = [i \in DOMAIN s |-> B[i]]
        /\ DOMAIN C = DOMAIN s /\ C = [i \in DOMAIN s |-> C[i]]
        /\ DOMAIN D = DOMAIN s /\ D = [i \in DOMAIN s |-> D[i]]
        /\ DOMAIN E = DOMAIN s /\ E = [i \in DOMAIN s |-> E[i]]
        /\ DOMAIN F = DOMAIN s /\ F = [i \in DOMAIN s |-> F[i]]
    BY DEF Itemized
  <1> HIDE DEF A, B, C, D, E, F
  <1>3. IsSeq(A) /\ IsSeq(B) /\ IsSeq(C) /\ IsSeq(D) /\ IsSeq(E) /\ IsSeq(F)
    BY <1>1, <1>2, SeqByLength
  <1>4. QED
    BY <1>3 DEF A, B, C, D, E, F

LEMMA ReverseSeq ==
    ASSUME NEW s, IsSeq(s) PROVE IsSeq(Reverse(s))
  <1> DEFINE r == Reverse(s)
  <1>1. Len(s) \in Nat /\ DOMAIN r = 1..Len(s) /\ r = [i \in 1..Len(s) |-> r[i]]
    BY SeqForm DEF Reverse
  <1> HIDE DEF r
  <1>2. IsSeq(r)
    BY <1>1, SeqByLength
  <1>3. QED
    BY <1>2 DEF r

LEMMA LeastElement ==
    ASSUME NEW T, T \subseteq Nat, T # {}
    PROVE  \E x \in T : \A y \in T : x <= y
  <1> DEFINE R == {ss \in Nat \X Nat : ss[1] < ss[2]}
  <1>1. IsWellFoundedOn(R, Nat)
    BY NatLessThanWellFounded DEF OpToRel
  <1> HIDE DEF R
  <1>2. PICK x \in T : \A y \in T : <<y, x>> \notin R
    BY <1>1, WFMin
  <1>3. \A y \in T : ~(y < x)
    BY <1>2 DEF R
  <1>4. QED
    BY <1>3

\* The function that FlattenSeq chooses, on the first n elements.
Flattens(f, s, n) ==
    f = [i \in 1..n |-> IF i = 1 THEN s[i] ELSE f[i - 1] \o s[i]]

\* There is one: else there were a least n without.
LEMMA FlattenExists ==
    ASSUME NEW s, NEW n \in Nat PROVE \E f : Flattens(f, s, n)
  <1> DEFINE T == {m \in Nat : ~ \E f : Flattens(f, s, m)}
  <1> SUFFICES ASSUME T # {} PROVE FALSE
    OBVIOUS
  <1>1. PICK m \in T : \A y \in T : m <= y
    BY LeastElement
  <1>2. CASE m = 0
    <2> DEFINE f == [i \in 1..0 |-> s[i]]
    <2>1. Flattens(f, s, 0)
      BY DEF Flattens
    <2>2. QED
      BY <1>1, <1>2, <2>1
  <1>3. CASE m # 0
    <2>1. m - 1 \in Nat /\ m - 1 \notin T
      BY <1>1, <1>3
    <2>2. PICK g : Flattens(g, s, m - 1)
      BY <2>1
    <2> DEFINE f == [i \in 1..m |-> IF i = 1 THEN s[i] ELSE g[i - 1] \o s[i]]
    <2>3. ASSUME NEW i \in 1..m, i # 1 PROVE f[i - 1] = g[i - 1]
      <3>1. i - 1 \in 1..(m - 1) /\ i - 1 \in 1..m
        BY <2>3, <1>1
      <3>2. g[i - 1] = IF i - 1 = 1 THEN s[i - 1] ELSE g[i - 1 - 1] \o s[i - 1]
        BY <2>2, <3>1 DEF Flattens
      <3>3. QED
        BY <3>1, <3>2
    <2>4. Flattens(f, s, m)
      BY <2>3 DEF Flattens
    <2>5. QED
      BY <1>1, <2>4
  <1>4. QED
    BY <1>2, <1>3

LEMMA FlattenSeqSeq ==
    ASSUME NEW s, IsSeq(s), \A i \in DOMAIN s : IsSeq(s[i]) PROVE IsSeq(FlattenSeq(s))
  <1>1. Len(s) \in Nat /\ DOMAIN s = 1..Len(s)
    BY SeqForm
  <1>2. CASE Len(s) = 0
    BY <1>2 DEF FlattenSeq
  <1>3. CASE Len(s) # 0
    <2> DEFINE f == CHOOSE g : Flattens(g, s, Len(s))
    <2>1. FlattenSeq(s) = f[Len(s)]
      BY <1>3 DEF FlattenSeq, Flattens
    <2>2. Flattens(f, s, Len(s))
      BY <1>1, FlattenExists
    <2> HIDE DEF f
    <2> DEFINE T == {i \in 1..Len(s) : ~IsSeq(f[i])}
    <2>3. T = {}
      <3> SUFFICES ASSUME T # {} PROVE FALSE
        OBVIOUS
      <3>1. T \subseteq Nat
        BY <1>1
      <3>2. PICK m \in T : \A y \in T : m <= y
        BY <3>1, LeastElement
      <3>3. f[m] = IF m = 1 THEN s[m] ELSE f[m - 1] \o s[m]
        BY <2>2, <3>2 DEF Flattens
      <3>4. m # 1 => IsSeq(f[m - 1])
        BY <1>1, <3>1, <3>2
      <3>5. IsSeq(f[m])
        BY <1>1, <3>2, <3>3, <3>4, ConcatSeq
      <3>6. QED
        BY <3>2, <3>5
    <2>4. QED
      BY <1>1, <1>3, <2>1, <2>3
  <1>4. QED
    BY <1>2, <1>3
----------------------------------------------------------------------------
(* Pages. *)

\* What was heard: answers or documents, each with a sequence of rows.
HeardOK(heard) == IsSeq(heard) /\ \A i \in DOMAIN heard : IsSeq(heard[i].rows)

\* A page is a cut of the snapshot of its mark, at the cursor's place.
PageOK(page, q, cursor) ==
    LET items == Snapshot(page.mark, q)
    IN  /\ IsSeq(items)
        /\ SameSnapshot(page.mark, cursor)
        /\ cursor.offset \in Nat /\ cursor.offset <= Len(items)
        /\ page.items = SubSeq(items, cursor.offset + 1, Reach(items, cursor))
        /\ page.next = Lead(items, q, page.mark, Reach(items, cursor))

LEMMA CutForm ==
    ASSUME NEW items, IsSeq(items), NEW q, NEW cursor, cursor.offset \in Nat,
           cursor.offset <= Len(items), NEW seen, SameSnapshot(seen, cursor),
           Snapshot(seen, q) = items, NEW rejected
    PROVE  PageOK(Cut(items, q, cursor, seen, rejected), q, cursor)
  <1> DEFINE page == Cut(items, q, cursor, seen, rejected)
  <1>1. /\ page.mark = seen
        /\ page.items = SubSeq(items, cursor.offset + 1, Reach(items, cursor))
        /\ page.next = Lead(items, q, seen, Reach(items, cursor))
    BY DEF Cut, Served
  <1> HIDE DEF page
  <1>2. PageOK(page, q, cursor)
    BY <1>1 DEF PageOK
  <1>3. QED
    BY <1>2 DEF page

LEMMA RefusedForm == \A code : Refused(code).error = code
  BY DEF Refused

LEMMA BarsSeq ==
    ASSUME NEW i, NEW rows, IsSeq(rows), NEW q, NEW bad PROVE IsSeq(Bars(i, rows, q, bad))
  <1> DEFINE P == {n \in DOMAIN rows : Sound(rows[n], bad)}
             good == At(rows, P)
             items == [n \in DOMAIN good |->
                          [id |-> <<i, good[n].day>>, at |-> good[n].day, text |-> good[n].text]]
  <1>1. IsSeq(good)
    BY SeqForm, AtSeq
  <1>2. Bars(i, rows, q, bad) = InWindow(items, q)
    BY DEF Bars
  <1>3. DOMAIN items = DOMAIN good /\ items = [n \in DOMAIN good |-> items[n]]
    OBVIOUS
  <1> HIDE DEF items, good
  <1>4. IsSeq(items)
    BY <1>1, <1>3, SeqForm, SeqByLength
  <1>5. QED
    BY <1>2, <1>4, InWindowSeq

LEMMA AllBarsSeq ==
    ASSUME NEW heard, HeardOK(heard), NEW q, NEW bad PROVE IsSeq(AllBars(heard, q, bad))
  <1> DEFINE parts == [i \in DOMAIN heard |-> Bars(i, heard[i].rows, q, bad)]
  <1>1. AllBars(heard, q, bad) = Sorted(FlattenSeq(parts), Before)
    BY DEF AllBars
  <1>2. DOMAIN parts = DOMAIN heard /\ parts = [i \in DOMAIN heard |-> parts[i]]
    OBVIOUS
  <1>3. \A i \in DOMAIN parts : IsSeq(parts[i])
    BY BarsSeq DEF HeardOK
  <1> HIDE DEF parts
  <1>4. IsSeq(parts)
    BY <1>2, SeqForm, SeqByLength DEF HeardOK
  <1>5. QED
    BY <1>1, <1>3, <1>4, FlattenSeqSeq, SortedSeq

LEMMA LeastForm ==
    ASSUME NEW T, T \subseteq Nat, T # {} PROVE Min(T) \in T /\ \A y \in T : Min(T) <= y
  <1>1. \E x \in T : \A y \in T : x <= y
    BY LeastElement
  <1>2. QED
    BY <1>1 DEF Min

LEMMA BarPageForm ==
    ASSUME adapter \in BarAdapters, NEW heard, HeardOK(heard), NEW q, NEW cursor,
           cursor.offset \in Nat, NEW items, IsSeq(items), NEW rejected,
           BarPage(heard, q, cursor, items, rejected).error = "none"
    PROVE  PageOK(BarPage(heard, q, cursor, items, rejected), q, cursor)
  <1> DEFINE faults == {i \in DOMAIN heard : AnswerFault(heard[i]) # "none"}
             page == BarPage(heard, q, cursor, items, rejected)
             code == AnswerFault(heard[Min(faults)])
  <1>1. page = IF faults # {} THEN Refused(code)
               ELSE IF ~SameSnapshot(items, cursor) THEN Refused("SNAPSHOT_CHANGED")
               ELSE IF cursor.offset > Len(items) THEN Refused("INVALID_CURSOR")
               ELSE IF ~Follows(items, cursor) THEN Refused("SNAPSHOT_CHANGED")
               ELSE Cut(items, q, cursor, items, rejected)
    BY DEF BarPage
  <1>2. faults # {} => code # "none"
    <2>1. faults \subseteq Nat
      BY SeqForm DEF HeardOK
    <2>2. faults # {} => Min(faults) \in faults
      BY <2>1, LeastForm
    <2>3. QED
      BY <2>2
  <1> HIDE DEF faults, code, page
  <1>3. /\ page = Cut(items, q, cursor, items, rejected)
        /\ SameSnapshot(items, cursor) /\ ~(cursor.offset > Len(items))
    BY <1>1, <1>2, RefusedForm DEF page
  <1>4. Snapshot(items, q) = items
    BY DEF Snapshot, BarAdapters
  <1>5. cursor.offset <= Len(items)
    BY <1>3, SeqForm
  <1>6. QED
    BY <1>3, <1>4, <1>5, CutForm DEF page

LEMMA BarAdapterPages ==
    ASSUME adapter \in BarAdapters, NEW heard, HeardOK(heard), NEW q, NEW cursor,
           cursor.offset \in Nat, PageOf(heard, q, cursor).error = "none"
    PROVE  PageOK(PageOf(heard, q, cursor), q, cursor)
  <1> DEFINE A(bad) == AllBars(heard, q, bad)
             F(bad, items) == BarPage(heard, q, cursor, items, Quarantined(heard, bad))
             bads == {TwelveDataBad, BaoStockBad, XtQuantBad}
  <1>1. /\ TwelveDataPage(heard, q, cursor) =
              CHOOSE r \in {F(TwelveDataBad, x) : x \in {A(TwelveDataBad)}} : TRUE
        /\ BaoStockPage(heard, q, cursor) =
              CHOOSE r \in {F(BaoStockBad, x) : x \in {A(BaoStockBad)}} : TRUE
        /\ XtQuantPage(heard, q, cursor) =
              CHOOSE r \in {F(XtQuantBad, x) : x \in {A(XtQuantBad)}} : TRUE
    BY DEF TwelveDataPage, BaoStockPage, XtQuantPage, With
  <1>2. \A bad \in bads : IsSeq(A(bad))
    BY AllBarsSeq
  <1>3. \A bad \in bads : F(bad, A(bad)).error = "none" => PageOK(F(bad, A(bad)), q, cursor)
    BY <1>2, BarPageForm
  <1> HIDE DEF A, F
  <1>4. \A bad \in bads : {F(bad, x) : x \in {A(bad)}} = {F(bad, A(bad))}
    OBVIOUS
  <1>5. /\ TwelveDataPage(heard, q, cursor) = F(TwelveDataBad, A(TwelveDataBad))
        /\ BaoStockPage(heard, q, cursor) = F(BaoStockBad, A(BaoStockBad))
        /\ XtQuantPage(heard, q, cursor) = F(XtQuantBad, A(XtQuantBad))
    BY <1>1, <1>4, OnlyElement
  <1>6. \E bad \in bads : PageOf(heard, q, cursor) = F(bad, A(bad))
    BY <1>5 DEF PageOf, BarAdapters
  <1> HIDE DEF bads
  <1>7. QED
    BY <1>3, <1>6
LEMMA LivePageForm ==
    ASSUME NEW items, IsSeq(items), NEW q, NEW cursor, cursor.offset \in Nat,
           NEW seen, Snapshot(seen, q) = items, LivePage(items, q, cursor, seen).error = "none"
    PROVE  PageOK(LivePage(items, q, cursor, seen), q, cursor)
  <1> DEFINE F(listed) == IF ~SameSnapshot(seen, cursor) \/ ~Follows(listed, cursor)
                          THEN Refused("SNAPSHOT_CHANGED")
                          ELSE Cut(listed, q, cursor, seen, {})
  <1>1. LivePage(items, q, cursor, seen) = CHOOSE r \in {F(x) : x \in {items}} : TRUE
    BY DEF LivePage, With
  <1>2. F(items).error = "none" =>
            /\ SameSnapshot(seen, cursor) /\ Follows(items, cursor)
            /\ F(items) = Cut(items, q, cursor, seen, {})
    BY RefusedForm
  <1> HIDE DEF F
  <1>3. {F(x) : x \in {items}} = {F(items)}
    OBVIOUS
  <1>4. LivePage(items, q, cursor, seen) = F(items)
    BY <1>1, <1>3, OnlyElement
  <1>5. cursor.offset <= Len(items)
    BY <1>2, <1>4, SeqForm DEF Follows
  <1>6. QED
    BY <1>2, <1>4, <1>5, CutForm

LEMMA FirstHeard ==
    ASSUME NEW heard, HeardOK(heard), heard # <<>> PROVE IsSeq(heard[1].rows)
  <1>1. Len(heard) \in Nat \ {0} /\ DOMAIN heard = 1..Len(heard)
    <2>1. heard \in Seq(ToSet(heard))
      BY DEF HeardOK, IsSeq
    <2>2. QED
      BY <2>1, EmptySeq, LenProperties
  <1>2. QED
    BY <1>1 DEF HeardOK

LEMMA NbsReleasePages ==
    ASSUME adapter = "nbs_release", NEW heard, HeardOK(heard), heard # <<>>, NEW q, NEW cursor,
           cursor.offset \in Nat, NbsReleasePage(heard, q, cursor).error = "none"
    PROVE  PageOK(NbsReleasePage(heard, q, cursor), q, cursor)
  <1> DEFINE doc == heard[1]
             items == NbsReleases(doc, q)
             live == LivePage(items, q, cursor, doc.rows)
  <1>1. IsSeq(items)
    BY FirstHeard, ItemizedSeq, FirstOfSeq, InWindowSeq, SortedSeq DEF NbsReleases
  <1>2. Snapshot(doc.rows, q) = items
    BY DEF Snapshot, NbsReleases, BarAdapters
  <1>3. NbsReleasePage(heard, q, cursor) =
            IF ~SameSnapshot(doc.rows, cursor) THEN Refused("SNAPSHOT_CHANGED")
            ELSE IF Bad(doc) \/ doc.rows = <<>> THEN Refused("SCHEMA_DRIFT")
            ELSE live
    BY DEF NbsReleasePage
  <1> HIDE DEF items, live
  <1>4. NbsReleasePage(heard, q, cursor) = live
    BY <1>3, RefusedForm
  <1>5. QED
    BY <1>1, <1>2, <1>4, LivePageForm DEF live

LEMMA NbsNewsPages ==
    ASSUME adapter = "nbs_news", NEW heard, HeardOK(heard), heard # <<>>, NEW q, NEW cursor,
           cursor.offset \in Nat, NbsNewsPage(heard, q, cursor).error = "none"
    PROVE  PageOK(NbsNewsPage(heard, q, cursor), q, cursor)
  <1> DEFINE doc == heard[1]
             listing == NbsListing(doc)
             F(seen) == LivePage(NbsNews(seen, q), q, cursor, seen)
             items == NbsNews(listing, q)
  <1>1. IsSeq(listing)
    BY FirstHeard, FirstOfSeq, ItemizedSeq DEF NbsListing
  <1>2. NbsNewsPage(heard, q, cursor) =
            IF Bad(doc) \/ doc.rows = <<>> THEN Refused("SCHEMA_DRIFT")
            ELSE CHOOSE r \in {F(x) : x \in {listing}} : TRUE
    BY DEF NbsNewsPage, With
  <1> HIDE DEF listing
  <1>3. IsSeq(items)
    BY <1>1, InWindowSeq, SortedSeq DEF NbsNews
  <1>4. Snapshot(listing, q) = items
    BY DEF Snapshot, BarAdapters
  <1>5. F(listing) = LivePage(items, q, cursor, listing)
    OBVIOUS
  <1> HIDE DEF F
  <1>6. {F(x) : x \in {listing}} = {F(listing)}
    OBVIOUS
  <1>7. NbsNewsPage(heard, q, cursor) = F(listing)
    BY <1>2, <1>6, RefusedForm, OnlyElement
  <1>8. QED
    BY <1>3, <1>4, <1>5, <1>7, LivePageForm

LEMMA HkmaPages ==
    ASSUME adapter = "hkma", NEW heard, HeardOK(heard), NEW q, NEW cursor,
           cursor.offset \in Nat, HkmaPage(heard, q, cursor).error = "none"
    PROVE  PageOK(HkmaPage(heard, q, cursor), q, cursor)
  <1> DEFINE m == HkmaMark(heard)
             F(seen) == IF HkmaFault(heard) # "none" THEN Refused(HkmaFault(heard))
                        ELSE IF ~SameSnapshot(seen, cursor) THEN Refused("SNAPSHOT_CHANGED")
                        ELSE IF \E i \in DOMAIN seen[2] : seen[2][i].fault # "none"
                             THEN Refused("SCHEMA_DRIFT")
                        ELSE LivePage(HkmaNews(seen, q), q, cursor, seen)
             items == HkmaNews(m, q)
             parts == [i \in DOMAIN heard |-> heard[i].rows]
  <1>1. HkmaPage(heard, q, cursor) = CHOOSE r \in {F(x) : x \in {m}} : TRUE
    BY DEF HkmaPage, With
  <1>2. IsSeq(m[2])
    <2>1. m[2] = FlattenSeq(parts)
      BY DEF HkmaMark, HkmaRecords
    <2>2. DOMAIN parts = DOMAIN heard /\ parts = [i \in DOMAIN heard |-> parts[i]]
      OBVIOUS
    <2>3. \A i \in DOMAIN parts : IsSeq(parts[i])
      BY DEF HeardOK
    <2> HIDE DEF parts, m
    <2>4. IsSeq(parts)
      BY <2>2, SeqForm, SeqByLength DEF HeardOK
    <2>5. QED
      BY <2>1, <2>3, <2>4, FlattenSeqSeq
  <1> HIDE DEF m
  <1>3. IsSeq(items)
    BY <1>2, ItemizedSeq, InWindowSeq, SortedSeq DEF HkmaNews
  <1>4. Snapshot(m, q) = items
    BY DEF Snapshot, BarAdapters
  <1>5. F(m).error = "none" => F(m) = LivePage(items, q, cursor, m)
    BY RefusedForm
  <1> HIDE DEF F
  <1>6. {F(x) : x \in {m}} = {F(m)}
    OBVIOUS
  <1>7. HkmaPage(heard, q, cursor) = F(m)
    BY <1>1, <1>6, OnlyElement
  <1>8. QED
    BY <1>3, <1>4, <1>5, <1>7, LivePageForm

LEMMA CenstatdPages ==
    ASSUME adapter = "censtatd", NEW heard, HeardOK(heard), NEW q, NEW cursor,
           cursor.offset \in Nat, CenstatdPage(heard, q, cursor).error = "none"
    PROVE  PageOK(CenstatdPage(heard, q, cursor), q, cursor)
  <1> DEFINE parts == [i \in DOMAIN heard |-> Itemized(heard[i].rows, CenstatdTitle)]
             items == CenstatdReleases(heard, q)
             live == LivePage(items, q, cursor, heard)
  <1>1. items = Sorted(LastOf(InWindow(FlattenSeq(parts), q)), Before)
    BY DEF CenstatdReleases
  <1>2. DOMAIN parts = DOMAIN heard /\ parts = [i \in DOMAIN heard |-> parts[i]]
    OBVIOUS
  <1>3. \A i \in DOMAIN parts : IsSeq(parts[i])
    BY ItemizedSeq DEF HeardOK
  <1>4. Snapshot(heard, q) = items
    BY DEF Snapshot, BarAdapters
  <1>5. CenstatdPage(heard, q, cursor) =
            IF ~SameSnapshot(heard, cursor) THEN Refused("SNAPSHOT_CHANGED")
            ELSE IF \E i \in DOMAIN heard : CenstatdFault(heard[i]) THEN Refused("SCHEMA_DRIFT")
            ELSE live
    BY DEF CenstatdPage
  <1> HIDE DEF parts, items, live
  <1>6. IsSeq(parts)
    BY <1>2, SeqForm, SeqByLength DEF HeardOK
  <1>7. IsSeq(items)
    BY <1>1, <1>3, <1>6, FlattenSeqSeq, InWindowSeq, ReverseSeq, FirstOfSeq, SortedSeq DEF LastOf
  <1>8. CenstatdPage(heard, q, cursor) = live
    BY <1>5, RefusedForm
  <1>9. QED
    BY <1>4, <1>7, <1>8, LivePageForm DEF live

LEMMA UsCalendarPages ==
    ASSUME adapter = "us_calendar", NEW heard, HeardOK(heard), NEW q, NEW cursor,
           cursor.offset \in Nat, UsCalendarPage(heard, q, cursor).error = "none"
    PROVE  PageOK(UsCalendarPage(heard, q, cursor), q, cursor)
  <1> DEFINE parts == [i \in DOMAIN heard |->
                          IF i <= Len(YearSeq(q)) THEN OmbReleases(heard[i]) ELSE BeaReleases(heard[i])]
             items == UsReleases(heard, q)
             live == LivePage(items, q, cursor, heard)
  <1>1. items = Sorted(LastOf(InWindow(FlattenSeq(parts), q)), Before)
    BY DEF UsReleases
  <1>2. DOMAIN parts = DOMAIN heard /\ parts = [i \in DOMAIN heard |-> parts[i]]
    OBVIOUS
  <1>3. \A i \in DOMAIN parts : IsSeq(parts[i])
    BY ItemizedSeq DEF HeardOK, OmbReleases, BeaReleases
  <1>4. Snapshot(heard, q) = items
    BY DEF Snapshot, BarAdapters
  <1>5. UsCalendarPage(heard, q, cursor) =
            IF \E i \in DOMAIN heard : ~heard[i].stated THEN Refused("SCHEMA_DRIFT")
            ELSE IF ~SameSnapshot(heard, cursor) THEN Refused("SNAPSHOT_CHANGED")
            ELSE IF \E i \in DOMAIN heard : Bad(heard[i]) \/ heard[i].rows = <<>>
                 THEN Refused("SCHEMA_DRIFT")
            ELSE live
    BY DEF UsCalendarPage
  <1> HIDE DEF parts, items, live
  <1>6. IsSeq(parts)
    BY <1>2, SeqForm, SeqByLength DEF HeardOK
  <1>7. IsSeq(items)
    BY <1>1, <1>3, <1>6, FlattenSeqSeq, InWindowSeq, ReverseSeq, FirstOfSeq, SortedSeq DEF LastOf
  <1>8. UsCalendarPage(heard, q, cursor) = live
    BY <1>5, RefusedForm
  <1>9. QED
    BY <1>4, <1>7, <1>8, LivePageForm DEF live

\* Whatever adapter: a page that is served is a cut of its snapshot.
LEMMA PageForm ==
    ASSUME adapter \in BarAdapters \cup LiveAdapters, NEW heard, HeardOK(heard), heard # <<>>,
           NEW q, NEW cursor, cursor.offset \in Nat, PageOf(heard, q, cursor).error = "none"
    PROVE  PageOK(PageOf(heard, q, cursor), q, cursor)
  <1>1. CASE adapter \in BarAdapters
    BY <1>1, BarAdapterPages
  <1>2. CASE adapter = "nbs_release"
    <2>1. PageOf(heard, q, cursor) = NbsReleasePage(heard, q, cursor)
      BY <1>2 DEF PageOf
    <2>2. QED
      BY <1>2, <2>1, NbsReleasePages
  <1>3. CASE adapter = "nbs_news"
    <2>1. PageOf(heard, q, cursor) = NbsNewsPage(heard, q, cursor)
      BY <1>3 DEF PageOf
    <2>2. QED
      BY <1>3, <2>1, NbsNewsPages
  <1>4. CASE adapter = "hkma"
    <2>1. PageOf(heard, q, cursor) = HkmaPage(heard, q, cursor)
      BY <1>4 DEF PageOf
    <2>2. QED
      BY <1>4, <2>1, HkmaPages
  <1>5. CASE adapter = "censtatd"
    <2>1. PageOf(heard, q, cursor) = CenstatdPage(heard, q, cursor)
      BY <1>5 DEF PageOf
    <2>2. QED
      BY <1>5, <2>1, CenstatdPages
  <1>6. CASE adapter = "us_calendar"
    <2>1. PageOf(heard, q, cursor) = UsCalendarPage(heard, q, cursor)
      BY <1>6 DEF PageOf
    <2>2. QED
      BY <1>6, <2>1, UsCalendarPages
  <1>7. QED
    BY <1>1, <1>2, <1>3, <1>4, <1>5, <1>6 DEF LiveAdapters

----------------------------------------------------------------------------
(* The invariant.  Its parts are stated of an adapter a, a source s, the     *)
(* items F and the rejections R that are stored.                             *)

\* The items of a snapshot, for adapter a.
View(a, m, q) ==
    CASE a \in BarAdapters   -> m
      [] a = "nbs_release" -> NbsReleases([rows |-> m], q)
      [] a = "nbs_news"    -> NbsNews(m, q)
      [] a = "hkma"        -> HkmaNews(m, q)
      [] a = "censtatd"    -> CenstatdReleases(m, q)
      [] a = "us_calendar" -> UsReleases(m, q)

\* What a cursor's snapshot has before its place is stored.
Stored(a, c, F) ==
    \/ c = NoCursor
    \/ c.offset \in Nat /\ ToSet(SubSeq(View(a, c.mark, c.query), 1, c.offset)) \subseteq F

CursorFor(c, q) == c = NoCursor \/ c.query = q

Fits(a, page, q, c) ==
    LET items == View(a, page.mark, q)
    IN  /\ IsSeq(items)
        /\ SameSnapshot(page.mark, c)
        /\ c.offset \in Nat /\ c.offset <= Len(items)
        /\ page.items = SubSeq(items, c.offset + 1, Reach(items, c))
        /\ page.next = Lead(items, q, page.mark, Reach(items, c))

SourceOK(a, s) ==
    /\ IsSeq(s) /\ Len(s) >= Least(a)
    /\ \A p \in DOMAIN s : DOMAIN s[p] = {"stated", "drift", "rows"} /\ IsSeq(s[p].rows)

\* While a worker asks, there is another document to ask for.
More(a, s, heard, q) ==
    /\ a \in {"twelve_data", "baostock"} => Len(heard) < Len(s)
    /\ a = "censtatd" => Len(heard) < Len(YearSeq(q))
    /\ a = "us_calendar" => Len(heard) < Len(UsDocuments(q))

TaskFields == {"cursor", "done", "owner", "counted", "read", "old"}
TaskOK(a, t, d, F, R) ==
    /\ DOMAIN t = TaskFields
    /\ CursorFor(t.cursor, d) /\ Stored(a, t.cursor, F)
    /\ t.done => ToSet(View(a, t.read, d)) \subseteq F
    /\ t.counted \subseteq R

WorkFields == {"pc", "date", "cursor", "recovering", "heard", "standing", "page", "left"}
Paging == {"reject", "commit", "complete"}
WorkOK(a, s, k, F, R, D) ==
    /\ DOMAIN k = WorkFields
    /\ k.pc \in {"idle", "fetch", "recover"} \cup Paging
    /\ Stored(a, k.cursor, F)
    /\ k.pc # "idle" => k.date \in D
    /\ k.pc = "fetch" => HeardOK(k.heard) /\ More(a, s, k.heard, k.date)
    /\ k.pc \in {"idle", "recover"} => k.heard = <<>>
    /\ k.pc \in Paging =>
          /\ CursorFor(k.cursor, k.date)
          /\ Fits(a, k.page, k.date, k.cursor)
          /\ \A r \in k.page.rejected \ k.left : <<k.date, r>> \in R
    /\ k.pc \in {"commit", "complete"} => k.left = {}
    /\ k.pc = "complete" => ToSet(k.page.items) \subseteq F

IInv ==
    /\ adapter \in BarAdapters \cup LiveAdapters
    /\ SourceOK(adapter, source)
    /\ DOMAIN task \subseteq Dates
    /\ \A d \in DOMAIN task : TaskOK(adapter, task[d], d, facts, rejections)
    /\ DOMAIN work = Workers
    /\ \A w \in Workers : WorkOK(adapter, source, work[w], facts, rejections, DOMAIN task)
    /\ Stored(adapter, mark, facts)

LEMMA ViewIsSnapshot == \A m, q : Snapshot(m, q) = View(adapter, m, q)
  BY DEF Snapshot, View

LEMMA FitsIsPageOK ==
    ASSUME NEW page, NEW q, NEW c, PageOK(page, q, c) PROVE Fits(adapter, page, q, c)
  BY ViewIsSnapshot DEF PageOK, Fits

\* What is stored stays stored.
LEMMA StoredGrows ==
    ASSUME NEW a, NEW c, NEW F, NEW F2, F \subseteq F2, Stored(a, c, F)
    PROVE  Stored(a, c, F2)
  BY DEF Stored

LEMMA TaskGrows ==
    ASSUME NEW a, NEW t, NEW d, NEW F, NEW F2, F \subseteq F2, NEW R, NEW R2, R \subseteq R2,
           TaskOK(a, t, d, F, R)
    PROVE  TaskOK(a, t, d, F2, R2)
  <1>1. Stored(a, t.cursor, F2)
    BY StoredGrows DEF TaskOK
  <1>2. QED
    BY <1>1 DEF TaskOK

LEMMA WorkGrows ==
    ASSUME NEW a, NEW s, NEW k, NEW F, NEW F2, F \subseteq F2, NEW R, NEW R2, R \subseteq R2,
           NEW D, WorkOK(a, s, k, F, R, D)
    PROVE  WorkOK(a, s, k, F2, R2, D)
  <1>1. Stored(a, k.cursor, F2)
    BY StoredGrows DEF WorkOK
  <1>2. QED
    BY <1>1 DEF WorkOK

\* A worker's step: its own record, and what is stored, which grows.
LEMMA WorkerMoves ==
    ASSUME IInv, NEW w \in Workers, adapter' = adapter, source' = source,
           facts \subseteq facts', rejections \subseteq rejections', task' = task,
           Stored(adapter, mark', facts'), DOMAIN work' = Workers,
           \A v \in Workers \ {w} : work'[v] = work[v],
           WorkOK(adapter, source, work'[w], facts', rejections', DOMAIN task)
    PROVE  IInv'
  <1>1. \A d \in DOMAIN task : TaskOK(adapter, task[d], d, facts', rejections')
    BY TaskGrows DEF IInv
  <1>2. \A v \in Workers : WorkOK(adapter, source, work'[v], facts', rejections', DOMAIN task)
    BY WorkGrows DEF IInv
  <1>3. QED
    BY <1>1, <1>2 DEF IInv

----------------------------------------------------------------------------
(* What is heard. *)

LEMMA NothingHeard == HeardOK(<<>>) /\ Len(<<>>) = 0 /\ DOMAIN <<>> = {}
  <1>1. <<>> \in Seq({})
    BY EmptySeq
  <1>2. IsSeq(<<>>)
    BY <1>1, SeqOfAny
  <1>3. Len(<<>>) = 0 /\ DOMAIN <<>> = {}
    OBVIOUS
  <1>4. QED
    BY <1>2, <1>3 DEF HeardOK

LEMMA HeardMore ==
    ASSUME NEW heard, HeardOK(heard), NEW doc, IsSeq(doc.rows)
    PROVE  /\ HeardOK(Append(heard, doc)) /\ Append(heard, doc) # <<>>
           /\ Len(Append(heard, doc)) = Len(heard) + 1
  <1> DEFINE more == Append(heard, doc)
  <1>1. /\ IsSeq(more) /\ Len(more) = Len(heard) + 1
        /\ \A i \in 1..Len(heard) : more[i] = heard[i]
        /\ more[Len(heard) + 1] = doc
    BY AppendSeq DEF HeardOK
  <1>2. Len(heard) \in Nat /\ DOMAIN heard = 1..Len(heard) /\ DOMAIN more = 1..(Len(heard) + 1)
    BY <1>1, SeqForm DEF HeardOK
  <1> HIDE DEF more
  <1>3. \A i \in DOMAIN more : IsSeq(more[i].rows)
    <2> SUFFICES ASSUME NEW i \in DOMAIN more PROVE IsSeq(more[i].rows)
      OBVIOUS
    <2>1. CASE i = Len(heard) + 1
      BY <1>1, <2>1
    <2>2. CASE i \in 1..Len(heard)
      BY <1>1, <1>2, <2>2 DEF HeardOK
    <2>3. QED
      BY <1>2, <2>1, <2>2
  <1>4. more # <<>>
    BY <1>1, <1>2, NothingHeard
  <1>5. QED
    BY <1>1, <1>3, <1>4 DEF HeardOK, more

LEMMA YearsForm ==
    ASSUME NEW q \in Dates
    PROVE  /\ IsSeq(YearSeq(q)) /\ Len(YearSeq(q)) \in {1, 2}
           /\ \A i \in 1..Len(YearSeq(q)) : YearSeq(q)[i] \in {1, 2}
  <1>1. Years(q) \subseteq {1, 2} /\ Years(q) # {}
    BY DatesAssumption DEF Years, YearOf
  <1>2. Years(q) = {1} \/ Years(q) = {2} \/ Years(q) = {1, 2}
    BY <1>1
  <1>3. Cardinality({1}) = 1 /\ Cardinality({2}) = 1 /\ Cardinality({1, 2}) = 2
    <2>1. {1, 2} = {1} \cup {2} /\ 2 \notin {1}
      OBVIOUS
    <2>2. IsFiniteSet({1}) /\ Cardinality({1}) = 1 /\ Cardinality({2}) = 1
      BY FS_Singleton
    <2>3. Cardinality({1} \cup {2}) = Cardinality({1}) + 1
      BY <2>1, <2>2, FS_AddElement
    <2>4. QED
      BY <2>1, <2>2, <2>3
  <1> DEFINE n == Cardinality(Years(q))
             years == YearSeq(q)
  <1>4. n \in {1, 2} /\ (n = 2 => 1 \in Years(q))
    BY <1>2, <1>3
  <1>5. /\ DOMAIN years = 1..n /\ years = [i \in 1..n |-> years[i]]
        /\ \A i \in 1..n : years[i] = IF 1 \in Years(q) THEN i ELSE i + 1
    BY DEF YearSeq
  <1> HIDE DEF n, years
  <1>6. IsSeq(years) /\ Len(years) = n
    BY <1>4, <1>5, SeqByLength
  <1>7. \A i \in 1..n : years[i] \in {1, 2}
    BY <1>4, <1>5
  <1>8. QED
    BY <1>4, <1>6, <1>7 DEF years

LEMMA DocumentsForm ==
    ASSUME NEW q \in Dates
    PROVE  /\ Len(UsDocuments(q)) \in Nat \ {0}
           /\ \A i \in 1..Len(UsDocuments(q)) : UsDocuments(q)[i] \in 1..4
  <1> DEFINE years == YearSeq(q)
             bea == [i \in DOMAIN years |-> 2 + years[i]]
             S == {1, 2, 3, 4}
  <1>1. /\ IsSeq(years) /\ Len(years) \in {1, 2} /\ DOMAIN years = 1..Len(years)
        /\ \A i \in 1..Len(years) : years[i] \in {1, 2}
    BY YearsForm, SeqForm
  <1>2. UsDocuments(q) = years \o bea
    BY DEF UsDocuments
  <1>3. /\ DOMAIN bea = DOMAIN years /\ bea = [i \in DOMAIN years |-> bea[i]]
        /\ \A i \in DOMAIN years : bea[i] = 2 + years[i]
    OBVIOUS
  <1> HIDE DEF years, bea
  <1>4. IsSeq(bea) /\ Len(bea) = Len(years)
    BY <1>1, <1>3, SeqByLength
  <1>5. \A i \in 1..Len(bea) : bea[i] \in S
    BY <1>1, <1>3, <1>4
  <1>6. \A i \in 1..Len(years) : years[i] \in S
    BY <1>1
  <1>7. years \in Seq(S) /\ bea \in Seq(S)
    <2>1. years \in [1..Len(years) -> S] /\ bea \in [1..Len(bea) -> S]
      BY <1>1, <1>4, <1>5, <1>6, SeqForm
    <2>2. Len(years) \in Nat /\ Len(bea) \in Nat
      BY <1>1, <1>4
    <2>3. QED
      BY <2>1, <2>2, SeqDef
  <1>8. years \o bea \in Seq(S) /\ Len(years \o bea) = Len(years) + Len(bea)
    BY <1>7, ConcatProperties
  <1>9. \A i \in 1..Len(years \o bea) : (years \o bea)[i] \in S
    BY <1>8, LenProperties
  <1>10. QED
    BY <1>1, <1>2, <1>4, <1>8, <1>9

\* A worker that has heard nothing yet has a document to ask for.
LEMMA MoreAtFirst ==
    ASSUME NEW a, NEW s, SourceOK(a, s), NEW q \in Dates PROVE More(a, s, <<>>, q)
  <1>1. Len(s) \in Nat /\ Len(s) >= Least(a)
    BY SeqForm DEF SourceOK
  <1>2. a \in {"twelve_data", "baostock"} => Least(a) = 1
    BY DEF Least
  <1>3. QED
    BY <1>1, <1>2, NothingHeard, YearsForm, DocumentsForm DEF More

LEMMA SourceRows ==
    ASSUME NEW a, NEW s, SourceOK(a, s)
    PROVE  /\ Len(s) \in Nat /\ Len(s) >= 1 /\ DOMAIN s = 1..Len(s)
           /\ a = "censtatd" => Len(s) >= 2
           /\ a = "us_calendar" => Len(s) >= 4
           /\ \A p \in 1..Len(s) : IsSeq(s[p].rows)
           /\ HeardOK(s) /\ s # <<>>
  <1>1. Len(s) \in Nat /\ DOMAIN s = 1..Len(s) /\ Len(s) >= Least(a)
    BY SeqForm DEF SourceOK
  <1>2. Least(a) \in 1..4 /\ (a = "censtatd" => Least(a) = 2) /\ (a = "us_calendar" => Least(a) = 4)
    BY DEF Least
  <1>3. s # <<>>
    BY <1>1, <1>2, NothingHeard
  <1>4. QED
    BY <1>1, <1>2, <1>3 DEF SourceOK, HeardOK

LEMMA HkmaAnswer ==
    ASSUME NEW s, SourceOK("hkma", s), NEW heard, HeardOK(heard)
    PROVE  HeardOK(HkmaHears(s, heard)) /\ HkmaHears(s, heard) # <<>>
  <1> DEFINE n == Len(HkmaRecords(heard))
             rows == s[1].rows
             parts == [i \in DOMAIN heard |-> heard[i].rows]
             last == Min({n + UpstreamLimit, Len(rows)})
             doc == [size |-> IF s[1].stated THEN <<Len(rows)>> ELSE <<>>,
                     drift |-> s[1].drift, rows |-> SubSeq(rows, n + 1, last)]
  <1>1. n \in Nat
    <2>1. HkmaRecords(heard) = FlattenSeq(parts)
      BY DEF HkmaRecords
    <2>2. DOMAIN parts = DOMAIN heard /\ parts = [i \in DOMAIN heard |-> parts[i]]
      OBVIOUS
    <2>3. \A i \in DOMAIN parts : IsSeq(parts[i])
      BY DEF HeardOK
    <2> HIDE DEF parts
    <2>4. IsSeq(parts)
      BY <2>2, SeqForm, SeqByLength DEF HeardOK
    <2>5. QED
      BY <2>1, <2>3, <2>4, FlattenSeqSeq, SeqForm
  <1>2. Len(rows) \in Nat
    BY SourceRows, SeqForm
  <1>3. last \in Nat
    BY <1>1, <1>2, UpstreamAssumption, LeastForm
  <1>4. HkmaHears(s, heard) = Append(heard, doc)
    BY DEF HkmaHears
  <1>5. doc.rows = SubSeq(rows, n + 1, last)
    OBVIOUS
  <1> HIDE DEF doc, n, last
  <1>6. IsSeq(doc.rows)
    BY <1>1, <1>3, <1>5, SubSeqSeq
  <1>7. QED
    BY <1>4, <1>6, HeardMore

\* An answer is heard, and there is another to ask for unless it is the last.
LEMMA AnswerHeard ==
    ASSUME adapter \in BarAdapters \cup LiveAdapters, SourceOK(adapter, source),
           NEW q \in Dates, NEW heard, HeardOK(heard), More(adapter, source, heard, q)
    PROVE  /\ HeardOK(Hears(heard, q)) /\ Hears(heard, q) # <<>>
           /\ ~HeardAll(Hears(heard, q), q) => More(adapter, source, Hears(heard, q), q)
  <1> DEFINE more == Hears(heard, q)
  <1>1. Len(heard) \in Nat
    BY SeqForm DEF HeardOK
  <1>2. CASE adapter \in {"twelve_data", "baostock"}
    <2>1. more = Append(heard, source[Len(heard) + 1])
      BY <1>2 DEF Hears, TwelveDataHears, BaoStockHears
    <2>2. Len(heard) + 1 \in 1..Len(source)
      BY <1>1, <1>2, SourceRows DEF More
    <2>3. HeardOK(more) /\ more # <<>> /\ Len(more) = Len(heard) + 1
      BY <2>1, <2>2, SourceRows, HeardMore
    <2>4. ~HeardAll(more, q) => Len(more) # Len(source)
      BY <1>2 DEF HeardAll, BarsHeard, BarAdapters
    <2> HIDE DEF more
    <2>5. QED
      BY <1>1, <1>2, <2>2, <2>3, <2>4, SourceRows DEF More, more
  <1>3. CASE adapter = "xtquant"
    <2>1. more = source
      BY <1>3 DEF Hears, XtQuantHears
    <2>2. HeardAll(more, q)
      BY <1>3, <2>1 DEF HeardAll, BarsHeard, BarAdapters
    <2>3. QED
      BY <2>1, <2>2, SourceRows
  <1>4. CASE adapter = "hkma"
    <2>1. more = HkmaHears(source, heard)
      BY <1>4 DEF Hears
    <2>2. QED
      BY <1>4, <2>1, HkmaAnswer DEF More
  <1>5. CASE adapter = "censtatd"
    <2>1. more = Append(heard, source[YearSeq(q)[Len(heard) + 1]])
      BY <1>5 DEF Hears, CenstatdHears
    <2>2. Len(heard) + 1 \in 1..Len(YearSeq(q))
      BY <1>1, <1>5, YearsForm DEF More
    <2>3. YearSeq(q)[Len(heard) + 1] \in 1..Len(source)
      BY <1>5, <2>2, YearsForm, SourceRows
    <2>4. HeardOK(more) /\ more # <<>> /\ Len(more) = Len(heard) + 1
      BY <2>1, <2>3, SourceRows, HeardMore
    <2>5. ~HeardAll(more, q) => Len(more) # Len(YearSeq(q))
      BY <1>5 DEF HeardAll, BarAdapters
    <2> HIDE DEF more
    <2>6. QED
      BY <1>1, <1>5, <2>2, <2>4, <2>5, YearsForm DEF More, more
  <1>6. CASE adapter = "us_calendar"
    <2>1. more = Append(heard, source[UsDocuments(q)[Len(heard) + 1]])
      BY <1>6 DEF Hears, UsHears
    <2>2. Len(heard) + 1 \in 1..Len(UsDocuments(q))
      BY <1>1, <1>6, DocumentsForm DEF More
    <2>3. UsDocuments(q)[Len(heard) + 1] \in 1..Len(source)
      BY <1>6, <2>2, DocumentsForm, SourceRows
    <2>4. HeardOK(more) /\ more # <<>> /\ Len(more) = Len(heard) + 1
      BY <2>1, <2>3, SourceRows, HeardMore
    <2>5. ~HeardAll(more, q) => Len(more) # Len(UsDocuments(q))
      BY <1>6 DEF HeardAll, BarAdapters
    <2> HIDE DEF more
    <2>6. QED
      BY <1>1, <1>6, <2>2, <2>4, <2>5, DocumentsForm DEF More, more
  <1>7. CASE adapter \in {"nbs_release", "nbs_news"}
    <2>1. more = <<source[1]>>
      BY <1>7 DEF Hears
    <2>2. more # <<>>
      BY <2>1
    <2>3. HeardOK(more)
      <3>1. IsSeq(source[1].rows)
        BY SourceRows
      <3>2. <<source[1]>> \in Seq({source[1]})
        OBVIOUS
      <3>3. IsSeq(<<source[1]>>)
        BY <3>2, SeqOfAny
      <3>4. DOMAIN <<source[1]>> = {1} /\ <<source[1]>>[1] = source[1]
        OBVIOUS
      <3> HIDE DEF more
      <3>5. QED
        BY <2>1, <3>1, <3>3, <3>4 DEF HeardOK
    <2>4. QED
      BY <1>7, <2>2, <2>3 DEF More
  <1>8. QED
    BY <1>2, <1>3, <1>4, <1>5, <1>6, <1>7 DEF BarAdapters, LiveAdapters
----------------------------------------------------------------------------
(* Where a page leads. *)

LEMMA PrefixForm ==
    ASSUME NEW s, NEW n \in Nat, NEW F
    PROVE  (\A i \in 1..n : s[i] \in F) <=> ToSet(SubSeq(s, 1, n)) \subseteq F
  <1> DEFINE p == SubSeq(s, 1, n)
  <1>1. IsSeq(p) /\ Len(p) = n /\ \A i \in 1..n : p[i] = s[i]
    BY SubSeqSeq
  <1>2. DOMAIN p = 1..n
    BY <1>1, SeqForm
  <1> HIDE DEF p
  <1>3. (\A i \in 1..n : s[i] \in F) <=> ToSet(p) \subseteq F
    BY <1>1, <1>2 DEF ToSet
  <1>4. QED
    BY <1>3 DEF p

LEMMA ReachForm ==
    ASSUME NEW items, IsSeq(items), NEW c, c.offset \in Nat, c.offset <= Len(items)
    PROVE  LET n == Reach(items, c)
           IN  /\ n \in Nat /\ c.offset <= n /\ n <= Len(items)
               /\ n < Len(items) => n > c.offset
  <1>1. Len(items) \in Nat
    BY SeqForm
  <1> DEFINE T == {c.offset + Limit, Len(items)}
  <1>2. T \subseteq Nat /\ T # {}
    BY <1>1, LimitAssumption
  <1>3. Min(T) \in T /\ \A y \in T : Min(T) <= y
    BY <1>2, LeastForm
  <1>4. Reach(items, c) = Min(T)
    BY DEF Reach
  <1>5. Limit \in Nat \ {0}
    BY LimitAssumption
  <1>6. \/ Reach(items, c) = c.offset + Limit /\ Reach(items, c) <= Len(items)
        \/ Reach(items, c) = Len(items) /\ Reach(items, c) <= c.offset + Limit
    BY <1>3, <1>4
  <1>7. QED
    BY <1>1, <1>5, <1>6

LEMMA LeadForm ==
    ASSUME NEW items, NEW q, q # 0, NEW m, NEW n
    PROVE  /\ n < Len(items) =>
                 /\ Lead(items, q, m, n) # NoCursor /\ Lead(items, q, m, n).query = q
                 /\ Lead(items, q, m, n).offset = n /\ Lead(items, q, m, n).mark = m
           /\ ~(n < Len(items)) => Lead(items, q, m, n) = NoCursor
  BY DEF Lead, NoCursor

\* A page that is stored, after what its cursor had before its place, leads
\* to a cursor whose snapshot is stored up to its place.
LEMMA PageStored ==
    ASSUME NEW a, NEW page, NEW q, q # 0, NEW c, NEW F, Fits(a, page, q, c), CursorFor(c, q),
           Stored(a, c, F), ToSet(page.items) \subseteq F
    PROVE  /\ Stored(a, page.next, F) /\ CursorFor(page.next, q)
           /\ page.next = NoCursor => ToSet(View(a, page.mark, q)) \subseteq F
  <1> DEFINE items == View(a, page.mark, q)
             n == Reach(items, c)
  <1>1. /\ IsSeq(items) /\ SameSnapshot(page.mark, c)
        /\ c.offset \in Nat /\ c.offset <= Len(items)
        /\ page.items = SubSeq(items, c.offset + 1, n)
        /\ page.next = Lead(items, q, page.mark, n)
    BY DEF Fits
  <1> HIDE DEF items, n
  <1>2. n \in Nat /\ c.offset <= n /\ n <= Len(items) /\ Len(items) \in Nat
    BY <1>1, ReachForm, SeqForm DEF n
  <1>3. \A i \in 1..c.offset : items[i] \in F
    <2>1. CASE c = NoCursor
      BY <2>1 DEF NoCursor
    <2>2. CASE c # NoCursor
      <3>1. View(a, c.mark, c.query) = items
        BY <1>1, <2>2 DEF SameSnapshot, CursorFor, items
      <3>2. QED
        BY <1>1, <2>2, <3>1, PrefixForm DEF Stored
    <2>3. QED
      BY <2>1, <2>2
  <1>4. \A i \in (c.offset + 1)..n : items[i] \in F
    <2>1. /\ IsSeq(page.items)
          /\ Len(page.items) = IF c.offset + 1 <= n THEN n - c.offset ELSE 0
          /\ \A k \in 1..(n - (c.offset + 1) + 1) : page.items[k] = items[c.offset + 1 + k - 1]
      BY <1>1, <1>2, SubSeqSeq
    <2> SUFFICES ASSUME NEW i \in (c.offset + 1)..n PROVE items[i] \in F
      OBVIOUS
    <2> DEFINE k == i - c.offset
    <2>2. k \in 1..(n - (c.offset + 1) + 1) /\ c.offset + 1 + k - 1 = i
      BY <1>1, <1>2
    <2>3. page.items[k] = items[i]
      BY <2>1, <2>2
    <2>4. k \in DOMAIN page.items
      BY <1>1, <1>2, <2>1, <2>2, SeqForm
    <2>5. QED
      BY <2>3, <2>4 DEF ToSet
  <1>5. \A i \in 1..n : items[i] \in F
    BY <1>1, <1>2, <1>3, <1>4
  <1>6. CASE n < Len(items)
    <2>1. /\ page.next # NoCursor /\ page.next.query = q
          /\ page.next.offset = n /\ page.next.mark = page.mark
      BY <1>1, <1>6, LeadForm
    <2>2. ToSet(SubSeq(items, 1, n)) \subseteq F
      BY <1>2, <1>5, PrefixForm
    <2>3. QED
      BY <1>2, <2>1, <2>2 DEF Stored, CursorFor, items
  <1>7. CASE ~(n < Len(items))
    <2>1. page.next = NoCursor /\ n = Len(items)
      BY <1>1, <1>2, <1>7, LeadForm
    <2>2. ToSet(items) \subseteq F
      BY <1>1, <1>5, <2>1, SeqForm DEF ToSet
    <2>3. QED
      BY <2>1, <2>2 DEF Stored, CursorFor, items
  <1>8. QED
    BY <1>6, <1>7
----------------------------------------------------------------------------
(* The handlers preserve the invariant. *)

LEMMA RestOK ==
    ASSUME NEW a, NEW s, NEW F, NEW R, NEW D PROVE WorkOK(a, s, AtRest, F, R, D)
  <1>1. /\ DOMAIN AtRest = WorkFields /\ AtRest.pc = "idle"
        /\ AtRest.cursor = NoCursor /\ AtRest.heard = <<>>
    BY DEF AtRest, WorkFields
  <1>2. QED
    BY <1>1 DEF WorkOK, Stored, Paging

LEMMA Rests ==
    ASSUME IInv, NEW w \in Workers, Rest(w),
           UNCHANGED <<adapter, source, task, facts, rejections, mark>>
    PROVE  IInv'
  <1>1. /\ DOMAIN work' = Workers /\ work'[w] = AtRest
        /\ \A v \in Workers \ {w} : work'[v] = work[v]
    BY DEF IInv, Rest
  <1>2. QED
    BY <1>1, RestOK, WorkerMoves DEF IInv

LEMMA Takes ==
    ASSUME IInv, NEW w \in Workers, NEW d \in DOMAIN task, Take(w, d)
    PROVE  IInv'
  <1>1. /\ task' = [task EXCEPT ![d].owner = w]
        /\ work' = [work EXCEPT ![w] = [AtRest EXCEPT !.pc = "fetch", !.date = d,
                                                      !.cursor = task[d].cursor]]
        /\ UNCHANGED <<adapter, source, facts, rejections, mark>>
    BY DEF Take
  <1>2. /\ DOMAIN task' = DOMAIN task
        /\ \A e \in DOMAIN task : TaskOK(adapter, task'[e], e, facts, rejections)
    <2>1. DOMAIN task' = DOMAIN task
      BY <1>1
    <2> SUFFICES ASSUME NEW e \in DOMAIN task
                 PROVE  TaskOK(adapter, task'[e], e, facts, rejections)
      BY <2>1
    <2>2. TaskOK(adapter, task[e], e, facts, rejections)
      BY DEF IInv
    <2>3. /\ DOMAIN task'[e] = DOMAIN task[e]
          /\ \A f \in TaskFields \ {"owner"} : task'[e][f] = task[e][f]
      BY <1>1, <2>2 DEF TaskOK, TaskFields
    <2>4. QED
      BY <2>2, <2>3 DEF TaskOK, TaskFields
  <1>3. /\ DOMAIN work' = Workers /\ \A v \in Workers \ {w} : work'[v] = work[v]
        /\ DOMAIN work'[w] = WorkFields
        /\ work'[w].pc = "fetch" /\ work'[w].date = d /\ work'[w].heard = <<>>
        /\ work'[w].cursor = task[d].cursor
    BY <1>1 DEF IInv, AtRest, WorkFields
  <1>4. d \in Dates /\ Stored(adapter, task[d].cursor, facts)
    BY DEF IInv, TaskOK
  <1>5. HeardOK(<<>>) /\ More(adapter, source, <<>>, d)
    BY <1>4, NothingHeard, MoreAtFirst DEF IInv
  <1>6. WorkOK(adapter, source, work'[w], facts, rejections, DOMAIN task)
    BY <1>3, <1>4, <1>5 DEF WorkOK, Paging
  <1>7. QED
    BY <1>1, <1>2, <1>3, <1>6 DEF IInv

LEMMA AnsweredOK ==
    ASSUME IInv, NEW w \in Workers, work[w].pc = "fetch", NEW page,
           UNCHANGED <<adapter, source, task, facts, rejections, mark>>,
           DOMAIN work' = Workers, \A v \in Workers \ {w} : work'[v] = work[v],
           DOMAIN work'[w] = WorkFields,
           \A f \in WorkFields \ {"standing"} : work'[w][f] = Answered(w, page)[w][f],
           page.error = "none" =>
              /\ CursorFor(work[w].cursor, work[w].date)
              /\ Fits(adapter, page, work[w].date, work[w].cursor)
    PROVE  IInv'
  <1> DEFINE k == work[w]
             K == work'[w]
  <1>1. WorkOK(adapter, source, k, facts, rejections, DOMAIN task)
    BY DEF IInv
  <1>2. k.date \in DOMAIN task /\ Stored(adapter, k.cursor, facts) /\ DOMAIN k = WorkFields
    BY <1>1 DEF WorkOK
  <1>3. CASE page.error = "none"
    <2>1. /\ K.pc = "reject" /\ K.page = page /\ K.left = page.rejected
          /\ K.heard = <<>> /\ K.date = k.date /\ K.cursor = k.cursor
      BY <1>2, <1>3 DEF Answered, WorkFields, IInv
    <2> HIDE DEF K, k
    <2>2. WorkOK(adapter, source, K, facts, rejections, DOMAIN task)
      BY <1>2, <1>3, <2>1 DEF WorkOK, Paging, K, k
    <2>3. QED
      BY <2>2, WorkerMoves DEF K, IInv
  <1>4. CASE page.error # "none" /\ adapter = "twelve_data" /\ page.error \in CursorErrors /\ ~k.recovering
    <2> DEFINE A == Answered(w, page)[w]
    <2>0. A.pc = "recover" /\ A.heard = <<>> /\ A.date = k.date /\ A.cursor = k.cursor
      <3>1. Answered(w, page) =
               [work EXCEPT ![w].pc = "recover", ![w].heard = <<>>, ![w].standing = {}]
        BY <1>4 DEF Answered
      <3>2. DOMAIN work = Workers
        BY DEF IInv
      <3>3. QED
        BY <1>2, <3>1, <3>2 DEF WorkFields
    <2>1. K.pc = "recover" /\ K.heard = <<>> /\ K.date = k.date /\ K.cursor = k.cursor
      BY <2>0 DEF WorkFields
    <2> HIDE DEF K, k
    <2>2. WorkOK(adapter, source, K, facts, rejections, DOMAIN task)
      BY <1>2, <2>1 DEF WorkOK, Paging, K
    <2>3. QED
      BY <2>2, WorkerMoves DEF K, IInv
  <1>5. CASE page.error # "none" /\ ~(adapter = "twelve_data" /\ page.error \in CursorErrors /\ ~k.recovering)
    <2>1. Answered(w, page)[w] = AtRest
      BY <1>5 DEF Answered, IInv
    <2>2. K.pc = "idle" /\ K.heard = <<>> /\ K.cursor = NoCursor
      BY <2>1 DEF WorkFields, AtRest
    <2> HIDE DEF K, k
    <2>3. WorkOK(adapter, source, K, facts, rejections, DOMAIN task)
      BY <2>2 DEF WorkOK, Paging, K, Stored
    <2>4. QED
      BY <2>3, WorkerMoves DEF K, IInv
  <1>6. QED
    BY <1>3, <1>4, <1>5

LEMMA AnsweredShape ==
    ASSUME IInv, NEW w \in Workers, NEW page
    PROVE  /\ DOMAIN Answered(w, page) = Workers
           /\ \A v \in Workers \ {w} : Answered(w, page)[v] = work[v]
           /\ DOMAIN Answered(w, page)[w] = WorkFields
  <1>1. DOMAIN work = Workers /\ DOMAIN work[w] = WorkFields
    BY DEF IInv, WorkOK
  <1>2. DOMAIN AtRest = WorkFields
    BY DEF AtRest, WorkFields
  <1>3. \/ Answered(w, page) = [work EXCEPT ![w].pc = "reject", ![w].page = page,
                                            ![w].left = page.rejected, ![w].heard = <<>>]
        \/ Answered(w, page) = [work EXCEPT ![w].pc = "recover", ![w].heard = <<>>,
                                            ![w].standing = {}]
        \/ Answered(w, page) = [work EXCEPT ![w] = AtRest]
    BY DEF Answered
  <1>4. QED
    BY <1>1, <1>2, <1>3

LEMMA Asks ==
    ASSUME IInv, NEW w \in Workers, Ask(w)
    PROVE  IInv'
  <1> DEFINE k == work[w]
             q == k.date
             heard == Hears(k.heard, q)
             page == Recovered(w, PageOf(heard, q, k.cursor))
             standing == IF page.error = "none" THEN Stood(w) ELSE {}
  <1>1. /\ k.pc = "fetch" /\ UNCHANGED <<adapter, source, task, facts, rejections, mark>>
        /\ IF ~Decodes(q, k.cursor)
           THEN work' = Answered(w, Refused("INVALID_CURSOR"))
           ELSE IF HeardAll(heard, q)
                THEN work' = [Answered(w, page) EXCEPT ![w].standing = standing]
                ELSE work' = [work EXCEPT ![w].heard = heard, ![w].standing = Stood(w)]
    BY DEF Ask
  <1>2. /\ DOMAIN k = WorkFields /\ Stored(adapter, k.cursor, facts)
        /\ q \in DOMAIN task /\ HeardOK(k.heard) /\ More(adapter, source, k.heard, q)
    BY <1>1 DEF IInv, WorkOK
  <1>3. /\ q \in Dates /\ adapter \in BarAdapters \cup LiveAdapters /\ SourceOK(adapter, source)
    BY <1>2 DEF IInv
  <1>4. /\ HeardOK(heard) /\ heard # <<>>
        /\ ~HeardAll(heard, q) => More(adapter, source, heard, q)
    BY <1>2, <1>3, AnswerHeard
  <1> HIDE DEF heard, standing
  <1>5. CASE ~Decodes(q, k.cursor)
    <2> DEFINE none == Refused("INVALID_CURSOR")
    <2>1. none.error # "none"
      BY RefusedForm
    <2> HIDE DEF none
    <2>2. work' = Answered(w, none)
      BY <1>1, <1>5 DEF none
    <2>3. QED
      BY <1>1, <2>1, <2>2, AnsweredShape, AnsweredOK
  <1>6. CASE Decodes(q, k.cursor) /\ HeardAll(heard, q)
    <2>1. page.error = "none" => page = PageOf(heard, q, k.cursor)
      BY RefusedForm DEF Recovered
    <2>2. CursorFor(k.cursor, q)
      BY <1>6 DEF CursorFor, Decodes
    <2>3. k.cursor.offset \in Nat
      BY <1>2 DEF Stored, NoCursor
    <2>4. page.error = "none" => Fits(adapter, page, q, k.cursor)
      BY <1>3, <1>4, <2>1, <2>3, PageForm, FitsIsPageOK
    <2> HIDE DEF page
    <2> DEFINE A == Answered(w, page)
    <2>5. work' = [A EXCEPT ![w].standing = standing]
      BY <1>1, <1>6
    <2>6. /\ DOMAIN A = Workers /\ DOMAIN A[w] = WorkFields
          /\ \A v \in Workers \ {w} : A[v] = work[v]
      BY AnsweredShape
    <2> HIDE DEF A
    <2>7. /\ DOMAIN work' = Workers /\ DOMAIN work'[w] = WorkFields
          /\ \A v \in Workers \ {w} : work'[v] = work[v]
          /\ \A f \in WorkFields \ {"standing"} : work'[w][f] = A[w][f]
      BY <2>5, <2>6
    <2>8. QED
      BY <1>1, <2>2, <2>4, <2>7, AnsweredOK DEF A
  <1>7. CASE Decodes(q, k.cursor) /\ ~HeardAll(heard, q)
    <2>1. work' = [work EXCEPT ![w].heard = heard, ![w].standing = Stood(w)]
      BY <1>1, <1>7
    <2>2. /\ DOMAIN work' = Workers /\ \A v \in Workers \ {w} : work'[v] = work[v]
          /\ DOMAIN work'[w] = WorkFields
          /\ work'[w].pc = "fetch" /\ work'[w].heard = heard
          /\ work'[w].date = q /\ work'[w].cursor = k.cursor
      BY <1>1, <1>2, <2>1 DEF IInv, WorkFields
    <2>3. WorkOK(adapter, source, work'[w], facts, rejections, DOMAIN task)
      BY <1>2, <1>4, <1>7, <2>2 DEF WorkOK, Paging
    <2>4. QED
      BY <1>1, <2>2, <2>3, WorkerMoves DEF IInv
  <1>8. QED
    BY <1>5, <1>6, <1>7

LEMMA Recovers ==
    ASSUME IInv, NEW w \in Workers, Recover(w)
    PROVE  IInv'
  <1>1. work[w].pc = "recover" /\ UNCHANGED <<adapter, source, task, facts, rejections, mark>>
    BY DEF Recover
  <1>2. CASE mark = NoCursor
    BY <1>1, <1>2, Rests DEF Recover
  <1>3. CASE mark # NoCursor
    <2>1. work' = [work EXCEPT ![w].pc = "fetch", ![w].cursor = mark, ![w].recovering = TRUE]
      BY <1>3 DEF Recover
    <2>2. DOMAIN work[w] = WorkFields /\ work[w].heard = <<>> /\ work[w].date \in DOMAIN task
      BY <1>1 DEF IInv, WorkOK
    <2>3. /\ DOMAIN work' = Workers /\ \A v \in Workers \ {w} : work'[v] = work[v]
          /\ DOMAIN work'[w] = WorkFields
          /\ work'[w].pc = "fetch" /\ work'[w].heard = <<>>
          /\ work'[w].date = work[w].date /\ work'[w].cursor = mark
      BY <2>1, <2>2 DEF IInv, WorkFields
    <2>4. HeardOK(<<>>) /\ More(adapter, source, <<>>, work[w].date)
      BY <2>2, NothingHeard, MoreAtFirst DEF IInv
    <2>5. WorkOK(adapter, source, work'[w], facts, rejections, DOMAIN task)
      BY <2>2, <2>3, <2>4 DEF WorkOK, Paging, IInv
    <2>6. QED
      BY <1>1, <2>3, <2>5, WorkerMoves DEF IInv
  <1>4. QED
    BY <1>2, <1>3

LEMMA Rejects ==
    ASSUME IInv, NEW w \in Workers, Reject(w)
    PROVE  IInv'
  <1> DEFINE k == work[w]
             K == work'[w]
  <1>1. k.pc = "reject" /\ UNCHANGED <<adapter, source, task, facts, mark>>
    BY DEF Reject
  <1>2. /\ WorkOK(adapter, source, k, facts, rejections, DOMAIN task)
        /\ DOMAIN k = WorkFields /\ DOMAIN work = Workers
    BY DEF IInv, WorkOK
  <1>3. CASE k.left = {}
    <2>1. work' = [work EXCEPT ![w].pc = "commit"] /\ rejections' = rejections
      BY <1>3 DEF Reject
    <2>2. /\ DOMAIN work' = Workers /\ \A v \in Workers \ {w} : work'[v] = work[v]
          /\ DOMAIN K = WorkFields
          /\ K.pc = "commit" /\ K.left = {} /\ K.page = k.page
          /\ K.date = k.date /\ K.cursor = k.cursor
      BY <1>2, <1>3, <2>1 DEF WorkFields
    <2> HIDE DEF k, K
    <2>3. WorkOK(adapter, source, K, facts, rejections, DOMAIN task)
      BY <1>1, <1>2, <1>3, <2>2 DEF WorkOK, Paging
    <2>4. QED
      BY <1>1, <2>1, <2>2, <2>3, WorkerMoves DEF IInv, K
  <1>4. CASE k.left # {}
    <2>1. PICK r \in k.left : /\ rejections' = rejections \cup {<<k.date, r>>}
                              /\ work' = [work EXCEPT ![w].left = @ \ {r}]
      BY <1>4 DEF Reject
    <2>2. /\ DOMAIN work' = Workers /\ \A v \in Workers \ {w} : work'[v] = work[v]
          /\ DOMAIN K = WorkFields
          /\ K.pc = "reject" /\ K.left = k.left \ {r} /\ K.page = k.page
          /\ K.date = k.date /\ K.cursor = k.cursor
      BY <1>1, <1>2, <2>1 DEF WorkFields
    <2> HIDE DEF k, K
    <2>3. \A x \in K.page.rejected \ K.left : <<K.date, x>> \in rejections'
      BY <1>1, <1>2, <2>1, <2>2 DEF WorkOK, Paging
    <2>4. WorkOK(adapter, source, K, facts, rejections', DOMAIN task)
      BY <1>1, <1>2, <2>2, <2>3 DEF WorkOK, Paging
    <2>5. rejections \subseteq rejections'
      BY <2>1
    <2>6. QED
      BY <1>1, <2>2, <2>4, <2>5, WorkerMoves DEF IInv, K
  <1>5. QED
    BY <1>3, <1>4

LEMMA Commits ==
    ASSUME IInv, NEW w \in Workers, Commit(w)
    PROVE  IInv'
  <1> DEFINE k == work[w]
             K == work'[w]
  <1>1. /\ k.pc = "commit" /\ UNCHANGED <<adapter, source, task, rejections>>
        /\ work' = [work EXCEPT ![w].pc = "complete"]
        /\ IF Reserves(w)
           THEN facts' = facts \cup ToSet(k.page.items) /\ mark' = k.page.next
           ELSE UNCHANGED <<facts, mark>>
    BY DEF Commit, Saved
  <1>2. /\ WorkOK(adapter, source, k, facts, rejections, DOMAIN task)
        /\ DOMAIN k = WorkFields /\ DOMAIN work = Workers
    BY DEF IInv, WorkOK
  <1>3. /\ k.date \in DOMAIN task /\ CursorFor(k.cursor, k.date)
        /\ Fits(adapter, k.page, k.date, k.cursor) /\ Stored(adapter, k.cursor, facts)
    BY <1>1, <1>2 DEF WorkOK, Paging
  <1>4. k.date # 0
    BY <1>3, DatesAssumption DEF IInv
  <1>5. facts \subseteq facts' /\ ToSet(k.page.items) \subseteq facts'
    <2>1. ToSet(<<>>) = {}
      BY DEF ToSet
    <2>2. QED
      BY <1>1, <2>1 DEF Reserves
  <1>6. Stored(adapter, mark', facts')
    <2>1. CASE Reserves(w)
      <3>1. Stored(adapter, k.cursor, facts')
        BY <1>3, <1>5, StoredGrows
      <3>2. QED
        BY <1>1, <1>3, <1>4, <1>5, <2>1, <3>1, PageStored
    <2>2. CASE ~Reserves(w)
      BY <1>1, <2>2 DEF IInv
    <2>3. QED
      BY <2>1, <2>2
  <1>7. /\ DOMAIN work' = Workers /\ \A v \in Workers \ {w} : work'[v] = work[v]
        /\ DOMAIN K = WorkFields
        /\ K.pc = "complete" /\ K.left = k.left /\ K.page = k.page
        /\ K.date = k.date /\ K.cursor = k.cursor
    BY <1>1, <1>2 DEF WorkFields
  <1>8. WorkOK(adapter, source, k, facts', rejections, DOMAIN task)
    BY <1>2, <1>5, WorkGrows
  <1> HIDE DEF k, K
  <1>9. WorkOK(adapter, source, K, facts', rejections, DOMAIN task)
    BY <1>1, <1>5, <1>7, <1>8 DEF WorkOK, Paging
  <1>10. QED
    BY <1>1, <1>5, <1>6, <1>7, <1>9, WorkerMoves DEF K

LEMMA Completes ==
    ASSUME IInv, NEW w \in Workers, Complete(w)
    PROVE  IInv'
  <1> DEFINE k == work[w]
             d == k.date
             page == k.page
             counted == {<<d, r>> : r \in page.rejected}
  <1>1. /\ k.pc = "complete" /\ Rest(w)
        /\ UNCHANGED <<adapter, source, facts, rejections, mark>>
        /\ task' = IF task[d].owner # w THEN task
                   ELSE [task EXCEPT ![d].owner   = NoOne,
                                     ![d].cursor  = page.next,
                                     ![d].done    = (page.next = NoCursor),
                                     ![d].read    = page.mark,
                                     ![d].counted = @ \cup counted]
    BY DEF Complete
  <1>2. CASE task[d].owner # w
    BY <1>1, <1>2, Rests
  <1>3. CASE task[d].owner = w
    <2>1. /\ k.date \in DOMAIN task /\ CursorFor(k.cursor, d) /\ Stored(adapter, k.cursor, facts)
          /\ Fits(adapter, page, d, k.cursor) /\ ToSet(page.items) \subseteq facts
          /\ k.left = {} /\ \A r \in page.rejected \ k.left : <<d, r>> \in rejections
      BY <1>1 DEF IInv, WorkOK, Paging
    <2>2. counted \subseteq rejections
      BY <2>1
    <2>3. d # 0
      BY <2>1, DatesAssumption DEF IInv
    <2>4. /\ Stored(adapter, page.next, facts) /\ CursorFor(page.next, d)
          /\ page.next = NoCursor => ToSet(View(adapter, page.mark, d)) \subseteq facts
      BY <2>1, <2>3, PageStored
    <2>5. TaskOK(adapter, task[d], d, facts, rejections)
      BY <2>1 DEF IInv
    <2>6. \A e \in DOMAIN task \ {d} : task'[e] = task[e]
      BY <1>1, <1>3
    <2>7. DOMAIN task' = DOMAIN task
      BY <1>1, <1>3
    <2> HIDE DEF counted
    <2>8. /\ DOMAIN task'[d] = TaskFields
          /\ task'[d].cursor = page.next /\ task'[d].done = (page.next = NoCursor)
          /\ task'[d].read = page.mark /\ task'[d].counted = task[d].counted \cup counted
      BY <1>1, <1>3, <2>1, <2>5 DEF TaskOK, TaskFields
    <2>9. TaskOK(adapter, task'[d], d, facts, rejections)
      BY <2>2, <2>4, <2>5, <2>8 DEF TaskOK
    <2>10. \A e \in DOMAIN task : TaskOK(adapter, task'[e], e, facts, rejections)
      BY <2>6, <2>9 DEF IInv
    <2>11. /\ DOMAIN work' = Workers /\ work'[w] = AtRest
           /\ \A v \in Workers \ {w} : work'[v] = work[v]
      BY <1>1 DEF IInv, Rest
    <2>12. \A v \in Workers : WorkOK(adapter, source, work'[v], facts, rejections, DOMAIN task)
      BY <2>11, RestOK DEF IInv
    <2>13. QED
      BY <1>1, <2>7, <2>10, <2>11, <2>12 DEF IInv
  <1>4. QED
    BY <1>2, <1>3

LEMMA GrowsOld ==
    ASSUME IInv, NEW d \in Dates, GrowOld(d)
    PROVE  IInv'
  <1>1. /\ d \in DOMAIN task /\ task' = [task EXCEPT ![d].old = TRUE]
        /\ UNCHANGED <<adapter, source, work, facts, rejections, mark>>
    BY DEF GrowOld
  <1>2. DOMAIN task' = DOMAIN task
    BY <1>1
  <1>3. ASSUME NEW e \in DOMAIN task PROVE TaskOK(adapter, task'[e], e, facts, rejections)
    <2>1. TaskOK(adapter, task[e], e, facts, rejections)
      BY DEF IInv
    <2>2. /\ DOMAIN task'[e] = DOMAIN task[e]
          /\ \A f \in TaskFields \ {"old"} : task'[e][f] = task[e][f]
      BY <1>1, <2>1 DEF TaskOK, TaskFields
    <2>3. QED
      BY <2>1, <2>2 DEF TaskOK, TaskFields
  <1>4. QED
    BY <1>1, <1>2, <1>3 DEF IInv

----------------------------------------------------------------------------
(* The source changes. *)

LEMMA RewriteForm ==
    ASSUME NEW a, NEW s, SourceOK(a, s), NEW p \in DOMAIN s, NEW t, DOMAIN t = DOMAIN s,
           IsSeq(t) => Len(t) = Len(s), t = [i \in DOMAIN t |-> t[i]],
           \A i \in DOMAIN s \ {p} : t[i] = s[i],
           DOMAIN t[p] = {"stated", "drift", "rows"}, IsSeq(t[p].rows)
    PROVE  SourceOK(a, t) /\ Len(t) = Len(s)
  <1>1. Len(s) \in Nat /\ DOMAIN s = 1..Len(s)
    BY SeqForm DEF SourceOK
  <1>2. IsSeq(t)
    BY <1>1, SeqByLength
  <1>3. QED
    BY <1>2 DEF SourceOK

LEMMA BecomesOK ==
    ASSUME IInv, NEW s, SourceOK(adapter, s), Len(s) = Len(source), Becomes(s)
    PROVE  IInv'
  <1>1. /\ source' = s /\ UNCHANGED <<adapter, task, facts, rejections, mark>>
        /\ work' = [w \in Workers |-> [work[w] EXCEPT !.standing = @ \cap Listed(s)]]
    BY DEF Becomes
  <1>2. ASSUME NEW w \in Workers
        PROVE  WorkOK(adapter, s, work'[w], facts, rejections, DOMAIN task)
    <2>1. WorkOK(adapter, source, work[w], facts, rejections, DOMAIN task)
      BY DEF IInv
    <2>2. work'[w] = [work[w] EXCEPT !.standing = @ \cap Listed(s)]
      BY <1>1
    <2>3. /\ DOMAIN work'[w] = WorkFields
          /\ \A f \in WorkFields \ {"standing"} : work'[w][f] = work[w][f]
      BY <2>1, <2>2 DEF WorkOK, WorkFields
    <2>4. More(adapter, source, work[w].heard, work[w].date) =>
             More(adapter, s, work[w].heard, work[w].date)
      BY DEF More
    <2>5. QED
      BY <2>1, <2>3, <2>4 DEF WorkOK, WorkFields
  <1>3. DOMAIN work' = Workers
    BY <1>1
  <1>4. QED
    BY <1>1, <1>2, <1>3 DEF IInv

LEMMA RewriteOK ==
    ASSUME IInv, NEW p \in DOMAIN source, NEW rows, IsSeq(rows), Rewrite(p, rows)
    PROVE  IInv'
  <1> DEFINE s == [source EXCEPT ![p].rows = rows]
  <1>1. SourceOK(adapter, source) /\ DOMAIN source = 1..Len(source) /\ Len(source) \in Nat
    BY SourceRows DEF IInv
  <1>2. Becomes(s)
    BY DEF Rewrite
  <1>3. /\ DOMAIN s = DOMAIN source /\ s = [i \in DOMAIN s |-> s[i]]
        /\ \A i \in DOMAIN source \ {p} : s[i] = source[i]
    OBVIOUS
  <1>4. DOMAIN s[p] = {"stated", "drift", "rows"} /\ s[p].rows = rows
    BY <1>1 DEF SourceOK
  <1> HIDE DEF s
  <1>5. IsSeq(s) => Len(s) = Len(source)
    BY <1>1, <1>3, SeqByLength
  <1>6. SourceOK(adapter, s) /\ Len(s) = Len(source)
    BY <1>1, <1>3, <1>4, <1>5, RewriteForm
  <1>7. QED
    BY <1>2, <1>6, BecomesOK

LEMMA EnvelopeOK ==
    ASSUME IInv, NEW p \in DOMAIN source, NEW s, Becomes(s),
           \/ s = [source EXCEPT ![p].drift = ~@]
           \/ s = [source EXCEPT ![p].stated = ~@]
    PROVE  IInv'
  <1>1. SourceOK(adapter, source) /\ DOMAIN source = 1..Len(source) /\ Len(source) \in Nat
    BY SourceRows DEF IInv
  <1>2. /\ DOMAIN s = DOMAIN source /\ s = [i \in DOMAIN s |-> s[i]]
        /\ \A i \in DOMAIN source \ {p} : s[i] = source[i]
    OBVIOUS
  <1>3. DOMAIN s[p] = {"stated", "drift", "rows"} /\ s[p].rows = source[p].rows
    BY <1>1 DEF SourceOK
  <1>4. IsSeq(s) => Len(s) = Len(source)
    BY <1>1, <1>2, SeqByLength
  <1>5. IsSeq(s[p].rows)
    BY <1>1, <1>3 DEF SourceOK
  <1>6. SourceOK(adapter, s) /\ Len(s) = Len(source)
    BY <1>1, <1>2, <1>3, <1>4, <1>5, RewriteForm
  <1>7. QED
    BY <1>6, BecomesOK

LEMMA RowRemoved ==
    ASSUME NEW rows, IsSeq(rows), NEW i \in DOMAIN rows
    PROVE  IsSeq(RemoveAt(rows, i)) /\ IsSeq(Tail(rows))
  <1>1. Len(rows) \in Nat /\ DOMAIN rows = 1..Len(rows)
    BY SeqForm
  <1>2. IsSeq(RemoveAt(rows, i))
    BY <1>1, SubSeqSeq, ConcatSeq DEF RemoveAt
  <1>3. rows \in Seq(ToSet(rows)) /\ rows # <<>>
    BY <1>1, NothingHeard DEF IsSeq
  <1>4. IsSeq(Tail(rows))
    BY <1>3, HeadTailProperties, SeqOfAny
  <1>5. QED
    BY <1>2, <1>4

LEMMA RowAdded ==
    ASSUME NEW rows, IsSeq(rows), NEW r
    PROVE  IsSeq(Append(rows, r)) /\ IsSeq(<<r>> \o rows)
  <1>1. <<r>> \in Seq({r})
    OBVIOUS
  <1>2. IsSeq(<<r>>)
    BY <1>1, SeqOfAny
  <1>3. QED
    BY <1>2, ConcatSeq, AppendSeq

LEMMA SourceChangesOK ==
    ASSUME IInv, SourceChanges
    PROVE  IInv'
  <1>1. PICK p \in DOMAIN source :
           \/ \E r \in Published[adapter] : Publish(p, r)
           \/ \E i \in DOMAIN source[p].rows :
                 \/ Withdraw(p, i)
                 \/ Correct(p, i)
                 \/ \E f \in Faults[adapter] : Spoil(p, i, f)
           \/ Repeat(p)
           \/ Unrepeat(p)
           \/ Reshape(p)
           \/ Restate(p)
    BY DEF SourceChanges
  <1> DEFINE rows == source[p].rows
  <1>2. IsSeq(rows)
    BY SourceRows DEF IInv, SourceOK
  <1>3. ASSUME NEW r, Publish(p, r) PROVE IInv'
    <2> DEFINE new == IF adapter \in BarAdapters THEN Append(rows, r) ELSE <<r>> \o rows
    <2>1. IsSeq(new)
      BY <1>2, RowAdded
    <2>2. Rewrite(p, new)
      BY <1>3 DEF Publish
    <2> HIDE DEF new
    <2>3. QED
      BY <2>1, <2>2, RewriteOK
  <1>4. ASSUME NEW i \in DOMAIN rows, Withdraw(p, i) PROVE IInv'
    <2>1. Rewrite(p, RemoveAt(rows, i))
      BY <1>4 DEF Withdraw
    <2>2. QED
      BY <1>2, <2>1, RowRemoved, RewriteOK
  <1>5. ASSUME NEW i \in DOMAIN rows, Correct(p, i) PROVE IInv'
    <2> DEFINE new == [rows EXCEPT ![i].text = 3 - @, ![i].fault = "none"]
    <2>1. Rewrite(p, new)
      BY <1>5 DEF Correct
    <2>2. DOMAIN new = DOMAIN rows /\ new = [j \in DOMAIN rows |-> new[j]]
      OBVIOUS
    <2> HIDE DEF new, rows
    <2>3. IsSeq(new)
      BY <1>2, <2>2, SeqForm, SeqByLength
    <2>4. QED
      BY <2>1, <2>3, RewriteOK
  <1>6. ASSUME NEW i \in DOMAIN rows, NEW f, Spoil(p, i, f) PROVE IInv'
    <2> DEFINE new == [rows EXCEPT ![i].fault = f]
    <2>1. Rewrite(p, new)
      BY <1>6 DEF Spoil
    <2>2. DOMAIN new = DOMAIN rows /\ new = [j \in DOMAIN rows |-> new[j]]
      OBVIOUS
    <2> HIDE DEF new, rows
    <2>3. IsSeq(new)
      BY <1>2, <2>2, SeqForm, SeqByLength
    <2>4. QED
      BY <2>1, <2>3, RewriteOK
  <1>7. CASE Repeat(p)
    <2>1. Rewrite(p, <<rows[1]>> \o rows)
      BY <1>7 DEF Repeat
    <2>2. QED
      BY <1>2, <2>1, RowAdded, RewriteOK
  <1>8. CASE Unrepeat(p)
    <2>1. Rewrite(p, Tail(rows))
      BY <1>8 DEF Unrepeat
    <2>2. PICK i \in DOMAIN rows : TRUE
      BY <1>8 DEF Unrepeat, Descends
    <2>3. IsSeq(Tail(rows))
      BY <1>2, <2>2, RowRemoved
    <2>4. QED
      BY <2>1, <2>3, RewriteOK
  <1>9. CASE Reshape(p)
    BY <1>9, EnvelopeOK DEF Reshape
  <1>10. CASE Restate(p)
    BY <1>10, EnvelopeOK DEF Restate
  <1>11. QED
    BY <1>1, <1>3, <1>4, <1>5, <1>6, <1>7, <1>8, <1>9, <1>10
----------------------------------------------------------------------------
(* The theorems. *)

\* What is in hand and what is stored go together, from the start and after
\* every step of a handler, a mishap or the source.
THEOREM PageInvariance == Spec => []IInv
  <1>1. Init => IInv
    <2> SUFFICES ASSUME Init PROVE IInv
      OBVIOUS
    <2>1. PICK c \in Cases : /\ adapter = c.adapter /\ source = c.source
                             /\ task = [d \in c.dates |-> FreshTask]
      BY DEF Init
    <2>2. /\ work = [w \in Workers |-> AtRest]
          /\ facts = {} /\ rejections = {} /\ mark = NoCursor
      BY DEF Init
    <2>3. adapter \in BarAdapters \cup LiveAdapters /\ c.dates \subseteq Dates
      BY <2>1, DatesAssumption
    <2>4. SourceOK(adapter, source)
      BY <2>1, DatesAssumption DEF SourceOK, IsSeq
    <2>5. Stored(adapter, NoCursor, {})
      BY DEF Stored
    <2>6. /\ DOMAIN FreshTask = TaskFields /\ FreshTask.cursor = NoCursor
          /\ FreshTask.done = FALSE /\ FreshTask.counted = {}
      BY DEF FreshTask, TaskFields
    <2>7. \A d : TaskOK(adapter, FreshTask, d, {}, {})
      BY <2>5, <2>6 DEF TaskOK, CursorFor
    <2>8. \A w \in Workers : WorkOK(adapter, source, AtRest, {}, {}, c.dates)
      BY RestOK
    <2>9. DOMAIN task = c.dates /\ \A d \in c.dates : task[d] = FreshTask
      BY <2>1
    <2>10. DOMAIN work = Workers /\ \A w \in Workers : work[w] = AtRest
      BY <2>2
    <2>11. QED
      BY <2>2, <2>3, <2>4, <2>5, <2>7, <2>8, <2>9, <2>10 DEF IInv
  <1>2. IInv /\ [Next]_vars => IInv'
    <2> SUFFICES ASSUME IInv, [Next]_vars PROVE IInv'
      OBVIOUS
    <2>1. ASSUME NEW w \in Workers, NEW d \in Dates, Begin(w, d) \/ TakeOver(w, d) PROVE IInv'
      BY <2>1, Takes DEF Begin, TakeOver
    <2>2. ASSUME NEW w \in Workers, Step(w) PROVE IInv'
      <3>1. Handler(w) \/ Recover(w)
        BY <2>2 DEF Step, TwelveDataHandler, BaoStockHandler, XtQuantHandler,
                    MacroReleaseHandler, NewsHandler
      <3>2. CASE TooOld(w)
        BY <3>2, Rests DEF TooOld
      <3>3. QED
        BY <3>1, <3>2, Asks, Rejects, Commits, Completes, Recovers DEF Handler
    <2>3. ASSUME NEW w \in Workers, Fail(w) \/ Crash(w) PROVE IInv'
      BY <2>3, Rests DEF Fail, Crash
    <2>4. ASSUME NEW d \in Dates, GrowOld(d) PROVE IInv'
      BY <2>4, GrowsOld
    <2>5. CASE SourceChanges
      BY <2>5, SourceChangesOK
    <2>6. CASE UNCHANGED vars
      BY <2>6 DEF vars, IInv
    <2>7. QED
      BY <2>1, <2>2, <2>3, <2>4, <2>5, <2>6 DEF Next
  <1>3. QED
    BY <1>1, <1>2, PTL DEF Spec

\* The cursor of a checkpoint never leads past a record: all that its
\* snapshot has before its place is stored, and a completed task has stored
\* its last snapshot whole (commit_page before the checkpoint's advance).
THEOREM NothingSkipped == Spec => []StoredUpToCursor
  <1>1. IInv => StoredUpToCursor
    <2> SUFFICES ASSUME IInv, NEW d \in DOMAIN task
                 PROVE  ToSet(IF task[d].done THEN Snapshot(task[d].read, d)
                              ELSE IF task[d].cursor = NoCursor THEN <<>>
                              ELSE SubSeq(Snapshot(task[d].cursor.mark, d), 1,
                                          task[d].cursor.offset)) \subseteq facts
      BY DEF StoredUpToCursor
    <2>1. TaskOK(adapter, task[d], d, facts, rejections)
      BY DEF IInv
    <2>2. ToSet(<<>>) = {}
      BY DEF ToSet
    <2>3. QED
      BY <2>1, <2>2, ViewIsSnapshot DEF TaskOK, CursorFor, Stored
  <1>2. QED
    BY <1>1, PageInvariance, PTL

\* The next cursor of a page is a later place of the snapshot its own cursor
\* was made from, and the page has the items between the two places (_page
\* and the pagination of every adapter).
THEOREM PagesEnd == Spec => []PagesLeadOn
  <1>1. IInv => PagesLeadOn
    <2> SUFFICES ASSUME IInv, NEW w \in Workers, HasPage(w)
                 PROVE  /\ work[w].cursor # NoCursor => work[w].page.mark = work[w].cursor.mark
                        /\ work[w].page.next # NoCursor =>
                              /\ work[w].page.next.offset > work[w].cursor.offset
                              /\ work[w].page.next.mark = work[w].page.mark
                        /\ Len(work[w].page.items) =
                              (IF work[w].page.next = NoCursor
                               THEN Len(Snapshot(work[w].page.mark, work[w].date))
                               ELSE work[w].page.next.offset) - work[w].cursor.offset
      BY DEF PagesLeadOn
    <2> DEFINE c == work[w].cursor
               q == work[w].date
               page == work[w].page
               items == View(adapter, page.mark, q)
               n == Reach(items, c)
    <2>1. Fits(adapter, page, q, c) /\ q \in DOMAIN task
      BY DEF IInv, WorkOK, HasPage, Paging
    <2>2. q # 0
      BY <2>1, DatesAssumption DEF IInv
    <2>3. /\ IsSeq(items) /\ SameSnapshot(page.mark, c)
          /\ c.offset \in Nat /\ c.offset <= Len(items)
          /\ page.items = SubSeq(items, c.offset + 1, n)
          /\ page.next = Lead(items, q, page.mark, n)
      BY <2>1 DEF Fits
    <2>4. Snapshot(page.mark, q) = items
      BY ViewIsSnapshot
    <2> HIDE DEF items, n, page, c, q
    <2>5. /\ n \in Nat /\ c.offset <= n /\ n <= Len(items) /\ Len(items) \in Nat
          /\ n < Len(items) => n > c.offset
      BY <2>3, ReachForm, SeqForm DEF n
    <2>6. Len(page.items) = n - c.offset
      <3> DEFINE o == c.offset
      <3>1. o \in Nat /\ o <= n /\ page.items = SubSeq(items, o + 1, n)
        BY <2>3, <2>5
      <3> HIDE DEF o
      <3>2. o + 1 \in Int /\ n \in Int
        BY <2>5, <3>1
      <3>3. Len(SubSeq(items, o + 1, n)) = IF o + 1 <= n THEN n - (o + 1) + 1 ELSE 0
        BY <3>2, SubSeqSeq
      <3>4. Len(page.items) = n - o
        BY <2>5, <3>1, <3>3
      <3>5. QED
        BY <3>4 DEF o
    <2>7. c # NoCursor => page.mark = c.mark
      BY <2>3 DEF SameSnapshot
    <2>8. CASE n < Len(items)
      <3>1. page.next # NoCursor /\ page.next.offset = n /\ page.next.mark = page.mark
        BY <2>2, <2>3, <2>8, LeadForm
      <3>2. QED
        BY <2>5, <2>6, <2>7, <2>8, <3>1 DEF page, c, q
    <2>9. CASE ~(n < Len(items))
      <3>1. page.next = NoCursor /\ n = Len(items)
        BY <2>2, <2>3, <2>5, <2>9, LeadForm
      <3>2. QED
        BY <2>4, <2>6, <2>7, <3>1 DEF page, c, q
    <2>10. QED
      BY <2>8, <2>9
  <1>2. QED
    BY <1>1, PageInvariance, PTL

\* Rejections that a task counted can be looked up (record_rejection before
\* commit_page, and that before the checkpoint's advance).
THEOREM CountedRejectionsKept == Spec => []RejectionsAreKept
  <1>1. IInv => RejectionsAreKept
    BY DEF IInv, TaskOK, RejectionsAreKept
  <1>2. QED
    BY <1>1, PageInvariance, PTL
----------------------------------------------------------------------------
(* Snapshots put together from several answers. *)

LEMMA FlattensAt ==
    ASSUME NEW f, NEW s, NEW n, Flattens(f, s, n), NEW i \in 1..n
    PROVE  f[i] = IF i = 1 THEN s[i] ELSE f[i - 1] \o s[i]
  BY DEF Flattens

LEMMA FlattenMore ==
    ASSUME NEW s, IsSeq(s), \A i \in DOMAIN s : IsSeq(s[i]), NEW n, n = Len(s), NEW t,
           DOMAIN t = 1..(n + 1), t = [i \in DOMAIN t |-> t[i]],
           \A i \in 1..n : t[i] = s[i], NEW x, IsSeq(x), t[n + 1] = x
    PROVE  FlattenSeq(t) = FlattenSeq(s) \o x
  <1>1. n \in Nat /\ DOMAIN s = 1..n
    BY SeqForm
  <1>2. Len(t) = n + 1
    BY <1>1, SeqByLength
  <1> DEFINE g == CHOOSE h : Flattens(h, t, n + 1)
             all == FlattenSeq(s)
  <1>3. FlattenSeq(t) = g[n + 1] /\ Flattens(g, t, n + 1)
    <2>1. FlattenSeq(t) = g[n + 1]
      BY <1>1, <1>2 DEF FlattenSeq, Flattens
    <2>2. n + 1 \in Nat
      BY <1>1
    <2>3. QED
      BY <2>1, <2>2, FlattenExists
  <1> HIDE DEF g, all
  <1>4. g[n + 1] = IF n = 0 THEN x ELSE g[n] \o x
    <2> DEFINE m == n + 1
    <2>1. m \in 1..m /\ m - 1 = n /\ (m = 1 <=> n = 0) /\ t[m] = x
      BY <1>1
    <2> HIDE DEF m
    <2>2. Flattens(g, t, m)
      BY <1>3 DEF m
    <2>3. g[m] = IF m = 1 THEN t[m] ELSE g[m - 1] \o t[m]
      BY <2>1, <2>2, FlattensAt
    <2>4. g[m] = IF n = 0 THEN x ELSE g[n] \o x
      BY <2>1, <2>3
    <2>5. QED
      BY <2>4 DEF m
  <1>5. CASE n = 0
    <2>1. all = <<>>
      BY <1>5, EmptySeq DEF FlattenSeq, IsSeq, all
    <2>2. <<>> \o x = x
      BY ConcatEmptySeq DEF IsSeq
    <2>3. FlattenSeq(t) = x
      BY <1>3, <1>4, <1>5
    <2>4. all \o x = x
      BY <2>1, <2>2
    <2>5. QED
      BY <2>3, <2>4, Zenon DEF all
  <1>6. CASE n # 0
    <2> DEFINE f == CHOOSE h : Flattens(h, s, n)
    <2>1. all = f[n]
      BY <1>6 DEF FlattenSeq, Flattens, all
    <2>2. Flattens(f, s, n)
      BY <1>1, FlattenExists
    <2> HIDE DEF f
    <2> DEFINE T == {i \in 1..n : g[i] # f[i]}
    <2>3. T = {}
      <3> SUFFICES ASSUME T # {} PROVE FALSE
        OBVIOUS
      <3>1. T \subseteq Nat
        BY <1>1
      <3>2. PICK m \in T : \A y \in T : m <= y
        BY <3>1, LeastElement
      <3>3. m \in 1..n /\ m \in 1..(n + 1)
        BY <1>1, <3>2
      <3>4. f[m] = IF m = 1 THEN s[m] ELSE f[m - 1] \o s[m]
        BY <2>2, <3>3, FlattensAt
      <3>5. g[m] = IF m = 1 THEN t[m] ELSE g[m - 1] \o t[m]
        BY <1>3, <3>3, FlattensAt
      <3>6. m # 1 => f[m - 1] = g[m - 1]
        BY <1>1, <3>1, <3>2
      <3>7. f[m] = g[m]
        BY <3>3, <3>4, <3>5, <3>6
      <3>8. QED
        BY <3>2, <3>7
    <2>4. g[n] = f[n]
      BY <1>1, <1>6, <2>3
    <2>5. FlattenSeq(t) = all \o x
      BY <1>3, <1>4, <1>6, <2>1, <2>4
    <2>6. QED
      BY <2>5 DEF all
  <1>7. QED
    BY <1>5, <1>6

LEMMA ConcatHas ==
    ASSUME NEW s, IsSeq(s), NEW t, IsSeq(t)
    PROVE  ToSet(s \o t) = ToSet(s) \cup ToSet(t)
  <1> DEFINE S == ToSet(s) \cup ToSet(t)
             u == s \o t
  <1>1. s \in Seq(S) /\ t \in Seq(S)
    BY SeqMonotonic DEF IsSeq
  <1>2. /\ Len(u) = Len(s) + Len(t)
        /\ \A i \in 1 .. Len(s) + Len(t) : u[i] = IF i <= Len(s) THEN s[i] ELSE t[i - Len(s)]
    BY <1>1, ConcatProperties
  <1>3. /\ Len(s) \in Nat /\ DOMAIN s = 1..Len(s) /\ Len(t) \in Nat /\ DOMAIN t = 1..Len(t)
        /\ DOMAIN u = 1..(Len(s) + Len(t))
    BY <1>2, SeqForm, ConcatSeq
  <1> HIDE DEF u
  <1>4. ASSUME NEW i \in DOMAIN u PROVE u[i] \in S
    BY <1>2, <1>3 DEF ToSet
  <1>5. ASSUME NEW i \in DOMAIN s PROVE s[i] \in ToSet(u)
    BY <1>2, <1>3 DEF ToSet
  <1>6. ASSUME NEW i \in DOMAIN t PROVE t[i] \in ToSet(u)
    <2>1. i + Len(s) \in DOMAIN u /\ u[i + Len(s)] = t[i]
      BY <1>2, <1>3
    <2>2. QED
      BY <2>1 DEF ToSet
  <1>7. QED
    BY <1>4, <1>5, <1>6 DEF ToSet, u

\* The sizes and the records heard, with one answer more.
Sizes(heard) == FlattenSeq([i \in DOMAIN heard |-> heard[i].size])
SizesOK(heard) == \A i \in DOMAIN heard : IsSeq(heard[i].size)

LEMMA OneMore ==
    ASSUME NEW heard, HeardOK(heard), SizesOK(heard),
           NEW doc, IsSeq(doc.rows), IsSeq(doc.size)
    PROVE  LET more == Append(heard, doc)
           IN  /\ SizesOK(more) /\ more[Len(more)] = doc
               /\ HkmaRecords(more) = HkmaRecords(heard) \o doc.rows
               /\ Sizes(more) = Sizes(heard) \o doc.size
               /\ IsSeq(HkmaRecords(heard)) /\ IsSeq(Sizes(heard))
  <1> DEFINE more == Append(heard, doc)
             n == Len(heard)
             R == [i \in DOMAIN heard |-> heard[i].rows]
             Z == [i \in DOMAIN heard |-> heard[i].size]
             RR == [i \in DOMAIN more |-> more[i].rows]
             ZZ == [i \in DOMAIN more |-> more[i].size]
  <1>1. /\ IsSeq(more) /\ Len(more) = n + 1 /\ more[n + 1] = doc
        /\ \A i \in 1..n : more[i] = heard[i]
    BY AppendSeq DEF HeardOK
  <1>2. n \in Nat /\ DOMAIN heard = 1..n /\ DOMAIN more = 1..(n + 1)
    BY <1>1, SeqForm DEF HeardOK
  <1> HIDE DEF more
  <1>3. /\ DOMAIN R = 1..n /\ R = [i \in 1..n |-> R[i]]
        /\ DOMAIN Z = 1..n /\ Z = [i \in 1..n |-> Z[i]]
        /\ DOMAIN RR = 1..(n + 1) /\ RR = [i \in DOMAIN RR |-> RR[i]]
        /\ DOMAIN ZZ = 1..(n + 1) /\ ZZ = [i \in DOMAIN ZZ |-> ZZ[i]]
    BY <1>2
  <1>4. /\ \A i \in 1..n : RR[i] = R[i] /\ ZZ[i] = Z[i]
        /\ RR[n + 1] = doc.rows /\ ZZ[n + 1] = doc.size
    BY <1>1, <1>2
  <1>5. \A i \in 1..n : IsSeq(R[i]) /\ IsSeq(Z[i])
    BY <1>2 DEF HeardOK, SizesOK
  <1>6. /\ HkmaRecords(more) = FlattenSeq(RR) /\ HkmaRecords(heard) = FlattenSeq(R)
        /\ Sizes(more) = FlattenSeq(ZZ) /\ Sizes(heard) = FlattenSeq(Z)
    BY DEF HkmaRecords, Sizes
  <1>7. SizesOK(more)
    BY <1>1, <1>2 DEF SizesOK
  <1> HIDE DEF R, Z, RR, ZZ
  <1>8. IsSeq(R) /\ Len(R) = n /\ IsSeq(Z) /\ Len(Z) = n
    BY <1>2, <1>3, SeqByLength
  <1>9. FlattenSeq(RR) = FlattenSeq(R) \o doc.rows
    <2> DEFINE x == doc.rows
    <2>1. /\ n = Len(R) /\ DOMAIN RR = 1..(n + 1) /\ RR = [i \in DOMAIN RR |-> RR[i]]
          /\ \A i \in 1..n : RR[i] = R[i]
          /\ \A i \in DOMAIN R : IsSeq(R[i])
          /\ RR[n + 1] = x /\ IsSeq(x)
      BY <1>3, <1>4, <1>5, <1>8
    <2> HIDE DEF n, x
    <2>2. FlattenSeq(RR) = FlattenSeq(R) \o x
      BY <1>8, <2>1, FlattenMore
    <2>3. QED
      BY <2>2 DEF x
  <1>10. FlattenSeq(ZZ) = FlattenSeq(Z) \o doc.size
    <2> DEFINE x == doc.size
    <2>1. /\ n = Len(Z) /\ DOMAIN ZZ = 1..(n + 1) /\ ZZ = [i \in DOMAIN ZZ |-> ZZ[i]]
          /\ \A i \in 1..n : ZZ[i] = Z[i]
          /\ \A i \in DOMAIN Z : IsSeq(Z[i])
          /\ ZZ[n + 1] = x /\ IsSeq(x)
      BY <1>3, <1>4, <1>5, <1>8
    <2> HIDE DEF n, x
    <2>2. FlattenSeq(ZZ) = FlattenSeq(Z) \o x
      BY <1>8, <2>1, FlattenMore
    <2>3. QED
      BY <2>2 DEF x
  <1>11. IsSeq(FlattenSeq(R)) /\ IsSeq(FlattenSeq(Z))
    BY <1>3, <1>5, <1>8, FlattenSeqSeq
  <1>12. QED
    BY <1>1, <1>6, <1>7, <1>9, <1>10, <1>11 DEF more

\* total: the size that was reported first.
LEMMA TotalForm ==
    ASSUME NEW heard, HeardOK(heard), SizesOK(heard), NEW doc, IsSeq(doc.rows), IsSeq(doc.size)
    PROVE  /\ HkmaTotal(heard) # <<>> => HkmaTotal(Append(heard, doc)) = HkmaTotal(heard)
           /\ heard = <<>> /\ doc.size # <<>> => HkmaTotal(Append(heard, doc)) = <<doc.size[1]>>
  <1> DEFINE more == Append(heard, doc)
             a == Sizes(heard)
             b == doc.size
  <1>1. Sizes(more) = a \o b /\ IsSeq(a) /\ IsSeq(b)
    BY OneMore
  <1>2. \A h : HkmaTotal(h) = IF Sizes(h) = <<>> THEN <<>> ELSE <<Sizes(h)[1]>>
    BY DEF HkmaTotal, Sizes
  <1>3. ASSUME a # <<>> PROVE a \o b # <<>> /\ (a \o b)[1] = a[1]
    <2> DEFINE S == ToSet(a) \cup ToSet(b)
    <2>1. a \in Seq(S) /\ b \in Seq(S)
      BY <1>1, SeqMonotonic DEF IsSeq
    <2> HIDE DEF a, b, S
    <2>2. Len(a) \in Nat \ {0} /\ Len(b) \in Nat
      BY <1>3, <2>1, EmptySeq
    <2>3. /\ Len(a \o b) = Len(a) + Len(b)
          /\ \A i \in 1..(Len(a) + Len(b)) : (a \o b)[i] = IF i <= Len(a) THEN a[i] ELSE b[i - Len(a)]
      BY <2>1, ConcatProperties
    <2>4. 1 \in 1..(Len(a) + Len(b)) /\ 1 <= Len(a) /\ Len(a \o b) # 0
      BY <2>2, <2>3
    <2>5. QED
      BY <2>3, <2>4
  <1>4. ASSUME heard = <<>> PROVE a = <<>> /\ a \o b = b
    <2>1. a = FlattenSeq([i \in DOMAIN <<>> |-> <<>>[i].size])
      BY <1>4 DEF Sizes
    <2>2. Len([i \in DOMAIN <<>> |-> <<>>[i].size]) = 0
      OBVIOUS
    <2>3. a = <<>>
      BY <2>1, <2>2, <1>4 DEF FlattenSeq
    <2>4. <<>> \o b = b
      BY <1>1, ConcatEmptySeq DEF IsSeq
    <2>5. QED
      BY <2>3, <2>4
  <1> HIDE DEF more, a, b
  <1>5. HkmaTotal(heard) # <<>> => HkmaTotal(more) = HkmaTotal(heard)
    BY <1>1, <1>2, <1>3 DEF a
  <1>6. heard = <<>> /\ b # <<>> => HkmaTotal(more) = <<b[1]>>
    BY <1>1, <1>2, <1>4
  <1>7. QED
    BY <1>5, <1>6 DEF more, b

\* What stands is read, or comes behind what was read.
Behind(r, rows, n, total) == \A p \in DOMAIN rows : rows[p] = r => Len(rows) - p + n < total

Gathers(s, heard, standing) ==
    \A r \in standing :
       /\ r \in Listed(s)
       /\ \E total \in Nat :
             /\ HkmaTotal(heard) = <<total>>
             /\ \/ r \in ToSet(HkmaRecords(heard))
                \/ Behind(r, s[1].rows, Len(HkmaRecords(heard)), total)

LEMMA Gathered ==
    ASSUME NEW s, SourceOK("hkma", s), NEW heard, HeardOK(heard), SizesOK(heard), NEW standing,
           IF heard = <<>> THEN standing = Listed(s) ELSE Gathers(s, heard, standing)
    PROVE  LET more == HkmaHears(s, heard)
           IN  /\ SizesOK(more)
               /\ HkmaFault(more) = "none" => Gathers(s, more, standing)
               /\ HkmaFault(more) = "none" /\ HkmaHeard(more) =>
                     standing \subseteq ToSet(HkmaRecords(more))
  <1> DEFINE more == HkmaHears(s, heard)
             rows == s[1].rows
             L == Len(rows)
             n == Len(HkmaRecords(heard))
             last == Min({n + UpstreamLimit, L})
             part == SubSeq(rows, n + 1, last)
             size == IF s[1].stated THEN <<L>> ELSE <<>>
             doc == [size |-> size, drift |-> s[1].drift, rows |-> part]
             N == Len(HkmaRecords(more))
  <1>1. more = Append(heard, doc) /\ doc.rows = part /\ doc.size = size
    BY DEF HkmaHears
  <1>2. IsSeq(rows) /\ L \in Nat /\ DOMAIN rows = 1..L
    BY SourceRows, SeqForm
  <1>3. IsSeq(size) /\ (s[1].stated => size = <<L>> /\ size # <<>> /\ size[1] = L)
    <2>1. <<L>> \in Seq({L}) /\ <<>> \in Seq({L})
      OBVIOUS
    <2>2. size \in Seq({L})
      BY <2>1
    <2>3. QED
      BY <2>2, SeqOfAny
  <1>4. n \in Nat
    <2> DEFINE none == [size |-> <<>>, rows |-> <<>>]
    <2>1. IsSeq(none.rows) /\ IsSeq(none.size)
      BY NothingHeard DEF HeardOK
    <2>2. IsSeq(HkmaRecords(heard))
      BY <2>1, OneMore
    <2>3. QED
      BY <2>2, SeqForm
  <1> HIDE DEF more, size
  <1>5. last \in Nat /\ last <= L /\ last <= n + UpstreamLimit /\ (last = L \/ last = n + UpstreamLimit)
    <2> DEFINE T == {n + UpstreamLimit, L}
    <2>1. T \subseteq Nat /\ T # {}
      BY <1>2, <1>4, UpstreamAssumption
    <2>2. Min(T) \in T /\ \A y \in T : Min(T) <= y
      BY <2>1, LeastForm
    <2> HIDE DEF n, L
    <2>3. QED
      BY <2>1, <2>2
  <1> HIDE DEF last
  <1>6. /\ IsSeq(part) /\ Len(part) = IF n + 1 <= last THEN last - n ELSE 0
        /\ \A i \in 1..(last - n) : part[i] = rows[n + i]
    <2> HIDE DEF n
    <2>1. n + 1 \in Int /\ last \in Int
      BY <1>4, <1>5
    <2>2. /\ IsSeq(part) /\ Len(part) = IF n + 1 <= last THEN last - (n + 1) + 1 ELSE 0
          /\ \A i \in 1..(last - (n + 1) + 1) : part[i] = rows[n + 1 + i - 1]
      BY <2>1, SubSeqSeq
    <2>3. \A i \in 1..(last - n) : i \in 1..(last - (n + 1) + 1) /\ n + 1 + i - 1 = n + i
      BY <1>4, <1>5
    <2>4. last - (n + 1) + 1 = last - n
      BY <1>4, <1>5
    <2>5. QED
      BY <2>2, <2>3, <2>4
  <1> HIDE DEF part
  <1>7. /\ SizesOK(more) /\ more[Len(more)] = doc
        /\ HkmaRecords(more) = HkmaRecords(heard) \o part
        /\ IsSeq(HkmaRecords(heard))
    BY <1>1, <1>3, <1>6, OneMore
  <1>8. ToSet(HkmaRecords(more)) = ToSet(HkmaRecords(heard)) \cup ToSet(part)
    BY <1>6, <1>7, ConcatHas
  <1>9. N = n + Len(part)
    BY <1>6, <1>7, ConcatSeq
  <1>10. more[Len(more)].size = size /\ more[Len(more)].rows = part
    BY <1>1, <1>7
  <1> HIDE DEF doc, N, n
  <1>11. ASSUME NEW r \in standing, HkmaFault(more) = "none"
         PROVE  /\ r \in Listed(s) /\ HkmaTotal(more) = <<L>>
                /\ r \in ToSet(HkmaRecords(more)) \/ Behind(r, rows, N, L)
    <2>1. r \in Listed(s)
      BY DEF Gathers
    <2>2. s[1].stated
      BY <2>1 DEF Listed
    <2>3. HkmaTotal(more) = <<L>>
      <3>1. CASE heard = <<>>
        BY <1>1, <1>3, <1>6, <2>2, <3>1, TotalForm
      <3>2. CASE heard # <<>>
        <4>1. PICK total \in Nat : HkmaTotal(heard) = <<total>>
          BY <3>2 DEF Gathers
        <4>2. HkmaTotal(more) = <<total>>
          <5>1. HkmaTotal(heard) # <<>>
            BY <4>1
          <5>2. HkmaTotal(Append(heard, doc)) = HkmaTotal(heard)
            BY <1>1, <1>3, <1>6, <5>1, TotalForm
          <5>3. QED
            BY <1>1, <4>1, <5>2
        <4>3. more[Len(more)].size \in {<<>>, HkmaTotal(more)}
          BY <1>11 DEF HkmaFault
        <4>4. QED
          BY <1>3, <1>10, <2>2, <4>2, <4>3
      <3>3. QED
        BY <3>1, <3>2
    <2>4. r \in ToSet(HkmaRecords(heard)) \/ Behind(r, rows, n, L)
      <3>1. CASE heard = <<>>
        <4>1. n = 0
          <5>1. HkmaRecords(<<>>) = FlattenSeq([i \in DOMAIN <<>> |-> <<>>[i].rows])
            BY DEF HkmaRecords
          <5>2. Len([i \in DOMAIN <<>> |-> <<>>[i].rows]) = 0
            OBVIOUS
          <5>3. Len(HkmaRecords(<<>>)) = 0
            BY <5>1, <5>2 DEF FlattenSeq
          <5>4. QED
            BY <3>1, <5>3 DEF n
        <4>2. QED
          BY <1>2, <4>1 DEF Behind
      <3>2. CASE heard # <<>>
        <4>1. PICK total \in Nat : /\ HkmaTotal(heard) = <<total>>
                                   /\ \/ r \in ToSet(HkmaRecords(heard))
                                      \/ Behind(r, rows, n, total)
          BY <3>2 DEF Gathers, n
        <4>2. HkmaTotal(more) = <<total>>
          <5>1. HkmaTotal(heard) # <<>>
            BY <4>1
          <5>2. HkmaTotal(Append(heard, doc)) = HkmaTotal(heard)
            BY <1>1, <1>3, <1>6, <5>1, TotalForm
          <5>3. QED
            BY <1>1, <4>1, <5>2
        <4>3. total = L
          BY <2>3, <4>2
        <4>4. QED
          BY <4>1, <4>3
      <3>3. QED
        BY <3>1, <3>2
    <2>5. ASSUME r \notin ToSet(HkmaRecords(more)) PROVE Behind(r, rows, N, L)
      <3> SUFFICES ASSUME NEW p \in DOMAIN rows, rows[p] = r PROVE L - p + N < L
        BY DEF Behind
      <3>1. L - p + n < L
        BY <1>8, <2>4, <2>5 DEF Behind
      <3>2. p \in 1..L /\ p > n
        BY <1>2, <1>4, <3>1
      <3>3. ~(p <= last)
        <4> SUFFICES ASSUME p <= last PROVE FALSE
          OBVIOUS
        <4> DEFINE i == p - n
        <4>1. i \in 1..(last - n) /\ n + i = p /\ i \in 1..Len(part)
          BY <1>4, <1>5, <1>6, <3>2
        <4>2. part[i] = r /\ i \in DOMAIN part
          BY <1>6, <4>1, SeqForm
        <4>3. r \in ToSet(part)
          BY <4>2 DEF ToSet
        <4>4. QED
          BY <1>8, <2>5, <4>3
      <3>4. p > N
        BY <1>4, <1>5, <1>6, <1>9, <3>2, <3>3
      <3>5. QED
        BY <1>2, <1>4, <1>6, <1>9, <3>2, <3>4, SeqForm
    <2>6. QED
      BY <2>1, <2>3, <2>5
  <1>12. HkmaFault(more) = "none" => Gathers(s, more, standing)
    BY <1>2, <1>11 DEF Gathers, N
  <1>13. ASSUME HkmaFault(more) = "none", HkmaHeard(more), NEW r \in standing
         PROVE  r \in ToSet(HkmaRecords(more))
    <2> SUFFICES ASSUME Behind(r, rows, N, L) PROVE FALSE
      BY <1>11, <1>13
    <2>1. HkmaTotal(more) = <<L>>
      BY <1>11, <1>13
    <2>2. PICK p \in DOMAIN rows : rows[p] = r
      BY <1>11, <1>13 DEF Listed, ToSet
    <2>3. L - p + N < L /\ p \in 1..L
      BY <1>2, <2>2 DEF Behind
    <2>4. N \in Nat /\ N < L
      BY <1>2, <1>4, <1>6, <1>9, <2>3, SeqForm
    <2>5. part # <<>>
      <3>1. n + 1 <= last
        BY <1>2, <1>4, <1>5, <1>6, <1>9, <2>4, UpstreamAssumption
      <3>2. Len(part) # 0
        BY <1>4, <1>5, <1>6, <3>1
      <3>3. QED
        BY <3>2, NothingHeard
    <2>6. Len(HkmaRecords(more)) >= L
      BY <1>10, <1>13, <2>1, <2>5 DEF HkmaHeard
    <2>7. QED
      BY <1>2, <2>4, <2>6 DEF N
  <1>14. QED
    BY <1>7, <1>12, <1>13 DEF more

----------------------------------------------------------------------------
\* A source that changes moves nothing that it had once, and has once still,
\* away from its end.
NoFurther(old, new) ==
    \A r \in ToSet(old) \cap ToSet(new) : Once(r, old) /\ Once(r, new) =>
       \A p2 \in DOMAIN new : new[p2] = r =>
          \E p \in DOMAIN old : old[p] = r /\ Len(new) - p2 <= Len(old) - p

LEMMA InFront ==
    ASSUME NEW old, IsSeq(old), NEW x PROVE NoFurther(old, <<x>> \o old)
  <1> DEFINE new == <<x>> \o old
             S == ToSet(old) \cup {x}
             L == Len(old)
  <1>1. old \in Seq(S) /\ <<x>> \in Seq(S) /\ Len(<<x>>) = 1 /\ <<x>>[1] = x
    BY SeqMonotonic DEF IsSeq
  <1>2. Len(new) = 1 + L /\ L \in Nat /\ DOMAIN new = 1..(1 + L) /\ DOMAIN old = 1..L
    BY <1>1, ConcatSeq, SeqOfAny, SeqForm
  <1>3. \A i \in 1..(1 + L) : new[i] = IF i <= 1 THEN <<x>>[i] ELSE old[i - 1]
    BY <1>1, ConcatProperties
  <1>4. \A i \in 1..L : new[i + 1] = old[i]
    BY <1>2, <1>3
  <1> HIDE DEF new, L
  <1> SUFFICES ASSUME NEW r \in ToSet(old), Once(r, new), NEW p2 \in DOMAIN new, new[p2] = r
               PROVE  \E p \in DOMAIN old : old[p] = r /\ Len(new) - p2 <= Len(old) - p
    BY DEF NoFurther, new
  <1>5. PICK i \in 1..L : old[i] = r
    BY <1>2 DEF ToSet
  <1>6. i + 1 \in DOMAIN new /\ new[i + 1] = r
    BY <1>2, <1>4, <1>5
  <1>7. p2 = i + 1
    BY <1>6 DEF Once
  <1>8. QED
    BY <1>2, <1>5, <1>7 DEF L

LEMMA TakenOut ==
    ASSUME NEW old, IsSeq(old), NEW i \in DOMAIN old PROVE NoFurther(old, RemoveAt(old, i))
  <1> DEFINE L == Len(old)
             a == SubSeq(old, 1, i - 1)
             b == SubSeq(old, i + 1, L)
             new == a \o b
  <1>1. L \in Nat /\ DOMAIN old = 1..L
    BY SeqForm
  <1>2. i \in 1..L
    BY <1>1
  <1>3. /\ IsSeq(a) /\ Len(a) = i - 1 /\ \A j \in 1..(i - 1) : a[j] = old[j]
    <2>1. /\ IsSeq(a) /\ Len(a) = IF 1 <= i - 1 THEN i - 1 - 1 + 1 ELSE 0
          /\ \A j \in 1..(i - 1 - 1 + 1) : a[j] = old[1 + j - 1]
      BY <1>2, SubSeqSeq
    <2> HIDE DEF a
    <2>2. QED
      BY <1>1, <1>2, <2>1
  <1>4. /\ IsSeq(b) /\ Len(b) = L - i /\ \A j \in 1..(L - i) : b[j] = old[i + j]
    <2> HIDE DEF L
    <2>1. /\ IsSeq(b) /\ Len(b) = IF i + 1 <= L THEN L - (i + 1) + 1 ELSE 0
          /\ \A j \in 1..(L - (i + 1) + 1) : b[j] = old[i + 1 + j - 1]
      BY <1>1, <1>2, SubSeqSeq
    <2> HIDE DEF b
    <2>2. L - (i + 1) + 1 = L - i /\ \A j \in 1..(L - i) : i + 1 + j - 1 = i + j
      BY <1>1, <1>2
    <2>3. QED
      BY <1>1, <1>2, <2>1, <2>2
  <1>5. RemoveAt(old, i) = new
    BY DEF RemoveAt
  <1> HIDE DEF a, b, L
  <1>6. /\ Len(new) = L - 1 /\ DOMAIN new = 1..(L - 1)
        /\ \A j \in 1..(L - 1) : new[j] = IF j < i THEN old[j] ELSE old[j + 1]
    <2> DEFINE S == ToSet(a) \cup ToSet(b)
    <2>1. a \in Seq(S) /\ b \in Seq(S)
      BY <1>3, <1>4, SeqMonotonic DEF IsSeq
    <2>2. /\ Len(new) = Len(a) + Len(b) /\ IsSeq(new)
          /\ \A j \in 1..(Len(a) + Len(b)) : new[j] = IF j <= Len(a) THEN a[j] ELSE b[j - Len(a)]
      BY <1>3, <1>4, <2>1, ConcatProperties, ConcatSeq
    <2> HIDE DEF new, S
    <2>3. Len(new) = L - 1 /\ DOMAIN new = 1..(L - 1)
      BY <1>1, <1>2, <1>3, <1>4, <2>2, SeqForm
    <2>4. ASSUME NEW j \in 1..(L - 1) PROVE new[j] = IF j < i THEN old[j] ELSE old[j + 1]
      <3>1. new[j] = IF j <= i - 1 THEN a[j] ELSE b[j - (i - 1)]
        BY <1>1, <1>2, <1>3, <1>4, <2>2
      <3>2. CASE j < i
        BY <1>2, <1>3, <3>1, <3>2
      <3>3. CASE ~(j < i)
        <4>1. j - (i - 1) \in 1..(L - i) /\ i + (j - (i - 1)) = j + 1
          BY <1>1, <1>2, <3>3
        <4>2. QED
          BY <1>1, <1>2, <1>4, <3>1, <3>3, <4>1
      <3>4. QED
        BY <3>2, <3>3
    <2>5. QED
      BY <2>3, <2>4
  <1> HIDE DEF new
  <1> SUFFICES ASSUME NEW r, NEW p2 \in DOMAIN new, new[p2] = r
               PROVE  \E p \in DOMAIN old : old[p] = r /\ Len(new) - p2 <= Len(old) - p
    BY <1>5 DEF NoFurther
  <1>7. CASE p2 < i
    <2>1. p2 \in DOMAIN old /\ old[p2] = r /\ Len(new) - p2 <= Len(old) - p2
      BY <1>1, <1>2, <1>6, <1>7 DEF L
    <2>2. QED
      BY <2>1
  <1>8. CASE ~(p2 < i)
    <2>1. p2 + 1 \in DOMAIN old /\ old[p2 + 1] = r /\ Len(new) - p2 <= Len(old) - (p2 + 1)
      BY <1>1, <1>2, <1>6, <1>8 DEF L
    <2>2. QED
      BY <2>1
  <1>9. QED
    BY <1>7, <1>8

LEMMA Changed ==
    ASSUME NEW old, IsSeq(old), NEW new, IsSeq(new), Len(new) = Len(old), NEW i,
           \A j \in DOMAIN old \ {i} : new[j] = old[j]
    PROVE  NoFurther(old, new)
  <1>1. Len(old) \in Nat /\ DOMAIN old = 1..Len(old) /\ DOMAIN new = DOMAIN old
    BY SeqForm
  <1> SUFFICES ASSUME NEW r \in ToSet(old), Once(r, new), NEW p2 \in DOMAIN new, new[p2] = r
               PROVE  \E p \in DOMAIN old : old[p] = r /\ Len(new) - p2 <= Len(old) - p
    BY DEF NoFurther
  <1>2. CASE p2 # i
    <2>1. old[p2] = r /\ p2 \in DOMAIN old /\ Len(new) - p2 <= Len(old) - p2
      BY <1>1, <1>2
    <2>2. QED
      BY <2>1
  <1>3. CASE p2 = i
    <2>1. PICK p \in DOMAIN old : old[p] = r
      BY DEF ToSet
    <2>2. p = i
      <3>1. CASE p # i
        <4>1. new[p] = r /\ p \in DOMAIN new
          BY <1>1, <2>1, <3>1
        <4>2. QED
          BY <1>3, <4>1 DEF Once
      <3>2. QED
        BY <3>1
    <2>3. QED
      BY <1>1, <1>3, <2>1, <2>2
  <1>4. QED
    BY <1>2, <1>3

\* What stood keeps standing, if it is in the new list as well.
LEMMA StandsOn ==
    ASSUME NEW s, NEW t, SourceOK("hkma", s), SourceOK("hkma", t),
           NoFurther(s[1].rows, t[1].rows), NEW heard, NEW n \in Nat, n = Len(HkmaRecords(heard)),
           NEW standing, Gathers(s, heard, standing)
    PROVE  Gathers(t, heard, standing \cap Listed(t))
  <1> SUFFICES ASSUME NEW r \in standing, r \in Listed(t)
               PROVE  \E total \in Nat :
                         /\ HkmaTotal(heard) = <<total>>
                         /\ \/ r \in ToSet(HkmaRecords(heard))
                            \/ Behind(r, t[1].rows, n, total)
    BY DEF Gathers
  <1>1. PICK total \in Nat : /\ HkmaTotal(heard) = <<total>>
                             /\ \/ r \in ToSet(HkmaRecords(heard))
                                \/ Behind(r, s[1].rows, n, total)
    BY DEF Gathers
  <1>2. r \in Listed(s)
    BY DEF Gathers
  <1> DEFINE old == s[1].rows
             new == t[1].rows
  <1>3. /\ Len(old) \in Nat /\ DOMAIN old = 1..Len(old)
        /\ Len(new) \in Nat /\ DOMAIN new = 1..Len(new)
    BY SourceRows, SeqForm
  <1>4. ASSUME Behind(r, old, n, total) PROVE Behind(r, new, n, total)
    <2> SUFFICES ASSUME NEW p2 \in DOMAIN new, new[p2] = r PROVE Len(new) - p2 + n < total
      BY DEF Behind
    <2>1. PICK p \in DOMAIN old : old[p] = r /\ Len(new) - p2 <= Len(old) - p
      BY <1>2 DEF NoFurther, Listed
    <2>2. Len(old) - p + n < total
      BY <1>4, <2>1 DEF Behind
    <2> HIDE DEF old, new
    <2>3. QED
      BY <1>3, <2>1, <2>2
  <1>5. QED
    BY <1>1, <1>4

LEMMA RecordsSeq ==
    ASSUME NEW heard, HeardOK(heard), SizesOK(heard) PROVE Len(HkmaRecords(heard)) \in Nat
  <1> DEFINE none == [size |-> <<>>, rows |-> <<>>]
  <1>1. IsSeq(none.rows) /\ IsSeq(none.size)
    BY NothingHeard DEF HeardOK
  <1>2. IsSeq(HkmaRecords(heard))
    BY <1>1, OneMore
  <1>3. QED
    BY <1>2, SeqForm

----------------------------------------------------------------------------
\* Of the answers heard so far, and of the page they came to.
Keeps(a, s, k) ==
    a = "hkma" =>
       /\ k.pc = "fetch" /\ k.heard # <<>> => SizesOK(k.heard) /\ Gathers(s, k.heard, k.standing)
       /\ k.pc \in Paging => k.standing \subseteq ToSet(k.page.mark[2])

WInv == \A w \in Workers : Keeps(adapter, source, work[w])

LEMMA KeepsAtRest == \A a, s : Keeps(a, s, AtRest)
  BY DEF Keeps, AtRest, Paging

LEMMA OneKeeps ==
    ASSUME WInv, NEW w \in Workers, UNCHANGED <<adapter, source>>,
           \A v \in Workers \ {w} : work'[v] = work[v], Keeps(adapter, source, work'[w])
    PROVE  WInv'
  BY DEF WInv

LEMMA HkmaPageMark ==
    ASSUME NEW heard, NEW q, NEW cursor, HkmaPage(heard, q, cursor).error = "none"
    PROVE  /\ HkmaPage(heard, q, cursor).mark[2] = HkmaRecords(heard)
           /\ HkmaFault(heard) = "none"
  <1> DEFINE m == HkmaMark(heard)
             items == HkmaNews(m, q)
             G(x) == IF ~SameSnapshot(m, cursor) \/ ~Follows(x, cursor)
                     THEN Refused("SNAPSHOT_CHANGED")
                     ELSE Cut(x, q, cursor, m, {})
             F(seen) == IF HkmaFault(heard) # "none" THEN Refused(HkmaFault(heard))
                        ELSE IF ~SameSnapshot(seen, cursor) THEN Refused("SNAPSHOT_CHANGED")
                        ELSE IF \E i \in DOMAIN seen[2] : seen[2][i].fault # "none"
                             THEN Refused("SCHEMA_DRIFT")
                        ELSE LivePage(HkmaNews(seen, q), q, cursor, seen)
             live == LivePage(items, q, cursor, m)
  <1>1. HkmaPage(heard, q, cursor) = CHOOSE r \in {F(x) : x \in {m}} : TRUE
    BY DEF HkmaPage, With
  <1>2. live = CHOOSE r \in {G(x) : x \in {items}} : TRUE
    BY DEF LivePage, With
  <1> HIDE DEF m, items, live
  <1>3. F(m).error = "none" => F(m) = live /\ HkmaFault(heard) = "none"
    BY RefusedForm DEF live, items
  <1>4. G(items).error = "none" => G(items).mark = m
    BY RefusedForm DEF Cut, Served
  <1> HIDE DEF F, G
  <1>5. {F(x) : x \in {m}} = {F(m)} /\ {G(x) : x \in {items}} = {G(items)}
    OBVIOUS
  <1>6. HkmaPage(heard, q, cursor) = F(m) /\ live = G(items)
    BY <1>1, <1>2, <1>5, OnlyElement
  <1>7. m[2] = HkmaRecords(heard)
    BY DEF m, HkmaMark
  <1>8. QED
    BY <1>3, <1>4, <1>6, <1>7

\* A worker that has heard another answer still keeps what stands in view.
LEMMA AskKeeps ==
    ASSUME IInv, WInv, adapter = "hkma", NEW w \in Workers, Ask(w)
    PROVE  WInv'
  <1> DEFINE k == work[w]
             q == k.date
             heard == Hears(k.heard, q)
             page == Recovered(w, PageOf(heard, q, k.cursor))
             standing == Stood(w)
  <1>1. /\ k.pc = "fetch" /\ UNCHANGED <<adapter, source>>
        /\ IF ~Decodes(q, k.cursor)
           THEN work' = Answered(w, Refused("INVALID_CURSOR"))
           ELSE IF HeardAll(heard, q)
                THEN work' = [Answered(w, page) EXCEPT
                                ![w].standing = IF page.error = "none" THEN standing ELSE {}]
                ELSE work' = [work EXCEPT ![w].heard = heard, ![w].standing = standing]
    BY DEF Ask
  <1>2. /\ DOMAIN work = Workers /\ DOMAIN k = WorkFields /\ HeardOK(k.heard)
        /\ SourceOK("hkma", source)
    BY <1>1 DEF IInv, WorkOK
  <1>3. /\ heard = HkmaHears(source, k.heard) /\ HeardAll(heard, q) = HkmaHeard(heard)
    BY DEF Hears, HeardAll, BarAdapters
  <1>4. heard # <<>>
    BY <1>2, <1>3, HkmaAnswer
  <1>5. /\ SizesOK(k.heard)
        /\ IF k.heard = <<>> THEN standing = Listed(source) ELSE Gathers(source, k.heard, standing)
    <2>1. SizesOK(<<>>)
      BY NothingHeard DEF SizesOK
    <2>2. QED
      BY <1>1, <2>1 DEF WInv, Keeps, Stood
  <1> HIDE DEF standing
  <1>6. /\ SizesOK(heard)
        /\ HkmaFault(heard) = "none" => Gathers(source, heard, standing)
        /\ HkmaFault(heard) = "none" /\ HkmaHeard(heard) =>
              standing \subseteq ToSet(HkmaRecords(heard))
    BY <1>2, <1>3, <1>5, Gathered
  <1> HIDE DEF heard
  <1>7. ASSUME NEW p, p.error # "none" PROVE Answered(w, p) = [work EXCEPT ![w] = AtRest]
    BY <1>7 DEF Answered
  <1>8. CASE ~Decodes(q, k.cursor)
    <2> DEFINE none == Refused("INVALID_CURSOR")
    <2>1. none.error # "none"
      BY RefusedForm
    <2> HIDE DEF none
    <2>2. work' = [work EXCEPT ![w] = AtRest]
      BY <1>1, <1>7, <1>8, <2>1 DEF none
    <2>3. QED
      BY <1>1, <1>2, <2>2, KeepsAtRest, OneKeeps
  <1>9. CASE Decodes(q, k.cursor) /\ HeardAll(heard, q) /\ page.error = "none"
    <2>1. page = HkmaPage(heard, q, k.cursor)
      BY <1>9, RefusedForm DEF Recovered, PageOf
    <2>2. page.mark[2] = HkmaRecords(heard) /\ HkmaFault(heard) = "none"
      BY <1>9, <2>1, HkmaPageMark
    <2> HIDE DEF page
    <2>3. work' = [[work EXCEPT ![w].pc = "reject", ![w].page = page, ![w].left = page.rejected,
                                ![w].heard = <<>>] EXCEPT ![w].standing = standing]
      BY <1>1, <1>9 DEF Answered
    <2>4. /\ work'[w].pc = "reject" /\ work'[w].page = page /\ work'[w].standing = standing
          /\ \A v \in Workers \ {w} : work'[v] = work[v]
      BY <1>2, <2>3 DEF WorkFields
    <2>5. Keeps(adapter, source, work'[w])
      BY <1>3, <1>6, <1>9, <2>2, <2>4 DEF Keeps
    <2>6. QED
      BY <1>1, <2>4, <2>5, OneKeeps
  <1>10. CASE Decodes(q, k.cursor) /\ HeardAll(heard, q) /\ page.error # "none"
    <2> HIDE DEF page
    <2>1. work' = [[work EXCEPT ![w] = AtRest] EXCEPT ![w].standing = {}]
      BY <1>1, <1>7, <1>10
    <2>2. work'[w].pc = "idle" /\ \A v \in Workers \ {w} : work'[v] = work[v]
      BY <1>2, <2>1 DEF AtRest
    <2>3. Keeps(adapter, source, work'[w])
      BY <2>2 DEF Keeps, Paging
    <2>4. QED
      BY <1>1, <2>2, <2>3, OneKeeps
  <1>11. CASE Decodes(q, k.cursor) /\ ~HeardAll(heard, q)
    <2>1. HkmaFault(heard) = "none"
      BY <1>3, <1>4, <1>11 DEF HkmaHeard
    <2>2. work' = [work EXCEPT ![w].heard = heard, ![w].standing = standing]
      BY <1>1, <1>11
    <2>3. /\ work'[w].pc = "fetch" /\ work'[w].heard = heard /\ work'[w].standing = standing
          /\ \A v \in Workers \ {w} : work'[v] = work[v]
      BY <1>1, <1>2, <2>2 DEF WorkFields
    <2>4. Keeps(adapter, source, work'[w])
      BY <1>6, <2>1, <2>3 DEF Keeps, Paging
    <2>5. QED
      BY <1>1, <2>3, <2>4, OneKeeps
  <1>12. QED
    BY <1>8, <1>9, <1>10, <1>11

LEMMA BecomesKeeps ==
    ASSUME IInv, IInv', WInv, adapter = "hkma", NEW s, Becomes(s),
           NoFurther(source[1].rows, s[1].rows)
    PROVE  WInv'
  <1>1. /\ source' = s /\ adapter' = adapter
        /\ work' = [w \in Workers |-> [work[w] EXCEPT !.standing = @ \cap Listed(s)]]
    BY DEF Becomes
  <1>2. SourceOK("hkma", source) /\ SourceOK("hkma", s)
    BY <1>1 DEF IInv
  <1> SUFFICES ASSUME NEW w \in Workers PROVE Keeps("hkma", s, work'[w])
    BY <1>1 DEF WInv
  <1> DEFINE k == work[w]
             K == work'[w]
  <1>3. DOMAIN k = WorkFields /\ (k.pc = "fetch" => HeardOK(k.heard)) /\ Keeps("hkma", source, k)
    BY DEF IInv, WorkOK, WInv
  <1>4. /\ K.pc = k.pc /\ K.heard = k.heard /\ K.page = k.page
        /\ K.standing = k.standing \cap Listed(s)
    BY <1>1, <1>3 DEF WorkFields
  <1> HIDE DEF k, K
  <1>5. ASSUME K.pc = "fetch", K.heard # <<>>
        PROVE  SizesOK(K.heard) /\ Gathers(s, K.heard, K.standing)
    <2>1. HeardOK(k.heard) /\ SizesOK(k.heard) /\ Gathers(source, k.heard, k.standing)
      BY <1>3, <1>4, <1>5 DEF Keeps
    <2>2. Len(HkmaRecords(k.heard)) \in Nat
      BY <2>1, RecordsSeq
    <2>3. QED
      BY <1>2, <1>4, <2>1, <2>2, StandsOn
  <1>6. K.pc \in Paging => K.standing \subseteq ToSet(K.page.mark[2])
    BY <1>3, <1>4 DEF Keeps
  <1>7. QED
    BY <1>5, <1>6 DEF Keeps, K

LEMMA SourceChangesKeep ==
    ASSUME IInv, IInv', WInv, adapter = "hkma", SourceChanges
    PROVE  WInv'
  <1>1. PICK p \in DOMAIN source :
           \/ \E r \in Published[adapter] : Publish(p, r)
           \/ \E i \in DOMAIN source[p].rows :
                 \/ Withdraw(p, i)
                 \/ Correct(p, i)
                 \/ \E f \in Faults[adapter] : Spoil(p, i, f)
           \/ Repeat(p)
           \/ Unrepeat(p)
           \/ Reshape(p)
           \/ Restate(p)
    BY DEF SourceChanges
  <1>2. /\ DOMAIN source[p] = {"stated", "drift", "rows"} /\ IsSeq(source[p].rows)
        /\ IsSeq(source[1].rows) /\ 1 \in DOMAIN source
    BY SourceRows DEF IInv, SourceOK
  <1>3. adapter \notin BarAdapters
    BY DEF BarAdapters
  <1>4. NoFurther(source[1].rows, source[1].rows)
    BY <1>2, Changed
  <1>5. ASSUME NEW rows, Rewrite(p, rows), NoFurther(source[p].rows, rows) PROVE WInv'
    <2> DEFINE s == [source EXCEPT ![p].rows = rows]
    <2>1. s[p].rows = rows /\ (p # 1 => s[1] = source[1])
      BY <1>2
    <2> HIDE DEF s
    <2>2. NoFurther(source[1].rows, s[1].rows)
      BY <1>4, <1>5, <2>1
    <2>3. Becomes(s)
      BY <1>5 DEF Rewrite, s
    <2>4. QED
      BY <2>2, <2>3, BecomesKeeps
  <1>6. ASSUME NEW i \in DOMAIN source[p].rows, NEW rows, Rewrite(p, rows),
               DOMAIN rows = DOMAIN source[p].rows, rows = [j \in DOMAIN rows |-> rows[j]],
               \A j \in DOMAIN source[p].rows \ {i} : rows[j] = source[p].rows[j]
        PROVE  WInv'
    <2>1. IsSeq(rows) /\ Len(rows) = Len(source[p].rows)
      BY <1>2, <1>6, SeqForm, SeqByLength
    <2> DEFINE old == source[p].rows
    <2>2. /\ IsSeq(old) /\ IsSeq(rows) /\ Len(rows) = Len(old)
          /\ \A j \in DOMAIN old \ {i} : rows[j] = old[j]
      BY <1>2, <1>6, <2>1
    <2> HIDE DEF old
    <2>3. NoFurther(old, rows)
      BY <2>2, Changed
    <2>4. QED
      BY <1>5, <1>6, <2>3 DEF old
  <1>7. ASSUME NEW r, Publish(p, r) PROVE WInv'
    <2>1. Rewrite(p, <<r>> \o source[p].rows)
      BY <1>3, <1>7 DEF Publish
    <2>2. QED
      BY <1>2, <1>5, <2>1, InFront
  <1>8. ASSUME NEW i \in DOMAIN source[p].rows, Withdraw(p, i) PROVE WInv'
    <2>1. Rewrite(p, RemoveAt(source[p].rows, i))
      BY <1>8 DEF Withdraw
    <2>2. QED
      BY <1>2, <1>5, <2>1, TakenOut
  <1>9. ASSUME NEW i \in DOMAIN source[p].rows, Correct(p, i) PROVE WInv'
    <2> DEFINE new == [source[p].rows EXCEPT ![i].text = 3 - @, ![i].fault = "none"]
    <2>1. Rewrite(p, new)
      BY <1>9 DEF Correct
    <2>2. /\ DOMAIN new = DOMAIN source[p].rows /\ new = [j \in DOMAIN new |-> new[j]]
          /\ \A j \in DOMAIN source[p].rows \ {i} : new[j] = source[p].rows[j]
      OBVIOUS
    <2> HIDE DEF new
    <2>3. QED
      BY <1>6, <2>1, <2>2
  <1>10. ASSUME NEW i \in DOMAIN source[p].rows, NEW f, Spoil(p, i, f) PROVE WInv'
    <2> DEFINE new == [source[p].rows EXCEPT ![i].fault = f]
    <2>1. Rewrite(p, new)
      BY <1>10 DEF Spoil
    <2>2. /\ DOMAIN new = DOMAIN source[p].rows /\ new = [j \in DOMAIN new |-> new[j]]
          /\ \A j \in DOMAIN source[p].rows \ {i} : new[j] = source[p].rows[j]
      OBVIOUS
    <2> HIDE DEF new
    <2>3. QED
      BY <1>6, <2>1, <2>2
  <1>11. ASSUME Reshape(p) \/ Restate(p) PROVE WInv'
    <2>1. PICK s : /\ Becomes(s)
                   /\ \/ s = [source EXCEPT ![p].drift = ~@]
                      \/ s = [source EXCEPT ![p].stated = ~@]
      BY <1>11 DEF Reshape, Restate
    <2>2. s[1].rows = source[1].rows
      BY <1>2, <2>1
    <2>3. QED
      BY <1>4, <2>1, <2>2, BecomesKeeps
  <1>12. ~Repeat(p) /\ ~Unrepeat(p)
    BY <1>3 DEF Repeat, Unrepeat
  <1>13. QED
    BY <1>1, <1>7, <1>8, <1>9, <1>10, <1>11, <1>12

LEMMA OtherStepsKeep ==
    ASSUME IInv, WInv, adapter = "hkma", UNCHANGED <<adapter, source>>, NEW w \in Workers,
           \/ \E d : Take(w, d)
           \/ Rest(w) \/ Reject(w) \/ Commit(w)
    PROVE  WInv'
  <1>1. DOMAIN work = Workers /\ DOMAIN work[w] = WorkFields /\ Keeps(adapter, source, work[w])
    BY DEF IInv, WorkOK, WInv
  <1>2. ASSUME NEW d, Take(w, d) PROVE WInv'
    <2>1. work' = [work EXCEPT ![w] = [AtRest EXCEPT !.pc = "fetch", !.date = d,
                                                     !.cursor = task[d].cursor]]
      BY <1>2 DEF Take
    <2>2. /\ work'[w].pc = "fetch" /\ work'[w].heard = <<>>
          /\ \A v \in Workers \ {w} : work'[v] = work[v]
      BY <1>1, <2>1 DEF AtRest
    <2>3. Keeps(adapter, source, work'[w])
      BY <2>2 DEF Keeps, Paging
    <2>4. QED
      BY <2>2, <2>3, OneKeeps
  <1>3. CASE Rest(w)
    BY <1>1, <1>3, KeepsAtRest, OneKeeps DEF Rest
  <1>4. CASE Reject(w) \/ Commit(w)
    <2>1. /\ work[w].pc \in {"reject", "commit"}
          /\ \/ work' = [work EXCEPT ![w].pc = "commit"]
             \/ \E r : work' = [work EXCEPT ![w].left = @ \ {r}]
             \/ work' = [work EXCEPT ![w].pc = "complete"]
      BY <1>4 DEF Reject, Commit
    <2>2. /\ work'[w].pc \in Paging /\ work'[w].standing = work[w].standing
          /\ work'[w].page = work[w].page
          /\ \A v \in Workers \ {w} : work'[v] = work[v]
      BY <1>1, <2>1 DEF WorkFields, Paging
    <2>3. Keeps(adapter, source, work'[w])
      BY <1>1, <2>1, <2>2 DEF Keeps, Paging
    <2>4. QED
      BY <2>2, <2>3, OneKeeps
  <1>5. QED
    BY <1>2, <1>3, <1>4

\* A snapshot put together from several upstream answers is whole, though the
\* list moves under the offsets between the answers (_fetch_snapshot: the
\* total that was reported first must be reported again, and is read up).
THEOREM SnapshotsWhole == Spec => []AssembledWhole
  <1>1. Init => WInv
    <2> SUFFICES ASSUME Init, NEW w \in Workers PROVE Keeps(adapter, source, work[w])
      BY DEF WInv
    <2>1. work[w] = AtRest
      BY DEF Init
    <2>2. QED
      BY <2>1, KeepsAtRest
  <1>2. IInv /\ IInv' /\ WInv /\ [Next]_vars => WInv'
    <2> SUFFICES ASSUME IInv, IInv', WInv, [Next]_vars PROVE WInv'
      OBVIOUS
    <2>1. adapter' = adapter
      <3>1. ASSUME NEW w \in Workers, NEW d \in Dates, Begin(w, d) \/ TakeOver(w, d)
            PROVE  adapter' = adapter
        BY <3>1 DEF Begin, TakeOver, Take
      <3>2. ASSUME NEW w \in Workers, Step(w) PROVE adapter' = adapter
        <4>1. Handler(w) \/ Recover(w)
          BY <3>2 DEF Step, TwelveDataHandler, BaoStockHandler, XtQuantHandler,
                      MacroReleaseHandler, NewsHandler
        <4>2. CASE Ask(w)
          BY <4>2 DEF Ask
        <4>3. QED
          BY <4>1, <4>2 DEF Handler, TooOld, Reject, Commit, Complete, Recover
      <3>3. ASSUME NEW w \in Workers, Fail(w) \/ Crash(w) PROVE adapter' = adapter
        BY <3>3 DEF Fail, Crash
      <3>4. CASE SourceChanges
        <4>1. \E s : Becomes(s)
          BY <3>4 DEF SourceChanges, Publish, Withdraw, Correct, Spoil, Repeat, Unrepeat,
                      Reshape, Restate, Rewrite
        <4>2. QED
          BY <4>1 DEF Becomes
      <3>5. QED
        BY <3>1, <3>2, <3>3, <3>4 DEF Next, GrowOld, vars
    <2>2. CASE adapter # "hkma"
      BY <2>1, <2>2 DEF WInv, Keeps
    <2>3. CASE adapter = "hkma"
      <3>1. ASSUME NEW w \in Workers, NEW d \in Dates, Begin(w, d) \/ TakeOver(w, d) PROVE WInv'
        <4>1. Take(w, d)
          BY <3>1 DEF Begin, TakeOver
        <4>2. UNCHANGED <<adapter, source>>
          BY <4>1 DEF Take
        <4>3. QED
          BY <2>3, <4>1, <4>2, OtherStepsKeep
      <3>2. ASSUME NEW w \in Workers, Step(w) PROVE WInv'
        <4>1. Handler(w)
          BY <2>3, <3>2 DEF Step, TwelveDataHandler, BaoStockHandler, XtQuantHandler,
                            MacroReleaseHandler, NewsHandler
        <4>2. CASE Ask(w)
          BY <2>3, <4>2, AskKeeps
        <4>3. CASE TooOld(w) \/ Complete(w)
          BY <2>3, <4>3, OtherStepsKeep DEF TooOld, Complete
        <4>4. CASE Reject(w) \/ Commit(w)
          <5>1. UNCHANGED <<adapter, source>>
            BY <4>4 DEF Reject, Commit
          <5>2. QED
            BY <2>3, <4>4, <5>1, OtherStepsKeep
        <4>5. QED
          BY <4>1, <4>2, <4>3, <4>4 DEF Handler
      <3>3. ASSUME NEW w \in Workers, Fail(w) \/ Crash(w) PROVE WInv'
        BY <2>3, <3>3, OtherStepsKeep DEF Fail, Crash
      <3>4. ASSUME NEW d \in Dates, GrowOld(d) PROVE WInv'
        BY <3>4 DEF GrowOld, WInv
      <3>5. CASE SourceChanges
        BY <2>3, <3>5, SourceChangesKeep
      <3>6. CASE UNCHANGED vars
        BY <3>6 DEF vars, WInv
      <3>7. QED
        BY <3>1, <3>2, <3>3, <3>4, <3>5, <3>6 DEF Next
    <2>4. QED
      BY <2>2, <2>3
  <1>3. WInv => AssembledWhole
    BY DEF WInv, Keeps, AssembledWhole, HasPage, Paging
  <1>4. QED
    BY <1>1, <1>2, <1>3, PageInvariance, PTL DEF Spec
=============================================================================
