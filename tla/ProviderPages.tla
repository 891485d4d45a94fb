--------------------------- MODULE ProviderPages ---------------------------
(***************************************************************************)
(* What the provider adapters have in common: a page is a cut of one       *)
(* snapshot of the source, and its next cursor names the snapshot, the     *)
(* place reached in it and the item before that place.                     *)
(*                                                                         *)
(* A record of a source is [day, name, text, fault]: when it is dated,     *)
(* what names it, the content its checksum covers, and what is wrong with  *)
(* it.  Days, names and texts are small numbers.  An item is a record that *)
(* an adapter accepted: [id, at, text], id standing for the stable ID the  *)
(* adapter makes of it.                                                    *)
(*                                                                         *)
(* The mark of a snapshot is the content its checksum covers.  Cursors are *)
(* signed with a secret that the registry hands to every adapter, so that  *)
(* those that come back are those that were given out; a cursor that was   *)
(* made for another query is refused.                                      *)
(***************************************************************************)
EXTENDS Naturals, Sequences, FiniteSets, SequencesExt

CONSTANTS
    Limit,      \* query.limit: the items of a page
    Window      \* Window[q]: the days from the start to the end of query q

ASSUME LimitAssumption == Limit \in Nat \ {0}

----------------------------------------------------------------------------
\* A page.  error is "none", or what fetch raised instead of a page.
Served(items, next, mark, rejected) ==
    [error |-> "none", items |-> items, next |-> next, mark |-> mark, rejected |-> rejected]

\* The first page is asked for without a cursor; no query is 0.
NoCursor == [query |-> 0, offset |-> 0, last |-> <<>>, mark |-> <<>>]

Refused(code) ==
    [error |-> code, items |-> <<>>, next |-> NoCursor, mark |-> <<>>, rejected |-> {}]

\* The errors that are a ProviderCursorError.
CursorErrors ==
    {"INVALID_CURSOR", "SNAPSHOT_CHANGED", "INVALID_PAGINATION", "DUPLICATE_PAGE", "CURSOR_LIMIT"}

\* Items in the order of time, then of their IDs.
Before(a, b) ==
    \/ a.at < b.at
    \/ a.at = b.at /\ \/ a.id[1] < b.id[1]
                      \/ a.id[1] = b.id[1] /\ a.id[2] < b.id[2]
After(a, b) == Before(b, a)

\* F of the value of v, evaluated once.
With(v, F(_)) == CHOOSE r \in {F(x) : x \in {v}} : TRUE

\* s in the order of Precedes, equals as they come.
Rank(s, i, Precedes(_, _)) ==
    1 + Cardinality({j \in DOMAIN s :
            Precedes(s[j], s[i]) \/ (~Precedes(s[i], s[j]) /\ j < i)})
Sorted(s, Precedes(_, _)) ==
    With(s, LAMBDA t :
        [n \in DOMAIN t |-> t[CHOOSE i \in DOMAIN t : Rank(t, i, Precedes) = n]])

\* What s has at the positions P, in their order (first-order, other than
\* SelectSeq, so that it can be reasoned about).
At(s, P) ==
    With(P, LAMBDA ps :
        [n \in 1..Cardinality(ps) |-> s[CHOOSE i \in ps : Cardinality({j \in ps : j <= i}) = n]])

\* The items that the query asks for.
InWindow(items, q) ==
    With(items, LAMBDA t : At(t, {i \in DOMAIN t : t[i].at \in Window[q]}))

\* Those of s that are the first of their identity, in their order.
FirstOf(s, Id(_)) ==
    With(s, LAMBDA t : At(t, {i \in DOMAIN t : \A j \in 1..(i - 1) : Id(t[j]) # Id(t[i])}))

----------------------------------------------------------------------------
\* Where a page that starts at the cursor's place ends.
Reach(items, cursor) == Min({cursor.offset + Limit, Len(items)})

\* next_cursor, for a page after which the place reached is n.
Lead(items, q, mark, n) ==
    IF n < Len(items)
    THEN [query |-> q, offset |-> n, last |-> items[n].id, mark |-> mark]
    ELSE NoCursor

\* The page of the items of a snapshot at the cursor's place.
CutStandingStill(items, q, cursor, mark, rejected) ==
    Served(SubSeq(items, cursor.offset + 1, Reach(items, cursor)),
           Lead(items, q, mark, Min({Limit, Len(items)})), mark, rejected)
Cut(items, q, cursor, mark, rejected) ==
    Served(SubSeq(items, cursor.offset + 1, Reach(items, cursor)),
           Lead(items, q, mark, Reach(items, cursor)), mark, rejected)

\* A cursor is used for the query it was made for, all of the query.
Decodes(q, cursor) == cursor = NoCursor \/ cursor.query = q

\* A snapshot is the one the cursor was made from.
SameLength(mark, cursor) == cursor = NoCursor \/ Len(cursor.mark) = Len(mark)
SameSnapshot(mark, cursor) == cursor = NoCursor \/ cursor.mark = mark

\* The item before the cursor's place is the one it names.
Follows(items, cursor) ==
    cursor.offset > 0 =>
        cursor.offset <= Len(items) /\ items[cursor.offset].id = cursor.last

=============================================================================
