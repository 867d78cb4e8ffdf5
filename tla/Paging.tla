-------------------------------- MODULE Paging --------------------------------
(***************************************************************************)
(* The way of a page from the flags of a command (cmd/flags.go) through    *)
(* the search of transactions (client/query/tendermint.go) to the node,    *)
(* which cuts pages itself.  Flags are unsigned words, the parameters of   *)
(* the search signed ones.                                                 *)
(***************************************************************************)
EXTENDS Integers

CONSTANTS
    Half,                       \* 2^63: half the values of a word
    MaxPerPage, DefaultPerPage  \* of the node

ASSUME WordAssumption == /\ Half \in Nat \ {0}
                         /\ MaxPerPage \in 1..(Half - 1)
                         /\ DefaultPerPage \in 1..MaxPerPage

Word == 2 * Half
Unsigned == 0..(Word - 1)
Signed == -Half..(Half - 1)

PageFlags == [page : Unsigned, offset : Unsigned, limit : Unsigned]
PageRequests == [offset : Unsigned, limit : Unsigned]
Searches == [page : Signed, perPage : Signed]

\* Go's int(u), and the sum of an int and 1.
ToInt(u) == IF u < Half THEN u ELSE u - Word
Succ(i) == IF i = Half - 1 THEN -Half ELSE i + 1

\* Variant of OffsetOf: pages are counted from 0.
OffsetFromZero(f) == (f.page * f.limit) % Word

\* The offset of a page beyond the first.
OffsetOf(f) == ((f.page - 1) * f.limit) % Word

\* "cannot specify both --page and --offset"
Contradictory(f) == f.page > 1 /\ f.offset > 0

\* ReadPageRequest, if they do not contradict each other.
PageRequest(f) ==
    [offset |-> IF f.page > 1 THEN OffsetOf(f) ELSE f.offset, limit |-> f.limit]

\* Variant of PageOf: pages are counted from 0.
PageFromZero(r) == ToInt(r.offset \div r.limit)

\* "page is 1-indexed, not 0-indexed"
PageOf(r) == Succ(ToInt(r.offset \div r.limit))

\* What TxsRPC asks for, with a limit that is not 0.
SearchFor(r) == [page |-> PageOf(r), perPage |-> ToInt(r.limit)]

\* The size of a page as the node sees it.
PerPage(s) ==
    IF s.perPage < 1 THEN DefaultPerPage
    ELSE IF s.perPage > MaxPerPage THEN MaxPerPage ELSE s.perPage

\* The page's transactions of all that match; no page is empty but the first.
Page(s, total) == {i \in 1..total : (s.page - 1) * PerPage(s) < i /\ i <= s.page * PerPage(s)}
HasPage(s, total) == s.page = 1 \/ (s.page > 1 /\ Page(s, total) # {})
=============================================================================
