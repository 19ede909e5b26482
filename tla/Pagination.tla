------------------------------ MODULE Pagination ------------------------------
(***************************************************************************)
(* Paging through one connection (houdini/src/runtime/pagination.ts): the  *)
(* cursor and the offset handlers, in the mode that shows one page at a    *)
(* time and in the one that adds each page to the list.  The handlers read *)
(* the state of the store when they are called, and nothing stops a call   *)
(* while the answer of an earlier one is still out.                        *)
(***************************************************************************)
EXTENDS Naturals, Sequences, FiniteSets, SequencesExt

CONSTANTS
  Size,        \* items of the connection on the server: 1 .. Size
  PageSize,
  Methods,     \* of "cursor" and "offset"
  MaxCalls     \* bound: calls of the handlers

VARIABLES
  document,    \* what the artifact says of the pagination; never changes
  args,        \* the variables of the store
  list,        \* the items shown
  info,        \* pageInfo: the cursors at the ends, and what lies beyond
  previous,    \* previousCursors
  next,        \* nextCursors
  out,         \* the requests under way, in the order they were sent
  upset,       \* the stacks of cursors are known not to follow the pages (history)
  crossed,     \* a later answer or a whole list came before a page that was out (history)
  calls

vars == <<document, args, list, info, previous, next, out, upset, crossed, calls>>

\* A cursor names the item it stands at, and 0 is null.  The variables first and
\* last say which way a page was asked for: count items after a cursor or before one.
Cursors == 0 .. Size
Args == [forward : BOOLEAN, cursor : Cursors, count : Nat]
Forward(c, n)  == [forward |-> TRUE, cursor |-> c, count |-> n]
Backward(c, n) == [forward |-> FALSE, cursor |-> c, count |-> n]

Info == [start : Cursors, end : Cursors, hasNext : BOOLEAN, hasPrevious : BOOLEAN]
NullInfo == [start |-> 0, end |-> 0, hasNext |-> FALSE, hasPrevious |-> FALSE]

Request == [move : {"next", "previous", "refresh"}, update : BOOLEAN, args : Args,
            after : 0 .. Size + 1, before : 0 .. Size + 1]

PagedDocuments == [method : Methods, single : BOOLEAN,
                   direction : {"forward", "backward", "both"}]

-----------------------------------------------------------------------------
(* The server.                                                             *)

Least(a, b) == IF a < b THEN a ELSE b

Window(a) ==
  LET from == IF a.forward THEN a.cursor + 1
              ELSE LET to == IF a.cursor = 0 THEN Size + 1 ELSE a.cursor
                   IN  IF to > a.count THEN to - a.count ELSE 1
      n    == IF a.forward THEN Least(a.count, Size - a.cursor)
              ELSE (IF a.cursor = 0 THEN Size + 1 ELSE a.cursor) - from
  IN  [i \in 1 .. n |-> from + i - 1]

InfoOf(w) ==
  IF w = <<>> THEN NullInfo
  ELSE [start |-> w[1], end |-> w[Len(w)], hasNext |-> w[Len(w)] < Size,
        hasPrevious |-> w[1] > 1]

\* The page a visitor lands on: any one, for the directions the document can go.
Landing(d) ==
  {Forward(c, PageSize) : c \in IF d.direction = "backward" THEN {}
                                ELSE {i \in 0 .. Size - 1 : i % PageSize = 0}}
  \cup {Backward(c, PageSize) : c \in IF d.direction = "forward" THEN {} ELSE {0}}

Init ==
  /\ document \in {d \in PagedDocuments : d.method = "offset" => d.direction = "forward"}
  /\ args \in IF document.method = "offset" THEN {Forward(0, PageSize)} ELSE Landing(document)
  /\ list = Window(args) /\ info = InfoOf(list)
  /\ previous = <<>> /\ next = <<>> /\ out = <<>>
  /\ upset = FALSE /\ crossed = FALSE /\ calls = 0

-----------------------------------------------------------------------------
(* The handlers.                                                           *)

Send(move, update, a) ==
  /\ calls < MaxCalls /\ calls' = calls + 1
  /\ out' = Append(out, [move |-> move, update |-> update, args |-> a,
                         after |-> IF list = <<>> THEN 0 ELSE list[Len(list)],
                         before |-> IF list = <<>> THEN 0 ELSE list[1]])
  /\ crossed' = (crossed \/ (document.method = "offset" /\ out # <<>>))
  /\ UNCHANGED <<document, args, list, info>>

\* A page asked for while another is out, or left by a way the stacks do not know.
Unsettles(b) == upset' = (upset \/ (document.single /\ (out # <<>> \/ b)))

Pop(s) == SubSeq(s, 1, Len(s) - 1)

\* SinglePage after a step back: the query of that step's page again.
NextFromStack ==
  /\ document.method = "cursor" /\ document.single
  /\ document.direction \in {"backward", "both"} /\ next # <<>>
  /\ Send("next", FALSE, Backward(Last(next), PageSize))
  /\ next' = Pop(next)
  /\ Unsettles(FALSE)
  /\ UNCHANGED previous

\* Faulty variant: the cursor kept for the way back is that of the page asked for.
NextPagePushingEnd ==
  /\ document.method = "cursor"
  /\ document.single => /\ document.direction # "backward"
                        /\ document.direction = "both" => next = <<>>
  /\ info.hasNext
  /\ Send("next", ~document.single, Forward(info.end, PageSize))
  /\ previous' = IF document.single THEN Append(previous, info.end) ELSE previous
  /\ Unsettles(~args.forward)
  /\ UNCHANGED next

NextPage ==
  LET stacked == document.single /\ document.direction \in {"forward", "both"}
  IN  /\ document.method = "cursor"
      /\ document.single => /\ document.direction # "backward"
                            /\ document.direction = "both" => next = <<>>
      /\ info.hasNext
      /\ Send("next", ~document.single, Forward(info.end, PageSize))
      /\ previous' = IF stacked
                     THEN Append(previous, IF args.forward THEN args.cursor ELSE 0)
                     ELSE previous
      /\ Unsettles(~args.forward)
      /\ UNCHANGED next

PreviousFromStack ==
  /\ document.method = "cursor" /\ document.single
  /\ document.direction \in {"forward", "both"} /\ previous # <<>>
  /\ Send("previous", FALSE, Forward(Last(previous), PageSize))
  /\ previous' = Pop(previous)
  /\ Unsettles(FALSE)
  /\ UNCHANGED next

PreviousPage ==
  LET stacked == document.single /\ document.direction \in {"backward", "both"}
                 /\ ~args.forward
  IN  /\ document.method = "cursor"
      /\ document.single => /\ document.direction # "forward"
                            /\ document.direction = "both" => previous = <<>>
      /\ info.hasPrevious
      /\ Send("previous", ~document.single, Backward(info.start, PageSize))
      /\ next' = IF stacked THEN Append(next, args.cursor) ELSE next
      /\ Unsettles(FALSE)
      /\ UNCHANGED previous

\* getOffset: how far the connection is shown, a page while there is nothing.
Offset == (IF list = <<>> THEN PageSize ELSE Len(list))
          + (IF document.single THEN args.cursor ELSE 0)

\* loadNextPage of the offset handlers, with the limit that the store's variables have.
NextOffset ==
  /\ document.method = "offset"
  /\ Send("next", ~document.single, Forward(Least(Size, Offset), args.count))
  /\ Unsettles(FALSE)
  /\ UNCHANGED <<previous, next>>

\* fetch without other variables: all that is shown, from whichever end it touches.  The
\* offset handlers ask for as many items as getOffset counts, from the store's offset.
Fetch ==
  LET n == IF document.method = "offset" THEN Offset ELSE Len(list)
      a == CASE n <= PageSize -> args
             [] n > PageSize /\ document.method = "offset" -> Forward(args.cursor, n)
             [] n > PageSize /\ document.method = "cursor" /\ ~info.hasPrevious -> Forward(0, n)
             [] n > PageSize /\ document.method = "cursor" /\ info.hasPrevious
                /\ ~info.hasNext -> Backward(0, n)
             [] OTHER -> args
  IN  /\ Send("refresh", FALSE, a)
      /\ Unsettles(FALSE)
      /\ UNCHANGED <<previous, next>>

-----------------------------------------------------------------------------
(* Answers.                                                                *)

\* The cache's append and prepend: old entries that come again give way.
Staying(w) == {i \in DOMAIN list : document.method = "offset" \/ list[i] \notin Range(w)}

Kept(w) ==
  LET nth(k) == CHOOSE i \in Staying(w) : Cardinality({j \in Staying(w) : j < i}) = k - 1
  IN  [k \in 1 .. Cardinality(Staying(w)) |-> list[nth(k)]]

Added(w, move) == IF move = "next" THEN Kept(w) \o w ELSE w \o Kept(w)

\* pageInfo takes from an update what lies at the end it was added to.
\* Faulty variant: an update replaces the whole of pageInfo.
InfoReplaced(w, move) == IF w = <<>> THEN info ELSE InfoOf(w)

InfoAfter(w, move) ==
  LET i == InfoOf(w)
  IN  CASE w = <<>>                        -> info
        [] w # <<>> /\ move = "next"       -> [info EXCEPT !.end = i.end, !.hasNext = i.hasNext]
        [] w # <<>> /\ move = "previous"   -> [info EXCEPT !.start = i.start,
                                                           !.hasPrevious = i.hasPrevious]

Answer(n) ==
  LET r == out[n]
      w == Window(r.args)
  IN  /\ IF r.update
         THEN /\ list' = Added(w, r.move)
              /\ info' = InfoAfter(w, r.move)
              /\ UNCHANGED args
         ELSE /\ list' = w /\ info' = InfoOf(w) /\ args' = r.args
      /\ out' = RemoveAt(out, n)
      /\ crossed' = (crossed \/ \E m \in DOMAIN out : out[m].update /\ (m < n \/ (m # n /\ ~r.update)))
      /\ UNCHANGED <<document, previous, next, upset, calls>>

\* The request fails: the cursors were pushed and popped all the same.
Fail(n) ==
  /\ out' = RemoveAt(out, n)
  /\ upset' = (upset \/ (document.single /\ out[n].move # "refresh"))
  /\ UNCHANGED <<document, args, list, info, previous, next, crossed, calls>>

Next ==
  \/ NextFromStack \/ NextPage \/ PreviousFromStack \/ PreviousPage
  \/ NextOffset \/ Fetch
  \/ \E n \in DOMAIN out : Answer(n) \/ Fail(n)

Spec == Init /\ [][Next]_vars

-----------------------------------------------------------------------------
TypeOK ==
  /\ document \in PagedDocuments /\ args \in Args /\ list \in Seq(1 .. Size) /\ info \in Info
  /\ previous \in Seq(Cursors) /\ next \in Seq(Cursors) /\ out \in Seq(Request)
  /\ upset \in BOOLEAN /\ crossed \in BOOLEAN /\ calls \in 0 .. MaxCalls

\* Each page asked for is the neighbour of the one shown: the stacks of cursors that let
\* a one-directional connection go back agree with the page on screen, unless a call
\* failed or was made while another was out.
PagesFollow ==
  ~(upset \/ crossed) =>
    \A n \in DOMAIN out :
      LET w == Window(out[n].args)
      IN  /\ (out[n].move = "next" /\ w # <<>>) => w[1] = out[n].after + 1
          /\ (out[n].move = "previous" /\ w # <<>>) => w[Len(w)] = out[n].before - 1

\* The list is one stretch of the connection, with every item once, and pageInfo tells its
\* two ends, unless answers crossed.
NoGaps ==
  ~crossed =>
    /\ \A i \in 1 .. Len(list) - 1 : list[i + 1] = list[i] + 1
    /\ list # <<>> => info = InfoOf(list)
=============================================================================
