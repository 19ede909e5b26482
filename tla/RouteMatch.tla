----------------------------- MODULE RouteMatch -----------------------------
(***************************************************************************)
(* From the routes directory to the page a url shows: the concurrent walk  *)
(* that builds the manifest (router/manifest.ts, conventions.ts), the      *)
(* hrefs that links build for its pages (resolve-href.ts) and the match of *)
(* a url against them (router/match.ts).  A url is the sequence of its     *)
(* segments, with an empty one at the end for a trailing slash; the root   *)
(* is <<"">>.                                                              *)
(***************************************************************************)
EXTENDS Naturals, Sequences, FiniteSets, SequencesExt

CONSTANTS
  Dirs,        \* the directories, each the sequence of its segments
  Files,       \* what each has: "page", "layout"
  PageQuery,   \* the query of each, or None
  LayoutQuery,
  Written,     \* what queries the page view of each may take as props
  Rank,        \* the order of the bytes of names and of the mask "_" in ids
  Values,      \* what links give for params, and what is typed into urls
  Numbers,     \* of these, those that parseInt reads
  None

VARIABLES
  wants,       \* the queries that the page views take as props
  visited,     \* what each directory that was read hands down
  pages,       \* the manifest: page ids to pages
  refused,     \* the walk has thrown
  link,        \* the last link that was followed, None for a typed url
  url,
  found        \* the page that find_match gives, or None, with its variables

vars == <<wants, visited, pages, refused, link, url, found>>

\* A segment of a route: "static", "param" [x], "optional" [[x]], "rest" [...x], "group" (x).
Params(route) == {route[i].name : i \in {j \in DOMAIN route : route[j].kind \in {"param", "optional", "rest"}}}
Clean(route) == SelectSeq(route, LAMBDA s : s.kind # "group")

Init ==
  /\ wants \in Written
  /\ visited = << >> /\ pages = << >> /\ refused = FALSE
  /\ link = None /\ url = None /\ found = None

-----------------------------------------------------------------------------
(* The walk.                                                               *)

\* page_id: every slash, bracket, parenthesis and dash becomes the mask, dots stay.
Token(s) ==
  CASE s.kind = "static"   -> <<"_", s.name>>
    [] s.kind = "param"    -> <<"_", "_", s.name, "_">>
    [] s.kind = "group"    -> <<"_", "_", s.name, "_">>
    [] s.kind = "optional" -> <<"_", "_", "_", s.name, "_", "_">>
    [] s.kind = "rest"     -> <<"_", "_", "...", s.name, "_">>
PageId(route) == IF route = <<>> THEN <<"_">> ELSE FlattenSeq([i \in DOMAIN route |-> Token(route[i])])

Parent(d) == Front(d)
Start == [layouts |-> <<>>, queries |-> <<>>, variables |-> << >>]
Handed(d) == IF d = <<>> THEN Start ELSE visited[Parent(d)]

\* Later definitions win.
Merge(f, g) == [x \in DOMAIN f \cup DOMAIN g |-> IF x \in DOMAIN g THEN g[x] ELSE f[x]]
VariablesOf(query) == IF query = None THEN << >> ELSE query.variables
NamesOf(query) == IF query = None THEN <<>> ELSE <<query.name>>

\* What a directory hands to those below it: layout queries and views, but the variables
\* of its page query too.
Context(d) ==
  LET h == Handed(d)
  IN  [layouts   |-> h.layouts \o (IF "layout" \in Files[d] THEN <<PageId(d)>> ELSE <<>>),
       queries   |-> h.queries \o NamesOf(LayoutQuery[d]),
       variables |-> Merge(Merge(h.variables, VariablesOf(LayoutQuery[d])), VariablesOf(PageQuery[d]))]

\* add_view, and what parse_page_pattern and buildSearchParams make of it.
Page(d) ==
  LET c == Context(d)
  IN  [route   |-> d,
       layouts |-> c.layouts,
       options |-> c.queries \o NamesOf(PageQuery[d]),
       types   |-> c.variables,
       search  |-> {v \in DOMAIN c.variables : v \notin Params(d) /\ ~c.variables[v].required}]

\* Directories are read concurrently; children after their parent.
Visit(d) ==
  /\ ~refused /\ d \notin DOMAIN visited
  /\ d = <<>> \/ Parent(d) \in DOMAIN visited
  /\ LET p == Page(d)
         view == "page" \in Files[d]
     IN  IF view /\ ~(wants[d] \subseteq ToSet(p.options))
         THEN refused' = TRUE /\ UNCHANGED <<visited, pages>>
         ELSE /\ visited' = Merge(visited, [x \in {d} |-> Context(d)])
              /\ pages' = IF view THEN Merge(pages, [x \in {PageId(d)} |-> p]) ELSE pages
              /\ UNCHANGED refused
  /\ UNCHANGED <<wants, link, url, found>>

Walked == DOMAIN visited = Dirs

-----------------------------------------------------------------------------
(* Links.                                                                  *)

\* resolveHref: an absent optional goes with its slash, an absent rest leaves it.  Args
\* give the segments of the value of each param, or none; nothing is encoded.
Filled(s, args) ==
  CASE s.kind = "static"   -> <<s.name>>
    [] s.kind = "param"    -> IF s.name \in DOMAIN args THEN args[s.name] ELSE <<s.name>>
    [] s.kind = "optional" -> IF s.name \in DOMAIN args THEN args[s.name] ELSE <<>>
    [] s.kind = "rest"     -> IF s.name \in DOMAIN args THEN args[s.name] ELSE <<"">>
Href(route, args) ==
  LET c == Clean(route)
  IN  IF c = <<>> THEN <<"">> ELSE FlattenSeq([i \in DOMAIN c |-> Filled(c[i], args)])

-----------------------------------------------------------------------------
(* Matching.                                                               *)

Fails == [matches |-> FALSE]
Empty == [matches |-> TRUE, captured |-> << >>]
With(rest, name, segments) ==
  IF rest.matches THEN [rest EXCEPT !.captured = Merge(@, [x \in {name} |-> segments])] ELSE Fails
OrElse(a, b) == IF a.matches THEN a ELSE b

RECURSIVE Capture(_, _), CaptureRest(_, _, _)

\* The pattern of a page: greedy, with the backtracking of a regular expression, and one
\* slash too many allowed at the end.
Capture(pattern, u) ==
  IF pattern = <<>> THEN IF u \in {<<>>, <<"">>} THEN Empty ELSE Fails
  ELSE LET s == Head(pattern)
           more == Tail(pattern)
           one == u # <<>> /\ Head(u) # ""
       IN  CASE s.kind = "static" ->
                  IF one /\ Head(u) = s.name THEN Capture(more, Tail(u)) ELSE Fails
             [] s.kind = "param" ->
                  IF one THEN With(Capture(more, Tail(u)), s.name, <<Head(u)>>) ELSE Fails
             [] s.kind = "optional" ->
                  OrElse(IF one THEN With(Capture(more, Tail(u)), s.name, <<Head(u)>>) ELSE Fails,
                         Capture(more, u))
             [] s.kind = "rest" -> CaptureRest(s.name, Len(u), <<more, u>>)

\* A rest takes as much as it can; nothing at all is an empty value (exec).
CaptureRest(name, k, rest) ==
  LET more == rest[1]
      u == rest[2]
      taken == With(Capture(more, SubSeq(u, k + 1, Len(u))), name,
                    IF k = 0 THEN <<"">> ELSE SubSeq(u, 1, k))
  IN  IF k = 0 THEN taken ELSE OrElse(taken, CaptureRest(name, k - 1, rest))

\* The pattern of the root matches nothing else.
Match(route, u) ==
  IF route = <<>> THEN IF u = <<"">> THEN Empty ELSE Fails ELSE Capture(Clean(route), u)

\* parseScalar: what no number can be read from is left out.
Parsed(types, captured) ==
  LET lost == {v \in DOMAIN captured \cap DOMAIN types :
                 types[v].type = "Int" /\ captured[v] \notin {<<n>> : n \in Numbers}}
  IN  [v \in DOMAIN captured \ lost |-> captured[v]]

\* Declared search params, of a url's query string, that the path has not given.
Searched(page, given, query) ==
  LET asked == [v \in (DOMAIN query \cap page.search) \ DOMAIN given |-> <<query[v]>>]
  IN  Parsed(page.types, asked)

\* The manifest lists pages by id, in byte order.
Before(a, b) ==
  \E i \in 1 .. Len(b) :
    /\ \A j \in 1 .. (i - 1) : j \in DOMAIN a /\ a[j] = b[j]
    /\ i > Len(a) \/ Rank[a[i]] < Rank[b[i]]

\* Faulty variant: an optional segment has to be there.
MatchWhole(route, u) == IF Len(u) < Len(Clean(route)) THEN Fails ELSE Match(route, u)

Matches(route, u) == Match(route, u)

FindMatch(u, query) ==
  LET hits == {id \in DOMAIN pages : Matches(pages[id].route, u).matches}
  IN  IF hits = {} THEN None
      ELSE LET id == CHOOSE i \in hits : \A j \in hits \ {i} : Before(i, j)
               path == Parsed(pages[id].types, Match(pages[id].route, u).captured)
           IN  [id |-> id, variables |-> Merge(Searched(pages[id], path, query), path)]

\* find_prefix_match: the page with most leading static segments, all in the url.
Leading(route) ==
  LET c == Clean(route)
      n == CHOOSE k \in 0 .. Len(c) : /\ \A i \in 1 .. k : c[i].kind = "static"
                                      /\ k = Len(c) \/ c[k + 1].kind # "static"
  IN  [i \in 1 .. n |-> c[i].name]
Prefixed(u) ==
  LET fit == {id \in DOMAIN pages : IsPrefix(Leading(pages[id].route), u)}
      longest == {i \in fit : \A j \in fit : Len(Leading(pages[j].route)) <= Len(Leading(pages[i].route))}
  IN  IF fit = {} THEN None ELSE CHOOSE i \in longest : \A j \in longest \ {i} : Before(i, j)

-----------------------------------------------------------------------------
\* What a link may give: one segment for a param, some for a rest, what is optional or not.
Arguments(route, values) ==
  LET must == {s \in ToSet(route) : s.kind = "param"}
      may == {s \in ToSet(route) : s.kind \in {"optional", "rest"}}
      choices(s) == {<<v>> : v \in values}
                    \cup IF s.kind = "rest" THEN {<<v, w>> : v, w \in values} ELSE {}
      names(S) == {s.name : s \in S}
      kind(n) == CHOOSE s \in must \cup may : s.name = n
  IN  UNION {{a \in [names(must \cup some) -> UNION {choices(s) : s \in must \cup may}] :
                \A n \in DOMAIN a : a[n] \in choices(kind(n))} : some \in SUBSET may}

Queries(p) == {<< >>} \cup {[x \in {v} |-> val] : v \in p.search, val \in Values}

Follow(id, args, query) ==
  /\ Walked
  /\ link' = [id |-> id, args |-> args, query |-> query]
  /\ url' = Href(pages[id].route, args)
  /\ found' = FindMatch(url', query)
  /\ UNCHANGED <<wants, visited, pages, refused>>

Type(u) ==
  /\ Walked
  /\ link' = None /\ url' = u /\ found' = FindMatch(u, << >>)
  /\ UNCHANGED <<wants, visited, pages, refused>>

Words == Values \cup {s.name : s \in UNION {ToSet(d) : d \in Dirs}}

Next ==
  \/ \E d \in Dirs : Visit(d)
  \/ \E id \in DOMAIN pages : \E args \in Arguments(pages[id].route, Values), q \in Queries(pages[id]) :
       Follow(id, args, q)
  \/ \E n \in 1 .. 2 : \E u \in [1 .. n -> Words] : Type(u)

Spec == Init /\ [][Next]_vars

-----------------------------------------------------------------------------
TypeOK ==
  /\ wants \in Written
  /\ DOMAIN visited \subseteq Dirs /\ DOMAIN pages \subseteq {PageId(d) : d \in Dirs}
  /\ refused \in BOOLEAN
  /\ found = None \/ found.id \in DOMAIN pages

\* The layouts of a page are those of the directories on the way to it, outermost first,
\* and it may ask for their queries and its own, in whatever order the walk went.
Nested ==
  \A id \in DOMAIN pages :
    LET d == pages[id].route
        way == [k \in 1 .. Len(d) + 1 |-> SubSeq(d, 1, k - 1)]
    IN  /\ pages[id].layouts =
             [i \in DOMAIN SelectSeq(way, LAMBDA x : "layout" \in Files[x]) |->
                PageId(SelectSeq(way, LAMBDA x : "layout" \in Files[x])[i])]
        /\ ToSet(pages[id].options) =
             {PageQuery[d].name : x \in {d} \ {y \in {d} : PageQuery[y] = None}}
             \cup {LayoutQuery[x].name : x \in {y \in ToSet(way) : LayoutQuery[y] # None}}

\* Every page is there in the end, unless another has its id.
Complete ==
  Walked => \A d \in Dirs : "page" \in Files[d] =>
    \/ PageId(d) \in DOMAIN pages /\ pages[PageId(d)].route = d
    \/ \E e \in Dirs \ {d} : PageId(e) = PageId(d)

\* A link leads to its page with the params it was given, or to a page that comes before
\* it and that has the same url for params of its own.
LinksLead ==
  link # None =>
    /\ found # None
    /\ IF found.id = link.id
       THEN \A v \in DOMAIN link.args :
              LET t == pages[link.id].types
              IN  IF v \in DOMAIN t /\ t[v].type = "Int" /\ link.args[v][1] \notin Numbers
                  THEN TRUE
                  ELSE v \in DOMAIN found.variables /\ found.variables[v] = link.args[v]
       ELSE /\ Before(found.id, link.id)
            /\ \E a \in Arguments(pages[found.id].route, Words) : Href(pages[found.id].route, a) = url

\* A url that no page matches is shown within the layouts of a page that shares its static
\* start, and no page shares more.
Fallback ==
  Walked /\ url # None /\ found = None =>
    LET id == Prefixed(url)
    IN  id # None => \A j \in DOMAIN pages :
          IsPrefix(Leading(pages[j].route), url) =>
            Len(Leading(pages[j].route)) <= Len(Leading(pages[id].route))
=============================================================================
