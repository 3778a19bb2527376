------------------------------ MODULE TablePages ------------------------------
(***************************************************************************)
(* The pages whose table fetches one page at a time: Claims, Composite     *)
(* Resources and Compositions.  The table fetches again whenever its page, *)
(* its search, the filter or the context changes; it cancels nothing, so   *)
(* the last answer to arrive is the one it shows.                          *)
(***************************************************************************)
EXTENDS PageBase

----------------------------------------------------------------------------
(* What the use cases return.                                               *)

\* All claims; a kind that cannot be listed is left out.
GetClaims(c) == OrFailed(c) \cup WithoutAKind(c)

\* A failure to list the definitions counts as no definitions; of what is
\* listed the newest are returned, twice as many with a filter.
GetXRs(c) == {List(c), <<>>} \cup WithoutAKind(c)
NewestXRs(call) ==
    [call EXCEPT !.out = Cut(IF call.filter = "all" THEN PageSize ELSE 2 * PageSize, @)]

TableOutcomes(call) ==
    CASE route = "claims" -> GetClaims(call.context)
      [] route = "compositeResources" -> GetXRs(call.context)
      [] route = "compositions" -> OrFailed(call.context)

----------------------------------------------------------------------------
(* Fetching.                                                                *)

\* The effect of the table: one call, for the page and the search it is on.
Fetch(c, t, f) ==
    /\ Ask(Call(c, t.page, f, t.search, FALSE))
    /\ table' = t
    /\ loading' = TRUE
    /\ UNCHANGED <<rows, total, error>>

\* Claims forgets which conditions it has seen, in the same round of effects.
Reset == fetched' = IF route = "claims" THEN {} ELSE fetched

\* The page the table is on stays, also for the list of another context.
SelectTableContext(c) ==
    /\ Fetch(c, table, filter)
    /\ Reset
    /\ stranded' = (stranded \/ table.page > 1)
    /\ UNCHANGED filter

\* Likewise, however few rows pass the filter.
PickTableFilter(f) ==
    /\ Fetch(context, table, f)
    /\ Reset
    /\ filter' = f
    /\ stranded' = (stranded \/ table.page > 1)

----------------------------------------------------------------------------
(* Answers.                                                                 *)

Show(items, count) == rows' = items /\ total' = count

\* (mutation of ShowMatches) The page is cut before the filter is applied.
ShowMatchesOfPage(call) ==
    LET matches == Found(PageOf(call.out, call.page), call.filter, call.search)
    IN Show(matches, Len(matches))

\* The page of the rows that pass the filter and the search.
ShowMatches(call) ==
    LET matches == Found(call.out, call.filter, call.search)
    IN Show(PageOf(matches, call.page), Len(matches))

\* An error makes Claims render without one of its hooks: React gives up on
\* the whole application.
ClaimsAnswer(call) ==
    IF call.out = Failed
    THEN Show(<<>>, 0) /\ error' = "crashed" /\ UNCHANGED fetched
    ELSE /\ ShowMatches(call) /\ UNCHANGED error
         /\ fetched' = fetched \cup {row.item : row \in Range(call.out)}

CompositeResourcesAnswer(call) == ShowMatches(NewestXRs(call)) /\ UNCHANGED <<error, fetched>>

\* Without a search the first page is fetched whatever page is asked for, and
\* the count is made up from the page that was asked for.
Estimate(call, counted) ==
    CASE counted /\ Len(call.out) > PageSize -> Len(call.out)
      [] ~counted /\ Len(call.out) > PageSize -> call.page * PageSize + 1
      [] Len(call.out) = PageSize -> call.page * PageSize + 1
      [] Len(call.out) < PageSize -> (call.page - 1) * PageSize + Len(call.out)

CompositionsAnswer(call) ==
    /\ CASE call.out = Failed -> Show(<<>>, None)
         [] call.out # Failed /\ call.search -> ShowMatches(call)
         [] OTHER -> \E counted \in BOOLEAN : Show(Cut(PageSize, call.out), Estimate(call, counted))
    /\ UNCHANGED <<error, fetched>>

TableAnswer(n) ==
    /\ CASE route = "claims" -> ClaimsAnswer(calls[n])
         [] route = "compositeResources" -> CompositeResourcesAnswer(calls[n])
         [] route = "compositions" -> CompositionsAnswer(calls[n])
    /\ loading' = FALSE
    /\ Take(n) /\ Drop(n)
    /\ stranded' = (stranded \/ ~Newest(n))
    /\ UNCHANGED <<query, filter, table, fromCache>>

----------------------------------------------------------------------------
(* Screens.                                                                 *)

\* The drop-down of a condition is there while some claim seen so far has it.
ClaimsOffered == fetched = {} \/ fetched \cap Conditioned # {}
ClaimsScreen == IF error = "crashed" THEN "nothing" ELSE "table"
CompositeResourcesScreen == "table"
CompositionsScreen == "table"
=============================================================================
