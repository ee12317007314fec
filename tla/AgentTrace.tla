------------------------------ MODULE AgentTrace ------------------------------
(* What the agent's panel shows (agent-trace.ts) of the events a browser has  *)
(* seen and of the overview it holds, in every state of ActivityFeed. The     *)
(* call of the feed is here the row of a tool call, and a reading says what   *)
(* each event of the feed is about. Texts, titles and durations are left out. *)
EXTENDS ActivityFeed, SequencesExt

CONSTANT
    Readings    \* Readings[n]: [of: what each event is, row: the tool call of the
                \*  overview, recovered, cycle, awaiting: the rest of the overview]

\* A turn or a tool that is not named is 0.
Nothing == 0

\* The services of the incident. A tool call recovers one of them, or none of them.
Services == {"cards", "web"}
ServiceHealthStatus == {"healthy", "degraded", "down", "recovering"}

ToolStatuses == {"pending", "running", "succeeded", "failed", "cancelled"}

-----------------------------------------------------------------------------
(* Tool calls.                                                               *)

\* toolStatusRank, 0 of a status it does not know.
ToolStatusRank(status) ==
    CASE status = "pending" -> 1
      [] status = "running" -> 2
      [] status \in {"succeeded", "failed", "cancelled"} -> 3
      [] OTHER -> 0

Unfinished(tool) == tool.status \in {"running", "pending"}

\* toolFromActivity: a payload without a status has the one its type ends in.
ToolOf(a) ==
    IF a.tool.status \in ToolStatuses THEN a.tool
    ELSE [a.tool EXCEPT !.status = CASE a.type = "tool-call.failed"    -> "failed"
                                     [] a.type = "tool-call.completed" -> "succeeded"
                                     [] OTHER -> "running"]

IsToolEvent(a) == a.type \in {"tool-call.started", "tool-call.completed", "tool-call.failed"}

\* Faulty variant: the last event in the array wins.
LastEventWins(existing, tool) == tool

\* Of two records of one call the one that is further along its life.
FurtherAlong(existing, tool) ==
    IF ToolStatusRank(tool.status) >= ToolStatusRank(existing.status) THEN tool ELSE existing

WithTool(tools, tool) ==
    IF \E n \in DOMAIN tools : tools[n].identifier = tool.identifier
    THEN [n \in DOMAIN tools |->
            IF tools[n].identifier = tool.identifier THEN FurtherAlong(tools[n], tool) ELSE tools[n]]
    ELSE Append(tools, tool)

\* What is left running when the incident is over is shown as done.
SettledTool(tool) == IF Unfinished(tool) THEN [tool EXCEPT !.status = "succeeded"] ELSE tool

Earlier(l, r) == l.at < r.at \/ (l.at = r.at /\ l.identifier < r.identifier)

\* The overview: the tool calls it lists and what it says of the run.
AgentSettled(view) ==
    view.recovered /\ ~view.cycle /\ ~\E n \in DOMAIN view.tools : view.tools[n].status = "running"

MergedToolCalls(view, events) ==
    LET merged == FoldLeft(LAMBDA tools, a : IF IsToolEvent(a) THEN WithTool(tools, ToolOf(a)) ELSE tools,
                           view.tools, events)
    IN  SortSeq([n \in DOMAIN merged |->
                   IF AgentSettled(view) THEN SettledTool(merged[n]) ELSE merged[n]], Earlier)

-----------------------------------------------------------------------------
(* Decided approvals: of each approval what the last event says.             *)

IsDecision(a) == a.type \in {"approval.decided", "approval.superseded", "approval.expired"}

ApprovalItem(a) == [kind |-> "approval", identifier |-> a.approval, at |-> a.at, decision |-> a.type]

DecidedApprovals(events) ==
    FoldLeft(LAMBDA known, a :
               IF ~IsDecision(a) THEN known
               ELSE Append(SelectSeq(known, LAMBDA k : k.identifier # a.approval), ApprovalItem(a)),
             <<>>, events)

-----------------------------------------------------------------------------
(* Turns of the model.                                                       *)

IsVerdict(a) == a.type \in {"agent.llm-rejected", "agent.llm-stale", "agent.llm-failed"}

\* payloadDisposition: a payload that names none has the one of its type.
PayloadDisposition(a) ==
    CASE a.disposition # "" -> a.disposition
      [] a.disposition = "" /\ a.type = "agent.llm-rejected" -> "rejected"
      [] a.disposition = "" /\ a.type = "agent.llm-stale"    -> "stale"
      [] a.disposition = "" /\ a.type = "agent.llm-failed"   -> "incomplete"
      [] a.disposition = "" /\ a.type = "agent.llm-decision" -> "accepted"
      [] OTHER -> ""

DraftFor(drafts, id, a) ==
    IF \E n \in DOMAIN drafts : drafts[n].identifier = id THEN drafts
    ELSE Append(drafts, [identifier |-> id, status |-> "streaming", disposition |-> "", at |-> a.at])

ApplyPublicTurn(draft, a) ==
    [draft EXCEPT !.status = "complete",
                  !.disposition = IF PayloadDisposition(a) # "" THEN PayloadDisposition(a) ELSE @]

ApplyTo(drafts, id, a) ==
    [n \in DOMAIN drafts |->
       IF drafts[n].identifier = id THEN ApplyPublicTurn(drafts[n], a) ELSE drafts[n]]

Discarded == {"rejected", "stale", "incomplete"}

\* The turn a verdict that names none is about, of drafts that are not empty.
LatestOpenDraft(drafts) ==
    LET open == {n \in DOMAIN drafts : drafts[n].disposition \notin Discarded}
    IN  drafts[IF open = {} THEN Len(drafts) ELSE Max(open)].identifier

Named(drafts, id, a) == ApplyTo(DraftFor(drafts, id, a), id, a)

ReasoningDrafts(events) ==
    FoldLeft(LAMBDA drafts, a :
        CASE a.type = "agent.llm-output" /\ a.turn # Nothing   -> DraftFor(drafts, a.turn, a)
          [] a.type = "agent.llm-decision" ->
               Named(drafts, IF a.turn # Nothing THEN a.turn ELSE a.identifier, a)
          [] IsVerdict(a) /\ a.turn # Nothing                  -> Named(drafts, a.turn, a)
          [] IsVerdict(a) /\ a.turn = Nothing /\ drafts # <<>> ->
               ApplyTo(drafts, LatestOpenDraft(drafts), a)
          [] OTHER -> drafts,
        <<>>, events)

\* A turn that was only proposed is shown as if it were still written.
ToThinkingItem(draft) ==
    [kind |-> "thinking", identifier |-> draft.identifier, at |-> draft.at,
     disposition |-> draft.disposition,
     status |-> IF draft.status = "streaming" \/ draft.disposition = "pending"
                THEN "streaming" ELSE "complete"]

\* The answer to a turn decides whether there may be another one.
Deciding(a) ==
    \/ a.type = "agent.llm-decision" /\ PayloadDisposition(a) = "pending"
    \/ a.type \in {"agent.llm-output", "agent.llm-rejected", "agent.llm-stale"}

AgentStillDeciding(events) ==
    LET telling == SelectSeq(events, LAMBDA a : a.type \in
                       {"agent.cycle-finished", "agent.limit-reached", "agent.llm-failed",
                        "agent.llm-decision", "agent.llm-output", "agent.llm-rejected",
                        "agent.llm-stale"})
    IN  telling # <<>> /\ Deciding(Last(telling))

-----------------------------------------------------------------------------
(* The panel.                                                                *)

CurrentWork(view, events) ==
    LET tools == MergedToolCalls(view, events)
    IN  CASE AgentSettled(view) -> "settled"
          [] ~AgentSettled(view) /\ \E n \in DOMAIN tools : Unfinished(tools[n]) -> "tool"
          [] OTHER -> IF view.awaiting THEN "approval"
                      ELSE IF view.cycle \/ AgentStillDeciding(events) THEN "thinking" ELSE "idle"

ToolItem(tool) ==
    [kind |-> "tool", identifier |-> tool.identifier, at |-> tool.at, status |-> tool.status,
     recovers |-> tool.recovers]

KindOrder(item) ==
    CASE item.kind = "thinking" -> 0
      [] item.kind = "approval" -> 2
      [] OTHER -> 1

\* The order of the panel: the time, the kind and the identifier.
Above(l, r) ==
    \/ l.at < r.at
    \/ l.at = r.at /\ KindOrder(l) < KindOrder(r)
    \/ l.at = r.at /\ KindOrder(l) = KindOrder(r) /\ l.identifier < r.identifier

IsDiscardedTurn(item) ==
    item.kind = "thinking" /\ item.status # "streaming" /\ item.disposition \in {"stale", "rejected"}

\* A turn joins the row of the discarded turns right before it.
Collapse(rows, item) ==
    IF /\ rows # <<>> /\ IsDiscardedTurn(item)
       /\ Last(rows).kind = "discarded" \/ IsDiscardedTurn(Last(rows))
    THEN LET row == Last(rows)
             run == IF row.kind = "discarded" THEN row.items ELSE <<row>>
         IN  Append(Front(rows), [kind |-> "discarded", identifier |-> Head(run).identifier,
                                  at |-> Head(run).at, items |-> Append(run, item)])
    ELSE Append(rows, item)

CollapseDiscarded(items) == FoldLeft(Collapse, <<>>, items)

LiveReasoning == [kind |-> "thinking", identifier |-> Nothing, at |-> Nothing,
                  disposition |-> "", status |-> "streaming"]

\* The incident is over: what the agent did is left, what it thought is not.
SettledTranscript(items) == SelectSeq(items, LAMBDA item : item.kind \in {"tool", "approval"})

BuildTranscript(view, events) ==
    LET tools    == MergedToolCalls(view, events)
        drafts   == ReasoningDrafts(events)
        thoughts == [n \in DOMAIN drafts |-> ToThinkingItem(drafts[n])]
        items    == SortSeq([n \in DOMAIN tools |-> ToolItem(tools[n])]
                              \o DecidedApprovals(events) \o thoughts, Above)
        live     == /\ CurrentWork(view, events) = "thinking"
                    /\ ~\E n \in DOMAIN thoughts : thoughts[n].status = "streaming"
        all      == IF live THEN Append(items, LiveReasoning) ELSE items
    IN  IF AgentSettled(view) THEN SettledTranscript(all) ELSE CollapseDiscarded(all)

\* recoveryTimeline: how the recovery of a service is shown, given its status and the
\* calls that execute or verify its recovery.
RecoveryPhase(service, status, tools) ==
    LET related == SelectSeq(tools, LAMBDA tool : tool.recovers = service)
    IN  CASE status = "healthy" -> "recovered"
          [] status # "healthy" /\ (\/ status = "recovering"
                                    \/ \E n \in DOMAIN related : Unfinished(related[n]))
               -> "recovering"
          [] OTHER -> "offline"

-----------------------------------------------------------------------------
(* The panel of a browser of the feed.                                       *)

\* compactActivity: the drafts of a turn are dropped when its answer is known.
Compacted(events) ==
    SelectSeq(events, LAMBDA a :
        \/ a.type # "agent.llm-output"
        \/ ~\E n \in DOMAIN events :
              /\ events[n].type = "agent.llm-decision" \/ IsVerdict(events[n])
              /\ events[n].turn = a.turn)

\* uniqueActivity: each event once, in the order of the sequences.
UniqueActivity ==
    [n \in 1..Cardinality(browser.seen) |->
       CHOOSE e \in browser.seen : Cardinality({d \in browser.seen : number[d] <= number[e]}) = n]

View(reading, row) ==
    [recovered |-> reading.recovered, cycle |-> reading.cycle, awaiting |-> reading.awaiting,
     tools |-> IF row = "none" THEN <<>>
               ELSE <<[reading.row EXCEPT !.status = IF row = "live" THEN "running" ELSE "succeeded"]>>]

Orders == UNION {{o \in [1..n -> Events] : IsInjective(o)} : n \in 0..Cardinality(Events)}

\* The overview's own events may hold drafts that the list of the browser has
\* dropped: the panel with and without them.
Panel(reading, order, row, compact) ==
    LET all    == [m \in DOMAIN order |-> reading.of[order[m]]]
        events == IF compact THEN Compacted(all) ELSE all
        view   == View(reading, row)
    IN  [events |-> all, settled |-> AgentSettled(view), work |-> CurrentWork(view, events),
         transcript |-> BuildTranscript(view, events),
         phase |-> [service \in Services |-> [status \in ServiceHealthStatus |->
                      RecoveryPhase(service, status, MergedToolCalls(view, events))]]]

Flat(transcript) ==
    FlattenSeq([n \in DOMAIN transcript |->
       IF transcript[n].kind = "discarded" THEN transcript[n].items ELSE <<transcript[n]>>])

\* What a finished tool call or an answered turn must not be shown as.
InProgressShown(panel, kind, id) ==
    \E n \in DOMAIN Flat(panel.transcript) :
        LET item == Flat(panel.transcript)[n]
        IN  /\ item.kind = kind /\ item.identifier = id
            /\ item.status \in {"running", "pending", "streaming"}

Ended(a) == IsToolEvent(a) /\ ToolOf(a).status \in {"succeeded", "failed", "cancelled"}
Answered(a) == IsVerdict(a) \/ (a.type = "agent.llm-decision" /\ PayloadDisposition(a) # "pending")

PanelHolds(panel) ==
    LET items == Flat(panel.transcript)
        name(m) == <<items[m].kind, items[m].identifier>>
        shown == {name(m) : m \in DOMAIN items}
    IN  /\ \A m, n \in DOMAIN items : name(m) = name(n) => m = n
        /\ \A n \in DOMAIN panel.events :
             LET a == panel.events[n]
             IN  /\ Ended(a) => ~InProgressShown(panel, "tool", a.tool.identifier)
                 /\ IsToolEvent(a) => <<"tool", a.tool.identifier>> \in shown
                 /\ IsDecision(a) => <<"approval", a.approval>> \in shown
                 /\ Answered(a) /\ a.turn # Nothing =>
                      /\ ~InProgressShown(panel, "thinking", a.turn)
                      /\ ~panel.settled => <<"thinking", a.turn>> \in shown
        /\ \A service \in Services, status \in ServiceHealthStatus :
             LET phase   == panel.phase[service][status]
                 working == \E n \in DOMAIN items : items[n].kind = "tool"
                              /\ Unfinished(items[n]) /\ items[n].recovers = service
             IN  /\ phase = "recovering" => status = "recovering" \/ working
                 /\ phase = "offline" => status \in {"down", "degraded"} /\ ~working
        /\ panel.work = "tool" <=>
             \E n \in DOMAIN items : items[n].kind = "tool" /\ Unfinished(items[n])

\* Of every order of the events and row of the call, whether their panels hold.
Judged ==
    {<<order, row, \A n \in DOMAIN Readings, compact \in BOOLEAN :
                     PanelHolds(Panel(Readings[n], order, row, compact))>>
       : order \in Orders, row \in {"none", "live", "ended"}}

\* In whatever order the events of a run were numbered, delivered and lost and
\* however old the overview is, nothing whose end the browser has seen is shown as
\* going on: no call on the card (active-call.ts:118), no tool call in the panel (the
\* comment at agent-trace.ts:335), no answered turn. Every call, turn and decision is
\* shown once, also among the rows that were folded. A service that is not recovering
\* by its own status is shown in recovery only while the panel shows a call that
\* recovers that very service at work, and none with such a call is shown offline.
TraceFollowsEvents ==
    /\ Completed \in browser.seen => Card = "ended"
    /\ <<UniqueActivity, browser.call, TRUE>> \in Judged
=============================================================================
