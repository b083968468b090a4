----------------------------- MODULE QueryScope -----------------------------
(***************************************************************************)
(* The scope and the cancel token a query runs under: _eval_scoped,        *)
(* _scoped_iterator and _traced_eval of pushdown/hook.py, query_scope.py,  *)
(* cancel_scope of cancel.py, and _trace_generator of pushdown/tracing.py. *)
(*                                                                         *)
(* Each thread has its own context: the current scope, cancel token and    *)
(* trace.  A query is planned in one call and its rows are pulled one at a *)
(* time, by any thread, between and inside the steps of other queries.     *)
(* The calls a thread is inside are its stack of frames; a frame holds     *)
(* what each context variable is reset to when its call returns (the Token *)
(* its set() answered), or Kept where it set nothing.  A scope and a trace *)
(* are named by the query that opened them.                                *)
(***************************************************************************)
EXTENDS Naturals, Sequences

CONSTANTS
  Threads, Queries, Tokens,
  None,      \* no scope, no token, no trace
  Kept,      \* a frame did not set the variable
  Tracings,  \* the values settings.trace_enabled() may have
  MaxDepth   \* bound: the calls a thread is inside

ASSUME NamesAssumption ==
  /\ None \notin Queries \cup Tokens
  /\ Kept \notin Queries \cup Tokens \cup {None}
  /\ Tracings \subseteq BOOLEAN
  /\ MaxDepth \in Nat

VARIABLES
  traced,       \* settings.trace_enabled()
  current,      \* query_scope._CURRENT, per thread
  cancel,       \* CANCEL_TOKEN, per thread
  trace,        \* tracing._TRACE, per thread
  stack,        \* the calls each thread is inside
  status,       \* where each query is
  scoped,       \* whether the query opened a scope of its own
  token,        \* QueryScope.cancel of that scope
  begun,        \* whether the query's rows were ever pulled
  tracedIn,     \* the thread a query opened a trace of its own in, or None
  learned,      \* whether the query's scope holds term state
  startedUnder  \* history: the token current when the query started

context == <<current, cancel, trace, stack>>
query == <<status, scoped, token, begun, tracedIn, learned, startedUnder>>
vars == <<traced, context, query>>

Init ==
  /\ traced \in Tracings
  /\ current = [t \in Threads |-> None]
  /\ cancel = [t \in Threads |-> None]
  /\ trace = [t \in Threads |-> None]
  /\ stack = [t \in Threads |-> <<>>]
  /\ status = [q \in Queries |-> "new"]
  /\ scoped = [q \in Queries |-> FALSE]
  /\ token = [q \in Queries |-> None]
  /\ begun = [q \in Queries |-> FALSE]
  /\ tracedIn = [q \in Queries |-> None]
  /\ learned = [q \in Queries |-> FALSE]
  /\ startedUnder = [q \in Queries |-> None]

Idle(t) == stack[t] = <<>>
Top(t) == stack[t][Len(stack[t])]
Inside(t, kind) == ~Idle(t) /\ Top(t).kind = kind

(* Where a caller's code may run: outside every call, in a block, and in   *)
(* the functions a query's expressions call as it is planned or stepped.   *)
CallerRuns(t) ==
  /\ Len(stack[t]) < MaxDepth
  /\ Idle(t) \/ Inside(t, "block") \/ Inside(t, "plan") \/ Inside(t, "step")

Push(t, kind, q, scopeWas, tokenWas, traceWas) ==
  stack' = [stack EXCEPT ![t] = Append(@,
    [kind |-> kind, query |-> q, scope |-> scopeWas, token |-> tokenWas, trace |-> traceWas])]

Reset(now, was) == IF was = Kept THEN now ELSE was

(* Mutant: only a block restores the token.                               *)
LeaveKeepingToken(t) ==
  /\ stack' = [stack EXCEPT ![t] = SubSeq(@, 1, Len(@) - 1)]
  /\ current' = [current EXCEPT ![t] = Reset(@, Top(t).scope)]
  /\ cancel' = [cancel EXCEPT ![t] = IF Top(t).kind = "block" THEN Top(t).token ELSE @]
(* Mutant: the planning call leaves its scope current.                    *)
LeaveKeepingScope(t) ==
  /\ stack' = [stack EXCEPT ![t] = SubSeq(@, 1, Len(@) - 1)]
  /\ current' = [current EXCEPT ![t] = IF Top(t).kind = "plan" THEN @ ELSE Reset(@, Top(t).scope)]
  /\ cancel' = [cancel EXCEPT ![t] = Reset(@, Top(t).token)]

(* The thread's innermost call returns or raises.                          *)
Leave(t) ==
  /\ stack' = [stack EXCEPT ![t] = SubSeq(@, 1, Len(@) - 1)]
  /\ current' = [current EXCEPT ![t] = Reset(@, Top(t).scope)]
  /\ cancel' = [cancel EXCEPT ![t] = Reset(@, Top(t).token)]

(* Mutant: a step leaves its trace set.                                   *)
LeaveTraceSet(t) == UNCHANGED trace

LeaveTrace(t) == trace' = [trace EXCEPT ![t] = Reset(@, Top(t).trace)]

-----------------------------------------------------------------------------
(* with cancel_scope(c): ...                                               *)

EnterBlock(t, c) ==
  /\ CallerRuns(t)
  /\ Push(t, "block", None, Kept, cancel[t], Kept)
  /\ cancel' = [cancel EXCEPT ![t] = c]
  /\ UNCHANGED <<current, trace, query>>

ExitBlock(t) ==
  /\ Inside(t, "block")
  /\ Leave(t)
  /\ LeaveTrace(t)
  /\ UNCHANGED query

-----------------------------------------------------------------------------
(* Planning: _eval_scoped opens a scope where none is current; a handler   *)
(* then answers under the trace current, or opens one.                     *)

OpensScope(t) == current[t] = None
OpensTrace(t) == traced /\ trace[t] = None

StartQuery(t, q) ==
  /\ CallerRuns(t)
  /\ status[q] = "new"
  /\ status' = [status EXCEPT ![q] = "planning"]
  /\ startedUnder' = [startedUnder EXCEPT ![q] = cancel[t]]
  /\ scoped' = [scoped EXCEPT ![q] = OpensScope(t)]
  /\ token' = [token EXCEPT ![q] = IF OpensScope(t) THEN cancel[t] ELSE None]
  /\ current' = [current EXCEPT ![t] = IF OpensScope(t) THEN q ELSE @]
  /\ Push(t, "plan", q, IF OpensScope(t) THEN current[t] ELSE Kept, Kept, Kept)
  /\ trace' = [trace EXCEPT ![t] = IF OpensTrace(t) THEN q ELSE @]
  /\ tracedIn' = [tracedIn EXCEPT ![q] = IF OpensTrace(t) THEN t ELSE None]
  /\ UNCHANGED <<cancel, begun, learned>>

Planned(t, end) ==
  /\ Inside(t, "plan")
  /\ status' = [status EXCEPT ![Top(t).query] = end]
  /\ Leave(t)
  /\ UNCHANGED <<scoped, token, begun, tracedIn, startedUnder>>

(* A lazy result: its trace stays the thread's until its first row.        *)
PlanLazy(t) == Planned(t, "lazy") /\ UNCHANGED <<trace, learned>>

(* A query answered at once (ASK) or a failure ends the trace it opened;   *)
(* only the former clears the scope.                                       *)
PlanTraceEnds(t) ==
  trace' = IF tracedIn[Top(t).query] = t THEN [trace EXCEPT ![t] = None] ELSE trace

(* Mutant: the end of a query forgets to clear its scope.                 *)
ClearedNever(q) == learned

Cleared(q) == IF scoped[q] THEN [learned EXCEPT ![q] = FALSE] ELSE learned

PlanAnswers(t) ==
  /\ Planned(t, "ended")
  /\ PlanTraceEnds(t)
  /\ learned' = Cleared(Top(t).query)

PlanFails(t) == Planned(t, "failed") /\ PlanTraceEnds(t) /\ UNCHANGED learned

-----------------------------------------------------------------------------
(* The rows: each step of a scoped result runs in its scope, under its     *)
(* token, set when the current one is another, and under its own trace.    *)

OwnTrace(q) == tracedIn[q] # None

(* Mutant: a step runs under the token of whoever pulls it.               *)
StepTokenOfPuller(t, q) == cancel[t]

StepToken(t, q) == IF scoped[q] THEN token[q] ELSE cancel[t]

Enter(t, kind, q, traceWas) ==
  /\ Push(t, kind, q,
          IF scoped[q] THEN current[t] ELSE Kept,
          IF StepToken(t, q) # cancel[t] THEN cancel[t] ELSE Kept,
          IF OwnTrace(q) THEN traceWas ELSE Kept)
  /\ current' = [current EXCEPT ![t] = IF scoped[q] THEN q ELSE @]
  /\ cancel' = [cancel EXCEPT ![t] = StepToken(t, q)]
  /\ trace' = [trace EXCEPT ![t] = IF OwnTrace(q) THEN q ELSE @]

(* The first step resets the trace the planning left set: a Token of       *)
(* another context raises ValueError, which ends the query.                *)
TraceResets(t, q) == OwnTrace(q) /\ ~begun[q] => tracedIn[q] = t

Pull(t, q) ==
  /\ CallerRuns(t)
  /\ status[q] = "lazy"
  /\ TraceResets(t, q)
  /\ status' = [status EXCEPT ![q] = "stepping"]
  /\ begun' = [begun EXCEPT ![q] = TRUE]
  /\ Enter(t, "step", q, IF begun[q] THEN trace[t] ELSE None)
  /\ UNCHANGED <<scoped, token, tracedIn, learned, startedUnder>>

PullElsewhere(t, q) ==
  /\ CallerRuns(t)
  /\ status[q] = "lazy"
  /\ ~TraceResets(t, q)
  /\ status' = [status EXCEPT ![q] = "ended"]
  /\ begun' = [begun EXCEPT ![q] = TRUE]
  /\ learned' = Cleared(q)
  /\ UNCHANGED <<context, scoped, token, tracedIn, startedUnder>>

StepYields(t) ==
  /\ Inside(t, "step")
  /\ status' = [status EXCEPT ![Top(t).query] = "lazy"]
  /\ Leave(t)
  /\ LeaveTrace(t)
  /\ UNCHANGED <<scoped, token, begun, tracedIn, learned, startedUnder>>

(* No row is left, or the step raises.                                     *)
StepEnds(t) ==
  /\ Inside(t, "step")
  /\ status' = [status EXCEPT ![Top(t).query] = "ended"]
  /\ learned' = Cleared(Top(t).query)
  /\ Leave(t)
  /\ LeaveTrace(t)
  /\ UNCHANGED <<scoped, token, begun, tracedIn, startedUnder>>

(* close(), by the consumer or the collector, in the middle of anything.   *)
BeginClose(t, q) ==
  /\ CallerRuns(t)
  /\ status[q] = "lazy"
  /\ begun[q]
  /\ status' = [status EXCEPT ![q] = "closing"]
  /\ Enter(t, "close", q, trace[t])
  /\ UNCHANGED <<scoped, token, begun, tracedIn, learned, startedUnder>>

EndClose(t) ==
  /\ Inside(t, "close")
  /\ status' = [status EXCEPT ![Top(t).query] = "ended"]
  /\ learned' = Cleared(Top(t).query)
  /\ Leave(t)
  /\ LeaveTrace(t)
  /\ UNCHANGED <<scoped, token, begun, tracedIn, startedUnder>>

(* Closing a generator that never ran runs none of it.                     *)
CloseUnread(t, q) ==
  /\ CallerRuns(t)
  /\ status[q] = "lazy"
  /\ ~begun[q]
  /\ status' = [status EXCEPT ![q] = "dropped"]
  /\ UNCHANGED <<context, scoped, token, begun, tracedIn, learned, startedUnder>>

(* Evaluation keeps what it learns of terms in the current scope           *)
(* (terms_for); outside every query it keeps nothing.                      *)
Learn(t) ==
  /\ Inside(t, "plan") \/ Inside(t, "step") \/ Inside(t, "close")
  /\ current[t] # None
  /\ learned' = [learned EXCEPT ![current[t]] = TRUE]
  /\ UNCHANGED <<context, status, scoped, token, begun, tracedIn, startedUnder>>

Next ==
  /\ UNCHANGED traced
  /\ \E t \in Threads :
       \/ \E c \in Tokens : EnterBlock(t, c)
       \/ ExitBlock(t)
       \/ \E q \in Queries :
            \/ StartQuery(t, q)
            \/ Pull(t, q) \/ PullElsewhere(t, q)
            \/ BeginClose(t, q) \/ CloseUnread(t, q)
       \/ PlanLazy(t) \/ PlanAnswers(t) \/ PlanFails(t)
       \/ StepYields(t) \/ StepEnds(t) \/ EndClose(t)
       \/ Learn(t)

Spec == Init /\ [][Next]_vars

-----------------------------------------------------------------------------

(* The code of a query that opened a scope - its planning, each step of    *)
(* its rows, its close - runs in that scope and under the token the query  *)
(* started with, wherever it is pulled from and whatever blocks and        *)
(* queries came and went inside it (hook.py, _eval_scoped).                *)
RunsUnderItsOwn ==
  \A t \in Threads :
    ~Idle(t) /\ Top(t).kind # "block" /\ scoped[Top(t).query] =>
      /\ current[t] = Top(t).query
      /\ cancel[t] = startedUnder[Top(t).query]

(* Between calls a thread has no scope and no token: nothing a query set   *)
(* is left for the next one to start under.                                *)
NothingLeaks ==
  \A t \in Threads : Idle(t) => current[t] = None /\ cancel[t] = None

(* The term state of a scope, which no lock guards, is never current in    *)
(* two threads, though the rows of one query may be pulled by both.        *)
ScopeInOneThread ==
  \A t, u \in Threads : t # u /\ current[t] # None => current[t] # current[u]

(* A query that ran to its end, or was closed, leaves nothing learned, and *)
(* its scope is current nowhere.                                           *)
ClearedAtEnd ==
  \A q \in Queries : status[q] = "ended" =>
    /\ scoped[q] => ~learned[q]
    /\ \A t \in Threads : current[t] # q

(* A query that opened a trace of its own is never traced as another: its  *)
(* planning, steps and close run under that trace wherever they are pulled *)
(* and though other traces are left in the thread, or under none, once the *)
(* first row of another query, pulled inside, has reset the thread's       *)
(* (hook.py, _traced_eval; tracing.py, _trace_generator).                  *)
TracedAsItself ==
  \A t \in Threads :
    ~Idle(t) /\ Top(t).kind # "block" /\ OwnTrace(Top(t).query) =>
      trace[t] \in {None, Top(t).query}
=============================================================================
