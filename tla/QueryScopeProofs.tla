-------------------------- MODULE QueryScopeProofs --------------------------
(***************************************************************************)
(* Proofs about QueryScope, for every number of threads, queries and       *)
(* tokens and every depth of nesting: a query's code runs in its scope     *)
(* under its token, nothing leaks between calls, a scope is current in one *)
(* thread only, and a query that ended left nothing behind.                *)
(*                                                                         *)
(* The argument: what each frame restores and what is current now give the *)
(* scope and the token that were current at every depth of the stack       *)
(* (Nested); at the bottom there is none, and wherever a scope is current  *)
(* its query has a call at that depth or below.  A query has at most one   *)
(* call in all threads, since a call begins only where its status is at    *)
(* rest and ends by putting it to rest again (CallsOK, OneCallEach).       *)
(***************************************************************************)
EXTENDS QueryScope, SequenceTheorems, TLAPS

Scopes == Queries \cup {None}
Cancels == Tokens \cup {None}
Kinds == {"block", "plan", "step", "close"}
Statuses == {"new", "planning", "lazy", "stepping", "closing", "ended", "failed", "dropped"}

Frames ==
  [kind : Kinds, query : Scopes, scope : Scopes \cup {Kept}, token : Cancels \cup {Kept},
   trace : Scopes \cup {Kept}]

TypeOK ==
  /\ current \in [Threads -> Scopes]
  /\ cancel \in [Threads -> Cancels]
  /\ trace \in [Threads -> Scopes]
  /\ stack \in [Threads -> Seq(Frames)]
  /\ status \in [Queries -> Statuses]
  /\ scoped \in [Queries -> BOOLEAN]
  /\ token \in [Queries -> Cancels]
  /\ begun \in [Queries -> BOOLEAN]
  /\ tracedIn \in [Queries -> Threads \cup {None}]
  /\ learned \in [Queries -> BOOLEAN]
  /\ startedUnder \in [Queries -> Cancels]

Depth(t) == Len(stack[t])

(* The status of a query one of whose calls is a frame of each kind.       *)
Busy == [plan |-> "planning", step |-> "stepping", close |-> "closing"]

CallsOK ==
  \A t \in Threads : \A n \in 1..Depth(t) :
    LET f == stack[t][n]
    IN  IF f.kind = "block" THEN f.query = None
        ELSE f.query \in Queries /\ status[f.query] = Busy[f.kind]

OneCallEach ==
  \A t, u \in Threads : \A n \in 1..Depth(t), k \in 1..Depth(u) :
    stack[t][n].query = stack[u][k].query /\ stack[t][n].query # None => t = u /\ n = k

(* scopes[n] and cancels[n]: what was current under the frames above n.    *)
Below(t, n, scopes, cancels) ==
  LET f == stack[t][n]
  IN  /\ scopes[n - 1] = Reset(scopes[n], f.scope)
      /\ cancels[n - 1] = Reset(cancels[n], f.token)
      /\ scopes[n] # None => \E k \in 1..n : stack[t][k].query = scopes[n]
      /\ f.kind # "block" /\ scoped[f.query] =>
           scopes[n] = f.query /\ cancels[n] = startedUnder[f.query]

NestedAs(t, scopes, cancels) ==
  /\ scopes[0] = None /\ cancels[0] = None
  /\ scopes[Depth(t)] = current[t] /\ cancels[Depth(t)] = cancel[t]
  /\ \A n \in 1..Depth(t) : Below(t, n, scopes, cancels)

Nested(t) ==
  \E scopes \in [0..Depth(t) -> Scopes], cancels \in [0..Depth(t) -> Cancels] :
    NestedAs(t, scopes, cancels)

TokensOK == \A q \in Queries : scoped[q] => token[q] = startedUnder[q]

EndedOK == \A q \in Queries : status[q] = "ended" /\ scoped[q] => ~learned[q]

IInv ==
  /\ TypeOK
  /\ CallsOK
  /\ OneCallEach
  /\ \A t \in Threads : Nested(t)
  /\ TokensOK
  /\ EndedOK

-----------------------------------------------------------------------------
(* A frame pushed on a thread's stack, and its last one popped.            *)

LEMMA DepthsAreNaturals ==
  ASSUME TypeOK, NEW t \in Threads
  PROVE  /\ stack[t] \in Seq(Frames)
         /\ Depth(t) \in Nat
         /\ \A n \in 1..Depth(t) : stack[t][n] \in Frames
         /\ Idle(t) <=> Depth(t) = 0
  <1>1. stack[t] \in Seq(Frames)
    BY DEF TypeOK
  <1> QED
    BY <1>1, LenProperties, ElementOfSeq, EmptySeq DEF Depth, Idle

LEMMA PushedFrames ==
  ASSUME TypeOK, NEW t \in Threads, NEW f \in Frames,
         stack' = [stack EXCEPT ![t] = Append(@, f)]
  PROVE  /\ stack' \in [Threads -> Seq(Frames)]
         /\ \A u \in Threads : u # t => stack'[u] = stack[u]
         /\ Len(stack'[t]) = Depth(t) + 1
         /\ \A n \in 1..Depth(t) : stack'[t][n] = stack[t][n]
         /\ stack'[t][Depth(t) + 1] = f
  <1>1. stack'[t] = Append(stack[t], f) /\ \A u \in Threads : u # t => stack'[u] = stack[u]
    BY DEF TypeOK
  <1>2. /\ Append(stack[t], f) \in Seq(Frames)
        /\ Len(Append(stack[t], f)) = Depth(t) + 1
        /\ \A n \in 1..Depth(t) : Append(stack[t], f)[n] = stack[t][n]
        /\ Append(stack[t], f)[Depth(t) + 1] = f
    BY DepthsAreNaturals, AppendProperties DEF Depth
  <1>3. stack' \in [Threads -> Seq(Frames)]
    BY <1>2 DEF TypeOK
  <1> QED
    BY <1>1, <1>2, <1>3

LEMMA PoppedFrames ==
  ASSUME TypeOK, NEW t \in Threads, ~Idle(t),
         stack' = [stack EXCEPT ![t] = SubSeq(@, 1, Len(@) - 1)]
  PROVE  /\ stack' \in [Threads -> Seq(Frames)]
         /\ \A u \in Threads : u # t => stack'[u] = stack[u]
         /\ Len(stack'[t]) = Depth(t) - 1
         /\ \A n \in 1..Depth(t) - 1 : stack'[t][n] = stack[t][n]
         /\ Depth(t) \in Nat \ {0}
         /\ Top(t) = stack[t][Depth(t)]
         /\ Top(t) \in Frames
  <1> DEFINE m == Depth(t) - 1
             rest == SubSeq(stack[t], 1, m)
  <1>1. stack'[t] = rest /\ \A u \in Threads : u # t => stack'[u] = stack[u]
    BY DEF TypeOK, Depth
  <1>2. m \in Nat /\ Depth(t) \in Nat \ {0} /\ \A i \in 1..m : stack[t][i] \in Frames
    BY DepthsAreNaturals
  <1> HIDE DEF m
  <1>3. /\ rest \in Seq(Frames)
        /\ Len(rest) = IF 1 <= m THEN m - 1 + 1 ELSE 0
        /\ \A i \in 1..m - 1 + 1 : rest[i] = stack[t][1 + i - 1]
    BY <1>2, SubSeqProperties
  <1>4. Len(rest) = m /\ \A i \in 1..m : rest[i] = stack[t][i]
    <2>1. ASSUME NEW i \in 1..m
          PROVE  rest[i] = stack[t][i]
      <3>1. i \in 1..m - 1 + 1 /\ 1 + i - 1 = i
        BY <1>2
      <3> QED
        BY <1>3, <3>1
    <2> QED
      BY <1>2, <1>3, <2>1
  <1>5. stack' \in [Threads -> Seq(Frames)]
    BY <1>3 DEF TypeOK, m, Depth
  <1>6. Top(t) = stack[t][Depth(t)] /\ Top(t) \in Frames
    BY <1>2, DepthsAreNaturals DEF Top, Depth
  <1> QED
    BY <1>1, <1>2, <1>4, <1>5, <1>6 DEF m

(* Outside a call of its own, a query is at rest.                          *)
AtRest(q) == status[q] \notin {"planning", "stepping", "closing"}

LEMMA FramesBusy ==
  ASSUME CallsOK, NEW t \in Threads, NEW n \in 1..Depth(t), TypeOK,
         stack[t][n].query # None
  PROVE  /\ stack[t][n].kind \in {"plan", "step", "close"}
         /\ stack[t][n].query \in Queries
         /\ ~AtRest(stack[t][n].query)
  <1>1. stack[t][n] \in Frames
    BY DepthsAreNaturals
  <1>2. stack[t][n].kind \in {"plan", "step", "close"}
    BY <1>1 DEF CallsOK, Frames, Kinds
  <1> QED
    BY <1>2 DEF CallsOK, Busy, AtRest

(* What is current somewhere is a scope of a query with a call there.      *)
LEMMA CurrentHasACall ==
  ASSUME IInv, NEW t \in Threads, current[t] # None
  PROVE  \E k \in 1..Depth(t) : stack[t][k].query = current[t]
  <1>1. PICK scopes \in [0..Depth(t) -> Scopes], cancels \in [0..Depth(t) -> Cancels] :
          NestedAs(t, scopes, cancels)
    BY DEF IInv, Nested
  <1>2. Depth(t) \in Nat
    BY DepthsAreNaturals DEF IInv
  <1>3. Depth(t) # 0
    BY <1>1 DEF NestedAs
  <1> QED
    BY <1>1, <1>2, <1>3 DEF NestedAs, Below

LEMMA CurrentIsBusy ==
  ASSUME IInv, NEW t \in Threads, current[t] # None
  PROVE  current[t] \in Queries /\ ~AtRest(current[t])
  <1>1. PICK k \in 1..Depth(t) : stack[t][k].query = current[t]
    BY CurrentHasACall
  <1> QED
    BY <1>1, FramesBusy DEF IInv

-----------------------------------------------------------------------------
(* What every kind of step keeps of the stacks.                            *)

(* A thread whose frames, scope and token a step leaves alone, and whose   *)
(* frames' queries it neither starts nor opens a scope for.                *)
LEMMA OthersNested ==
  ASSUME IInv, NEW u \in Threads,
         stack'[u] = stack[u], current'[u] = current[u], cancel'[u] = cancel[u],
         \A n \in 1..Depth(u) : LET q == stack[u][n].query
                                IN  q # None => scoped'[q] = scoped[q] /\ startedUnder'[q] = startedUnder[q]
  PROVE  Nested(u)'
  <1>1. PICK scopes \in [0..Depth(u) -> Scopes], cancels \in [0..Depth(u) -> Cancels] :
          NestedAs(u, scopes, cancels)
    BY DEF IInv, Nested
  <1>2. Depth(u)' = Depth(u)
    BY DEF Depth
  <1>3. ASSUME NEW n \in 1..Depth(u)
        PROVE  Below(u, n, scopes, cancels)'
    <2>1. Below(u, n, scopes, cancels)
      BY <1>1 DEF NestedAs
    <2>2. stack[u][n].kind # "block" => stack[u][n].query \in Queries
      BY DEF IInv, CallsOK
    <2>3. None \notin Queries
      BY NamesAssumption
    <2> QED
      BY <2>1, <2>2, <2>3 DEF Below
  <1>4. NestedAs(u, scopes, cancels)'
    BY <1>1, <1>2, <1>3 DEF NestedAs
  <1> QED
    BY <1>2, <1>4 DEF Nested

LEMMA RestKeeps ==
  ASSUME IInv, UNCHANGED <<stack, current, cancel, scoped, startedUnder>>,
         \A q \in Queries : ~AtRest(q) => status'[q] = status[q]
  PROVE  CallsOK' /\ OneCallEach' /\ \A u \in Threads : Nested(u)'
  <1>1. \A u \in Threads : Nested(u)'
    BY OthersNested
  <1>2. \A u \in Threads : Depth(u)' = Depth(u)
    BY DEF Depth
  <1>3. ASSUME NEW u \in Threads, NEW n \in 1..Depth(u), stack[u][n].kind # "block"
        PROVE  status'[stack[u][n].query] = Busy[stack[u][n].kind] /\ stack[u][n].query \in Queries
    <2>1. stack[u][n].query \in Queries /\ status[stack[u][n].query] = Busy[stack[u][n].kind]
      BY <1>3 DEF IInv, CallsOK
    <2>2. ~AtRest(stack[u][n].query)
      BY <2>1, NamesAssumption, FramesBusy DEF IInv
    <2> QED
      BY <2>1, <2>2
  <1>4. CallsOK'
    BY <1>2, <1>3 DEF IInv, CallsOK
  <1>5. OneCallEach'
    BY <1>2 DEF IInv, OneCallEach
  <1> QED
    BY <1>1, <1>4, <1>5

LEMMA PushKeeps ==
  ASSUME IInv, NEW t \in Threads, NEW f \in Frames, NEW s \in Scopes, NEW c \in Cancels,
         stack' = [stack EXCEPT ![t] = Append(@, f)],
         current' = [current EXCEPT ![t] = s],
         cancel' = [cancel EXCEPT ![t] = c],
         Reset(s, f.scope) = current[t],
         Reset(c, f.token) = cancel[t],
         s = current[t] \/ s = f.query,
         f.kind = "block" => f.query = None,
         f.kind # "block" => /\ f.query \in Queries
                             /\ AtRest(f.query)
                             /\ status'[f.query] = Busy[f.kind]
                             /\ scoped'[f.query] => s = f.query /\ c = startedUnder'[f.query],
         \A q \in Queries \ {f.query} :
           status'[q] = status[q] /\ scoped'[q] = scoped[q] /\ startedUnder'[q] = startedUnder[q]
  PROVE  CallsOK' /\ OneCallEach' /\ \A u \in Threads : Nested(u)'
  <1>0. PICK m \in Nat : m = Depth(t)
    BY DepthsAreNaturals DEF IInv
  <1>1. /\ \A u \in Threads : u # t => stack'[u] = stack[u]
        /\ Len(stack'[t]) = m + 1
        /\ \A n \in 1..m : stack'[t][n] = stack[t][n]
        /\ stack'[t][m + 1] = f
    BY <1>0, PushedFrames DEF IInv
  <1>2. \A u \in Threads : Depth(u) \in Nat
    BY DepthsAreNaturals DEF IInv
  <1>3. Depth(t)' = m + 1 /\ \A u \in Threads : u # t => Depth(u)' = Depth(u)
    BY <1>0, <1>1 DEF Depth
  <1>4. \A u \in Threads : \A n \in 1..Depth(u) :
          /\ stack[u][n].query # None => stack[u][n].query \in Queries \ {f.query}
          /\ stack[u][n].kind # "block" => stack[u][n].query \in Queries \ {f.query}
    <2> SUFFICES ASSUME NEW u \in Threads, NEW n \in 1..Depth(u)
                 PROVE  /\ stack[u][n].query # None => stack[u][n].query \in Queries \ {f.query}
                        /\ stack[u][n].kind # "block" => stack[u][n].query \in Queries \ {f.query}
      OBVIOUS
    <2>1. stack[u][n].kind # "block" => stack[u][n].query # None
      BY NamesAssumption DEF IInv, CallsOK
    <2>2. stack[u][n].query # None => stack[u][n].query \in Queries /\ ~AtRest(stack[u][n].query)
      BY FramesBusy DEF IInv
    <2> QED
      BY <2>1, <2>2
  <1>5. current'[t] = s /\ cancel'[t] = c
        /\ \A u \in Threads : u # t => current'[u] = current[u] /\ cancel'[u] = cancel[u]
    BY DEF IInv, TypeOK
  <1>6. CallsOK'
    <2>1. ASSUME NEW u \in Threads, NEW n \in (1..Depth(u))'
          PROVE  IF stack'[u][n].kind = "block" THEN stack'[u][n].query = None
                 ELSE stack'[u][n].query \in Queries /\ status'[stack'[u][n].query] = Busy[stack'[u][n].kind]
      <3>1. CASE u = t /\ n = m + 1
        BY <3>1, <1>1
      <3>2. CASE ~(u = t /\ n = m + 1)
        <4>1. n \in 1..Depth(u) /\ stack'[u][n] = stack[u][n]
          BY <3>2, <1>0, <1>1, <1>2, <1>3
        <4>2. IF stack[u][n].kind = "block" THEN stack[u][n].query = None
              ELSE stack[u][n].query \in Queries /\ status[stack[u][n].query] = Busy[stack[u][n].kind]
          BY <4>1 DEF IInv, CallsOK
        <4> QED
          BY <4>1, <4>2, <1>4, ZenonT(40)
      <3> QED
        BY <3>1, <3>2
    <2> QED
      BY <2>1 DEF CallsOK
  <1>65. OneCallEach'
    <2>1. ASSUME NEW u \in Threads, NEW v \in Threads,
                 NEW n \in (1..Depth(u))', NEW k \in (1..Depth(v))',
                 stack'[u][n].query = stack'[v][k].query, stack'[u][n].query # None
          PROVE  u = v /\ n = k
      <3>1. ASSUME NEW w \in Threads, NEW j \in (1..Depth(w))', ~(w = t /\ j = m + 1)
            PROVE  j \in 1..Depth(w) /\ stack'[w][j] = stack[w][j]
        BY <3>1, <1>0, <1>1, <1>2, <1>3
      <3>2. ASSUME NEW w \in Threads, NEW j \in (1..Depth(w))', ~(w = t /\ j = m + 1),
                   stack'[w][j].query # None
            PROVE  stack'[w][j].query # stack'[t][m + 1].query
        <4>1. j \in 1..Depth(w) /\ stack'[w][j] = stack[w][j]
          BY <3>1, <3>2
        <4>2. stack[w][j].query # f.query
          BY <1>4, <3>2, <4>1, Zenon
        <4> QED
          BY <1>1, <4>1, <4>2, Zenon
      <3>3. CASE (u = t /\ n = m + 1) \/ (v = t /\ k = m + 1)
        <4>1. CASE u = t /\ n = m + 1 /\ v = t /\ k = m + 1
          BY <4>1
        <4>2. CASE u = t /\ n = m + 1 /\ ~(v = t /\ k = m + 1)
          BY <2>1, <3>2, <4>2, Zenon
        <4>3. CASE ~(u = t /\ n = m + 1) /\ v = t /\ k = m + 1
          <5>1. stack'[u][n].query # stack'[t][m + 1].query
            BY <2>1, <3>2, <4>3, Zenon
          <5> QED
            BY <2>1, <4>3, <5>1, Zenon
        <4> QED
          BY <3>3, <4>1, <4>2, <4>3
      <3>4. CASE ~(u = t /\ n = m + 1) /\ ~(v = t /\ k = m + 1)
        <4>1. /\ n \in 1..Depth(u) /\ stack'[u][n] = stack[u][n]
              /\ k \in 1..Depth(v) /\ stack'[v][k] = stack[v][k]
          BY <3>1, <3>4
        <4>2. OneCallEach
          BY DEF IInv
        <4>3. stack[u][n].query = stack[v][k].query /\ stack[u][n].query # None
          BY <2>1, <4>1
        <4> QED
          BY <4>1, <4>2, <4>3 DEF OneCallEach
      <3> QED
        BY <3>3, <3>4
    <2> QED
      BY <2>1 DEF OneCallEach
  <1>7. Nested(t)'
    <2>1. PICK scopes \in [0..m -> Scopes], cancels \in [0..m -> Cancels] :
            NestedAs(t, scopes, cancels)
      BY <1>0 DEF IInv, Nested
    <2>2. PICK scopes2 \in [0..m + 1 -> Scopes] :
            (\A n \in 0..m : scopes2[n] = scopes[n]) /\ scopes2[m + 1] = s
      <3> WITNESS [n \in 0..m + 1 |-> IF n = m + 1 THEN s ELSE scopes[n]] \in [0..m + 1 -> Scopes]
      <3> QED
        OBVIOUS
    <2>3. PICK cancels2 \in [0..m + 1 -> Cancels] :
            (\A n \in 0..m : cancels2[n] = cancels[n]) /\ cancels2[m + 1] = c
      <3> WITNESS [n \in 0..m + 1 |-> IF n = m + 1 THEN c ELSE cancels[n]] \in [0..m + 1 -> Cancels]
      <3> QED
        OBVIOUS
    <2>4. /\ scopes[0] = None /\ cancels[0] = None
          /\ scopes[m] = current[t] /\ cancels[m] = cancel[t]
          /\ \A n \in 1..m : Below(t, n, scopes, cancels)
      BY <1>0, <2>1 DEF NestedAs
    <2>5. ASSUME NEW n \in 1..m
          PROVE  Below(t, n, scopes2, cancels2)'
      <3>1. stack'[t][n] = stack[t][n]
        BY <1>1
      <3>2. scopes2[n] = scopes[n] /\ cancels2[n] = cancels[n]
            /\ scopes2[n - 1] = scopes[n - 1] /\ cancels2[n - 1] = cancels[n - 1]
        BY <2>2, <2>3
      <3>3. scopes[n] # None => \E k \in 1..n : stack'[t][k].query = scopes[n]
        <4>1. scopes[n] # None => \E k \in 1..n : stack[t][k].query = scopes[n]
          BY <2>4 DEF Below
        <4>2. \A k \in 1..n : stack'[t][k] = stack[t][k]
          BY <1>1
        <4> QED
          BY <4>1, <4>2
      <3>4. stack[t][n].kind # "block" =>
              /\ scoped'[stack[t][n].query] = scoped[stack[t][n].query]
              /\ startedUnder'[stack[t][n].query] = startedUnder[stack[t][n].query]
        BY <1>0, <1>4
      <3> QED
        <4>1. /\ scopes[n - 1] = Reset(scopes[n], stack[t][n].scope)
              /\ cancels[n - 1] = Reset(cancels[n], stack[t][n].token)
              /\ stack[t][n].kind # "block" /\ scoped[stack[t][n].query] =>
                   scopes[n] = stack[t][n].query /\ cancels[n] = startedUnder[stack[t][n].query]
          BY <2>4 DEF Below
        <4> QED
          BY <3>1, <3>2, <3>3, <3>4, <4>1 DEF Below
    <2>6. ASSUME NEW n \in Nat, n = m + 1
          PROVE  Below(t, n, scopes2, cancels2)'
      <3>1. stack'[t][n] = f /\ scopes2[n] = s /\ cancels2[n] = c
        BY <1>1, <2>2, <2>3, <2>6
      <3>2. scopes2[n - 1] = current[t] /\ cancels2[n - 1] = cancel[t]
        <4>1. n - 1 = m
          BY <2>6
        <4> QED
          BY <2>2, <2>3, <2>4, <4>1
      <3>3. s # None => \E k \in 1..n : stack'[t][k].query = s
        <4>1. CASE s = f.query
          <5>1. n \in 1..n
            BY <2>6
          <5>2. stack'[t][n].query = s
            BY <3>1, <4>1, Zenon
          <5> QED
            BY <5>1, <5>2, Zenon
        <4>2. CASE s = current[t] /\ s # None
          <5>1. PICK k \in 1..m : stack[t][k].query = current[t]
            BY <1>0, <4>2, CurrentHasACall
          <5>2. k \in 1..n /\ stack'[t][k] = stack[t][k]
            BY <1>1, <2>6, <5>1
          <5> QED
            BY <4>2, <5>1, <5>2
        <4> QED
          BY <4>1, <4>2
      <3>4. scopes2[n - 1] = Reset(s, f.scope) /\ cancels2[n - 1] = Reset(c, f.token)
        BY <3>2, Zenon
      <3>5. f.kind # "block" /\ scoped'[f.query] => s = f.query /\ c = startedUnder'[f.query]
        OBVIOUS
      <3> QED
        BY <3>1, <3>3, <3>4, <3>5, Zenon DEF Below
    <2>7. \A n \in 1..m + 1 : Below(t, n, scopes2, cancels2)'
      BY <2>2, <2>5, <2>6
    <2>8. NestedAs(t, scopes2, cancels2)'
      BY <1>3, <1>5, <2>2, <2>3, <2>4, <2>7 DEF NestedAs
    <2> QED
      BY <1>3, <2>2, <2>3, <2>8 DEF Nested
  <1>8. ASSUME NEW u \in Threads, u # t
        PROVE  Nested(u)'
    BY <1>1, <1>4, <1>5, <1>8, OthersNested
  <1> QED
    BY <1>6, <1>7, <1>8, <1>65

LEMMA PopKeeps ==
  ASSUME IInv, NEW t \in Threads, ~Idle(t), Leave(t),
         UNCHANGED <<scoped, startedUnder>>,
         \A q \in Queries \ {Top(t).query} : status'[q] = status[q]
  PROVE  CallsOK' /\ OneCallEach' /\ \A u \in Threads : Nested(u)'
  <1>0. PICK m \in Nat : Depth(t) = m + 1
    <2>1. Depth(t) \in Nat \ {0}
      BY PoppedFrames DEF IInv, Leave
    <2>2. Depth(t) - 1 \in Nat /\ Depth(t) = Depth(t) - 1 + 1
      BY <2>1
    <2> QED
      BY <2>2
  <1>1. /\ \A u \in Threads : u # t => stack'[u] = stack[u]
        /\ Len(stack'[t]) = m
        /\ \A n \in 1..m : stack'[t][n] = stack[t][n]
        /\ Depth(t) \in Nat \ {0}
        /\ Top(t) = stack[t][Depth(t)]
    <2>1. Depth(t) - 1 = m
      BY <1>0
    <2> QED
      BY <2>1, PoppedFrames DEF IInv, Leave
  <1>2. \A u \in Threads : Depth(u) \in Nat
    BY DepthsAreNaturals DEF IInv
  <1>3. Depth(t)' = m /\ \A u \in Threads : u # t => Depth(u)' = Depth(u)
    BY <1>1 DEF Depth
  <1>4. ASSUME NEW u \in Threads, NEW n \in (1..Depth(u))'
        PROVE  n \in 1..Depth(u) /\ stack'[u][n] = stack[u][n] /\ ~(u = t /\ n = Depth(t))
    BY <1>0, <1>1, <1>2, <1>3
  <1>5. CallsOK'
    <2>1. ASSUME NEW u \in Threads, NEW n \in (1..Depth(u))', stack'[u][n].kind # "block"
          PROVE  stack'[u][n].query \in Queries /\ status'[stack'[u][n].query] = Busy[stack'[u][n].kind]
      <3>1. stack[u][n].query \in Queries /\ status[stack[u][n].query] = Busy[stack[u][n].kind]
        BY <1>4, <2>1 DEF IInv, CallsOK
      <3>2. stack[u][n].query # Top(t).query
        <4>1. n \in 1..Depth(u) /\ Depth(t) \in 1..Depth(t) /\ ~(u = t /\ n = Depth(t))
          BY <1>1, <1>4
        <4>2. stack[u][n].query # None
          BY <3>1, NamesAssumption
        <4> QED
          BY <1>1, <4>1, <4>2 DEF IInv, OneCallEach
      <3> QED
        BY <1>4, <3>1, <3>2
    <2>2. ASSUME NEW u \in Threads, NEW n \in (1..Depth(u))', stack'[u][n].kind = "block"
          PROVE  stack'[u][n].query = None
      BY <1>4, <2>2 DEF IInv, CallsOK
    <2> QED
      BY <2>1, <2>2 DEF CallsOK
  <1>55. OneCallEach'
    <2>1. ASSUME NEW u \in Threads, NEW v \in Threads,
                 NEW n \in (1..Depth(u))', NEW k \in (1..Depth(v))',
                 stack'[u][n].query = stack'[v][k].query, stack'[u][n].query # None
          PROVE  u = v /\ n = k
      BY <1>4, <2>1 DEF IInv, OneCallEach
    <2> QED
      BY <2>1 DEF OneCallEach
  <1>6. Nested(t)'
    <2>1. PICK scopes \in [0..Depth(t) -> Scopes], cancels \in [0..Depth(t) -> Cancels] :
            NestedAs(t, scopes, cancels)
      BY DEF IInv, Nested
    <2>2. PICK scopes2 \in [0..m -> Scopes] : \A n \in 0..m : scopes2[n] = scopes[n]
      <3> USE <1>0
      <3> WITNESS [n \in 0..m |-> scopes[n]] \in [0..m -> Scopes]
      <3> QED
        OBVIOUS
    <2>3. PICK cancels2 \in [0..m -> Cancels] : \A n \in 0..m : cancels2[n] = cancels[n]
      <3> USE <1>0
      <3> WITNESS [n \in 0..m |-> cancels[n]] \in [0..m -> Cancels]
      <3> QED
        OBVIOUS
    <2>4. /\ scopes[0] = None /\ cancels[0] = None
          /\ scopes[m + 1] = current[t] /\ cancels[m + 1] = cancel[t]
          /\ \A n \in 1..m + 1 : Below(t, n, scopes, cancels)
      BY <1>0, <2>1 DEF NestedAs
    <2>5. current'[t] = scopes2[m] /\ cancel'[t] = cancels2[m]
      <3>1. Below(t, m + 1, scopes, cancels) /\ Top(t) = stack[t][m + 1] /\ m + 1 - 1 = m
        BY <1>0, <1>1, <2>4
      <3>2. current'[t] = Reset(current[t], Top(t).scope) /\ cancel'[t] = Reset(cancel[t], Top(t).token)
        BY DEF IInv, TypeOK, Leave
      <3> QED
        BY <2>2, <2>3, <2>4, <3>1, <3>2 DEF Below
    <2>6. ASSUME NEW n \in 1..m
          PROVE  Below(t, n, scopes2, cancels2)'
      <3>1. \A k \in 1..n : stack'[t][k] = stack[t][k]
        BY <1>1
      <3>2. scopes2[n] = scopes[n] /\ cancels2[n] = cancels[n]
            /\ scopes2[n - 1] = scopes[n - 1] /\ cancels2[n - 1] = cancels[n - 1]
        BY <2>2, <2>3
      <3>3. Below(t, n, scopes, cancels) /\ n \in 1..n
        BY <2>2, <2>4
      <3> QED
        BY <3>1, <3>2, <3>3 DEF Below
    <2>7. NestedAs(t, scopes2, cancels2)'
      BY <1>3, <2>2, <2>3, <2>4, <2>5, <2>6 DEF NestedAs
    <2> QED
      BY <1>3, <2>2, <2>3, <2>7 DEF Nested
  <1>7. ASSUME NEW u \in Threads, u # t
        PROVE  Nested(u)'
    <2>1. stack'[u] = stack[u] /\ current'[u] = current[u] /\ cancel'[u] = cancel[u]
      BY <1>1, <1>7 DEF IInv, TypeOK, Leave
    <2> QED
      BY <2>1, OthersNested
  <1> QED
    BY <1>5, <1>55, <1>6, <1>7

-----------------------------------------------------------------------------
(* The types.                                                              *)

LEMMA LeaveTypes ==
  ASSUME TypeOK, NEW t \in Threads, ~Idle(t), Leave(t)
  PROVE  /\ stack' \in [Threads -> Seq(Frames)]
         /\ current' \in [Threads -> Scopes]
         /\ cancel' \in [Threads -> Cancels]
         /\ LeaveTrace(t) => trace' \in [Threads -> Scopes]
  <1>1. Top(t) \in Frames /\ stack' \in [Threads -> Seq(Frames)]
    BY PoppedFrames DEF Leave
  <1>2. /\ Reset(current[t], Top(t).scope) \in Scopes
        /\ Reset(cancel[t], Top(t).token) \in Cancels
        /\ Reset(trace[t], Top(t).trace) \in Scopes
    BY <1>1 DEF TypeOK, Frames, Reset
  <1> QED
    BY <1>1, <1>2 DEF TypeOK, Leave, LeaveTrace

LEMMA EnterTypes ==
  ASSUME TypeOK, NEW t \in Threads, NEW q \in Queries, NEW kind \in Kinds, NEW was \in Scopes,
         Enter(t, kind, q, was)
  PROVE  /\ stack' \in [Threads -> Seq(Frames)]
         /\ current' \in [Threads -> Scopes]
         /\ cancel' \in [Threads -> Cancels]
         /\ trace' \in [Threads -> Scopes]
  <1>1. /\ current[t] \in Scopes /\ cancel[t] \in Cancels /\ q \in Scopes
        /\ StepToken(t, q) \in Cancels
    BY DEF TypeOK, StepToken, Scopes
  <1>2. [kind |-> kind, query |-> q,
         scope |-> IF scoped[q] THEN current[t] ELSE Kept,
         token |-> IF StepToken(t, q) # cancel[t] THEN cancel[t] ELSE Kept,
         trace |-> IF OwnTrace(q) THEN was ELSE Kept] \in Frames
    BY <1>1 DEF Frames
  <1>3. stack' \in [Threads -> Seq(Frames)]
    BY <1>2, PushedFrames DEF Enter, Push
  <1> QED
    BY <1>1, <1>3 DEF TypeOK, Enter

LEMMA StepKeepsTypes ==
  ASSUME TypeOK, [Next]_vars
  PROVE  TypeOK'
  <1>1. CASE UNCHANGED vars
    BY <1>1 DEF TypeOK, vars, context, query
  <1>2. ASSUME NEW t \in Threads, NEW c \in Tokens, EnterBlock(t, c)
        PROVE  TypeOK'
    <2>1. [kind |-> "block", query |-> None, scope |-> Kept, token |-> cancel[t], trace |-> Kept] \in Frames
      BY DEF TypeOK, Frames, Kinds, Scopes
    <2>2. stack' \in [Threads -> Seq(Frames)]
      BY <1>2, <2>1, PushedFrames DEF EnterBlock, Push
    <2> QED
      BY <1>2, <2>2 DEF TypeOK, EnterBlock, Cancels, query
  <1>3. ASSUME NEW t \in Threads, ExitBlock(t)
        PROVE  TypeOK'
    BY <1>3, LeaveTypes DEF TypeOK, ExitBlock, Inside, query
  <1>4. ASSUME NEW t \in Threads, NEW q \in Queries, StartQuery(t, q)
        PROVE  TypeOK'
    <2>1. [kind |-> "plan", query |-> q, scope |-> IF OpensScope(t) THEN current[t] ELSE Kept,
           token |-> Kept, trace |-> Kept] \in Frames
      BY DEF TypeOK, Frames, Kinds, Scopes
    <2>2. stack' \in [Threads -> Seq(Frames)]
      BY <1>4, <2>1, PushedFrames DEF StartQuery, Push
    <2>3. OpensScope(t) \in BOOLEAN /\ cancel[t] \in Cancels /\ None \in Cancels
      BY DEF TypeOK, OpensScope, Cancels
    <2>4. /\ status' \in [Queries -> Statuses]
          /\ scoped' \in [Queries -> BOOLEAN]
          /\ token' \in [Queries -> Cancels]
          /\ startedUnder' \in [Queries -> Cancels]
      BY <1>4, <2>3 DEF TypeOK, StartQuery, Statuses
    <2>5. current' \in [Threads -> Scopes] /\ trace' \in [Threads -> Scopes]
      BY <1>4 DEF TypeOK, StartQuery, Scopes
    <2>6. tracedIn' \in [Queries -> Threads \cup {None}]
      BY <1>4 DEF TypeOK, StartQuery
    <2> QED
      BY <1>4, <2>2, <2>4, <2>5, <2>6 DEF TypeOK, StartQuery
  <1>5. ASSUME NEW t \in Threads, PlanLazy(t)
        PROVE  TypeOK'
    BY <1>5, LeaveTypes DEF TypeOK, PlanLazy, Planned, Inside, Statuses
  <1>6. ASSUME NEW t \in Threads, PlanAnswers(t)
        PROVE  TypeOK'
    BY <1>6, LeaveTypes
       DEF TypeOK, PlanAnswers, Planned, PlanTraceEnds, Cleared, Inside, Statuses, Scopes
  <1>7. ASSUME NEW t \in Threads, PlanFails(t)
        PROVE  TypeOK'
    BY <1>7, LeaveTypes DEF TypeOK, PlanFails, Planned, PlanTraceEnds, Inside, Statuses, Scopes
  <1>8. ASSUME NEW t \in Threads, NEW q \in Queries, Pull(t, q)
        PROVE  TypeOK'
    <2>1. (IF begun[q] THEN trace[t] ELSE None) \in Scopes
      BY DEF TypeOK, Scopes
    <2> QED
      BY <1>8, <2>1, EnterTypes DEF TypeOK, Pull, Kinds, Statuses
  <1>9. ASSUME NEW t \in Threads, NEW q \in Queries, PullElsewhere(t, q)
        PROVE  TypeOK'
    BY <1>9 DEF TypeOK, PullElsewhere, Cleared, Statuses, context
  <1>10. ASSUME NEW t \in Threads, StepYields(t)
         PROVE  TypeOK'
    BY <1>10, LeaveTypes DEF TypeOK, StepYields, Inside, Statuses
  <1>11. ASSUME NEW t \in Threads, StepEnds(t)
         PROVE  TypeOK'
    BY <1>11, LeaveTypes DEF TypeOK, StepEnds, Cleared, Inside, Statuses
  <1>12. ASSUME NEW t \in Threads, NEW q \in Queries, BeginClose(t, q)
         PROVE  TypeOK'
    <2>1. trace[t] \in Scopes
      BY DEF TypeOK
    <2> QED
      BY <1>12, <2>1, EnterTypes DEF TypeOK, BeginClose, Kinds, Statuses
  <1>13. ASSUME NEW t \in Threads, EndClose(t)
         PROVE  TypeOK'
    BY <1>13, LeaveTypes DEF TypeOK, EndClose, Cleared, Inside, Statuses
  <1>14. ASSUME NEW t \in Threads, NEW q \in Queries, CloseUnread(t, q)
         PROVE  TypeOK'
    BY <1>14 DEF TypeOK, CloseUnread, Statuses, context
  <1>15. ASSUME NEW t \in Threads, Learn(t)
         PROVE  TypeOK'
    BY <1>15 DEF TypeOK, Learn, context
  <1> QED
    BY <1>1, <1>2, <1>3, <1>4, <1>5, <1>6, <1>7, <1>8, <1>9, <1>10, <1>11, <1>12, <1>13, <1>14,
       <1>15 DEF Next

-----------------------------------------------------------------------------
(* The invariant.                                                          *)

LEMMA InitHolds ==
  ASSUME Init
  PROVE  IInv
  <1>1. TypeOK
    BY EmptySeq DEF Init, TypeOK, Scopes, Cancels, Statuses
  <1>2. \A t \in Threads : Depth(t) = 0
    BY <1>1, DepthsAreNaturals DEF Init, Idle
  <1>3. CallsOK /\ OneCallEach
    BY <1>2 DEF CallsOK, OneCallEach
  <1>4. ASSUME NEW t \in Threads
        PROVE  Nested(t)
    <2> DEFINE none == [n \in 0..0 |-> None]
    <2>1. none \in [0..Depth(t) -> Scopes] /\ none \in [0..Depth(t) -> Cancels]
      BY <1>2 DEF Scopes, Cancels
    <2>2. NestedAs(t, none, none)
      BY <1>2 DEF Init, NestedAs
    <2> QED
      BY <2>1, <2>2 DEF Nested
  <1>5. TokensOK /\ EndedOK
    BY DEF Init, TokensOK, EndedOK
  <1> QED
    BY <1>1, <1>3, <1>4, <1>5 DEF IInv

(* A step or a close entered: the frame holds what was current, and the    *)
(* query's scope and token, if it has one, are current now.                *)
LEMMA EnterKeeps ==
  ASSUME IInv, NEW t \in Threads, NEW q \in Queries, NEW kind \in {"step", "close"},
         NEW was \in Scopes, Enter(t, kind, q, was), AtRest(q),
         status' = [status EXCEPT ![q] = Busy[kind]],
         UNCHANGED <<scoped, startedUnder>>
  PROVE  CallsOK' /\ OneCallEach' /\ \A u \in Threads : Nested(u)'
  <1> DEFINE s == IF scoped[q] THEN q ELSE current[t]
             c == StepToken(t, q)
             f == [kind |-> kind, query |-> q,
                   scope |-> IF scoped[q] THEN current[t] ELSE Kept,
                   token |-> IF c # cancel[t] THEN cancel[t] ELSE Kept,
                   trace |-> IF OwnTrace(q) THEN was ELSE Kept]
  <1>1. TypeOK /\ current[t] \in Scopes /\ cancel[t] \in Cancels
    BY DEF IInv, TypeOK
  <1>2. s \in Scopes /\ c \in Cancels
    BY <1>1 DEF TypeOK, StepToken, Scopes
  <1>3. f \in Frames
    BY <1>1 DEF Frames, Kinds, Scopes
  <1>4. Reset(s, f.scope) = current[t] /\ Reset(c, f.token) = cancel[t]
    BY <1>1, NamesAssumption DEF Reset, Scopes, Cancels
  <1>5. scoped[q] => s = q /\ c = startedUnder[q]
    BY DEF IInv, TokensOK, StepToken
  <1>6. /\ stack' = [stack EXCEPT ![t] = Append(@, f)]
        /\ current' = [current EXCEPT ![t] = s]
        /\ cancel' = [cancel EXCEPT ![t] = c]
    BY DEF Enter, Push
  <1>7. f.kind # "block" /\ f.query = q /\ f.kind = kind
    OBVIOUS
  <1>8. status'[q] = Busy[kind] /\ \A p \in Queries \ {q} : status'[p] = status[p]
    BY <1>1 DEF TypeOK
  <1>9. s = current[t] \/ s = q
    OBVIOUS
  <1> HIDE DEF s, c, f
  <1> QED
    BY <1>2, <1>3, <1>4, <1>5, <1>6, <1>7, <1>8, <1>9, PushKeeps

LEMMA StepKeepsIInv ==
  ASSUME IInv, [Next]_vars
  PROVE  IInv'
  <1>0. TypeOK /\ TypeOK' /\ status \in [Queries -> Statuses]
    BY StepKeepsTypes DEF IInv, TypeOK
  <1> DEFINE Kept2 == CallsOK /\ OneCallEach /\ \A u \in Threads : Nested(u)
             StillTokens == UNCHANGED <<scoped, token, startedUnder>>
  <1>a. ASSUME StillTokens
        PROVE  TokensOK'
    BY <1>a DEF IInv, TokensOK
  <1>b. ASSUME UNCHANGED <<scoped, learned>>,
               \A q \in Queries : status'[q] = "ended" => status[q] = "ended"
        PROVE  EndedOK'
    BY <1>b DEF IInv, EndedOK
  <1>c. ASSUME UNCHANGED scoped, NEW p \in Queries, learned' = Cleared(p),
               \A q \in Queries \ {p} : status'[q] = status[q]
        PROVE  EndedOK'
    BY <1>c, <1>0 DEF IInv, TypeOK, EndedOK, Cleared
  <1>d. ASSUME NEW t \in Threads, NEW kind \in {"plan", "step", "close"}, Inside(t, kind)
        PROVE  Top(t).query \in Queries
    <2>1. Top(t) = stack[t][Depth(t)] /\ Depth(t) \in 1..Depth(t)
      BY <1>d, <1>0, DepthsAreNaturals DEF Inside, Top, Depth
    <2> QED
      BY <1>d, <2>1 DEF IInv, CallsOK, Inside
  <1>1. CASE UNCHANGED vars
    <2>1. Kept2'
      BY <1>1, RestKeeps DEF vars, context, query
    <2> QED
      BY <1>0, <1>1, <1>a, <1>b, <2>1 DEF IInv, vars, query
  <1>2. ASSUME NEW t \in Threads, NEW c \in Tokens, EnterBlock(t, c)
        PROVE  IInv'
    <2> DEFINE f == [kind |-> "block", query |-> None, scope |-> Kept, token |-> cancel[t], trace |-> Kept]
    <2>1. f \in Frames /\ current[t] \in Scopes /\ cancel[t] \in Cancels /\ c \in Cancels
      BY <1>0 DEF TypeOK, Frames, Kinds, Scopes, Cancels
    <2>2. Reset(current[t], f.scope) = current[t] /\ Reset(c, f.token) = cancel[t]
      BY <2>1, NamesAssumption DEF Reset, Cancels
    <2>3. current' = [current EXCEPT ![t] = current[t]]
      BY <1>0, <1>2 DEF TypeOK, EnterBlock
    <2>4. /\ stack' = [stack EXCEPT ![t] = Append(@, f)]
          /\ cancel' = [cancel EXCEPT ![t] = c]
          /\ UNCHANGED query
      BY <1>2 DEF EnterBlock, Push
    <2>5. f.kind = "block" /\ f.query = None
      OBVIOUS
    <2> HIDE DEF f
    <2>6. Kept2'
      BY <2>1, <2>2, <2>3, <2>4, <2>5, PushKeeps DEF query
    <2> QED
      BY <1>0, <1>a, <1>b, <2>4, <2>6 DEF IInv, query
  <1>3. ASSUME NEW t \in Threads, ExitBlock(t)
        PROVE  IInv'
    <2>1. Kept2'
      BY <1>3, PopKeeps DEF ExitBlock, Inside, query
    <2> QED
      BY <1>0, <1>3, <1>a, <1>b, <2>1 DEF IInv, ExitBlock, query
  <1>4. ASSUME NEW t \in Threads, NEW q \in Queries, StartQuery(t, q)
        PROVE  IInv'
    <2> DEFINE s == IF OpensScope(t) THEN q ELSE current[t]
               f == [kind |-> "plan", query |-> q, scope |-> IF OpensScope(t) THEN current[t] ELSE Kept,
                     token |-> Kept, trace |-> Kept]
    <2>1. f \in Frames /\ s \in Scopes /\ current[t] \in Scopes /\ cancel[t] \in Cancels
      BY <1>0 DEF TypeOK, Frames, Kinds, Scopes
    <2>2. Reset(s, f.scope) = current[t] /\ Reset(cancel[t], f.token) = cancel[t]
      BY <2>1, NamesAssumption DEF Reset, Scopes, Cancels
    <2>3. /\ stack' = [stack EXCEPT ![t] = Append(@, f)]
          /\ current' = [current EXCEPT ![t] = s]
          /\ cancel' = [cancel EXCEPT ![t] = cancel[t]]
      BY <1>0, <1>4 DEF TypeOK, StartQuery, Push
    <2>4. /\ AtRest(q) /\ status'[q] = Busy["plan"]
          /\ scoped'[q] = OpensScope(t)
          /\ startedUnder'[q] = cancel[t]
          /\ token'[q] = IF OpensScope(t) THEN cancel[t] ELSE None
          /\ learned' = learned
      BY <1>0, <1>4 DEF TypeOK, StartQuery, AtRest, Busy
    <2>5. \A p \in Queries \ {q} : /\ status'[p] = status[p] /\ scoped'[p] = scoped[p]
                                   /\ token'[p] = token[p] /\ startedUnder'[p] = startedUnder[p]
      BY <1>0, <1>4 DEF TypeOK, StartQuery
    <2>6. f.kind = "plan" /\ f.query = q /\ (OpensScope(t) => s = q) /\ (s = current[t] \/ s = q)
      OBVIOUS
    <2> HIDE DEF s, f
    <2>7. scoped'[q] => s = q /\ cancel[t] = startedUnder'[q]
      BY <2>4, <2>6
    <2>8. Kept2'
      <3>1. f.kind # "block" /\ (s = current[t] \/ s = f.query)
        BY <2>6
      <3>2. /\ f.query \in Queries /\ AtRest(f.query)
            /\ status'[f.query] = Busy[f.kind]
            /\ scoped'[f.query] => s = f.query /\ cancel[t] = startedUnder'[f.query]
        BY <2>4, <2>6, <2>7, Zenon
      <3>3. \A p \in Queries \ {f.query} :
              status'[p] = status[p] /\ scoped'[p] = scoped[p] /\ startedUnder'[p] = startedUnder[p]
        BY <2>5, <2>6, Zenon
      <3> QED
        BY <2>1, <2>2, <2>3, <3>1, <3>2, <3>3, PushKeeps
    <2>9. TokensOK'
      BY <2>4, <2>5 DEF IInv, TokensOK
    <2>10. EndedOK'
      BY <2>4, <2>5 DEF IInv, EndedOK, Busy
    <2> QED
      BY <1>0, <2>8, <2>9, <2>10 DEF IInv
  <1>5. ASSUME NEW t \in Threads, PlanLazy(t)
        PROVE  IInv'
    <2>1. Kept2'
      BY <1>0, <1>5, PopKeeps DEF PlanLazy, Planned, Inside
    <2> QED
      BY <1>0, <1>5, <1>a, <1>b, <2>1 DEF IInv, PlanLazy, Planned
  <1>6. ASSUME NEW t \in Threads, PlanAnswers(t)
        PROVE  IInv'
    <2>1. Kept2'
      BY <1>0, <1>6, PopKeeps DEF PlanAnswers, Planned, Inside
    <2>2. EndedOK'
      BY <1>0, <1>6, <1>c, <1>d DEF PlanAnswers, Planned
    <2> QED
      BY <1>0, <1>6, <1>a, <2>1, <2>2 DEF IInv, PlanAnswers, Planned
  <1>7. ASSUME NEW t \in Threads, PlanFails(t)
        PROVE  IInv'
    <2>1. Kept2'
      BY <1>0, <1>7, PopKeeps DEF PlanFails, Planned, Inside
    <2> QED
      BY <1>0, <1>7, <1>a, <1>b, <2>1 DEF IInv, PlanFails, Planned
  <1>8. ASSUME NEW t \in Threads, NEW q \in Queries, Pull(t, q)
        PROVE  IInv'
    <2>1. AtRest(q) /\ status' = [status EXCEPT ![q] = Busy["step"]]
      BY <1>8 DEF Pull, AtRest, Busy
    <2>2. (IF begun[q] THEN trace[t] ELSE None) \in Scopes
      BY <1>0 DEF TypeOK, Scopes
    <2>3. Kept2'
      BY <1>8, <2>1, <2>2, EnterKeeps DEF Pull
    <2> QED
      BY <1>0, <1>8, <1>a, <1>b, <2>3 DEF IInv, Pull
  <1>9. ASSUME NEW t \in Threads, NEW q \in Queries, PullElsewhere(t, q)
        PROVE  IInv'
    <2>1. \A p \in Queries : ~AtRest(p) => status'[p] = status[p]
      BY <1>0, <1>9 DEF PullElsewhere, AtRest
    <2>2. Kept2'
      BY <1>9, <2>1, RestKeeps DEF PullElsewhere, context
    <2>3. EndedOK'
      BY <1>0, <1>9, <1>c DEF PullElsewhere
    <2> QED
      BY <1>0, <1>9, <1>a, <2>2, <2>3 DEF IInv, PullElsewhere
  <1>10. ASSUME NEW t \in Threads, StepYields(t)
         PROVE  IInv'
    <2>1. Kept2'
      BY <1>0, <1>10, PopKeeps DEF StepYields, Inside
    <2> QED
      BY <1>0, <1>10, <1>a, <1>b, <2>1 DEF IInv, StepYields
  <1>11. ASSUME NEW t \in Threads, StepEnds(t)
         PROVE  IInv'
    <2>1. Kept2'
      BY <1>0, <1>11, PopKeeps DEF StepEnds, Inside
    <2>2. EndedOK'
      BY <1>0, <1>11, <1>c, <1>d DEF StepEnds
    <2> QED
      BY <1>0, <1>11, <1>a, <2>1, <2>2 DEF IInv, StepEnds
  <1>12. ASSUME NEW t \in Threads, NEW q \in Queries, BeginClose(t, q)
         PROVE  IInv'
    <2>1. AtRest(q) /\ status' = [status EXCEPT ![q] = Busy["close"]]
      BY <1>12 DEF BeginClose, AtRest, Busy
    <2>2. trace[t] \in Scopes
      BY <1>0 DEF TypeOK
    <2>3. Kept2'
      BY <1>12, <2>1, <2>2, EnterKeeps DEF BeginClose
    <2> QED
      BY <1>0, <1>12, <1>a, <1>b, <2>3 DEF IInv, BeginClose
  <1>13. ASSUME NEW t \in Threads, EndClose(t)
         PROVE  IInv'
    <2>1. Kept2'
      BY <1>0, <1>13, PopKeeps DEF EndClose, Inside
    <2>2. EndedOK'
      BY <1>0, <1>13, <1>c, <1>d DEF EndClose
    <2> QED
      BY <1>0, <1>13, <1>a, <2>1, <2>2 DEF IInv, EndClose
  <1>14. ASSUME NEW t \in Threads, NEW q \in Queries, CloseUnread(t, q)
         PROVE  IInv'
    <2>1. \A p \in Queries : ~AtRest(p) => status'[p] = status[p]
      BY <1>0, <1>14 DEF CloseUnread, AtRest
    <2>2. Kept2'
      BY <1>14, <2>1, RestKeeps DEF CloseUnread, context
    <2> QED
      BY <1>0, <1>14, <1>a, <1>b, <2>2 DEF IInv, CloseUnread
  <1>15. ASSUME NEW t \in Threads, Learn(t)
         PROVE  IInv'
    <2>1. Kept2'
      BY <1>15, RestKeeps DEF Learn, context
    <2>2. status[current[t]] # "ended"
      BY <1>15, CurrentIsBusy DEF Learn, AtRest
    <2>3. EndedOK'
      <3>1. ASSUME NEW q \in Queries, status'[q] = "ended", scoped'[q]
            PROVE  ~learned'[q]
        <4>1. q # current[t]
          BY <1>15, <2>2, <3>1 DEF Learn
        <4>2. ~learned[q]
          BY <1>15, <3>1 DEF IInv, EndedOK, Learn
        <4>3. learned'[q] = learned[q]
          BY <1>0, <1>15, <4>1 DEF TypeOK, Learn
        <4> QED
          BY <4>2, <4>3
      <3> QED
        BY <3>1 DEF EndedOK
    <2> QED
      BY <1>0, <1>15, <1>a, <2>1, <2>3 DEF IInv, Learn
  <1> QED
    BY <1>1, <1>2, <1>3, <1>4, <1>5, <1>6, <1>7, <1>8, <1>9, <1>10, <1>11, <1>12, <1>13, <1>14,
       <1>15 DEF Next

LEMMA Invariance == Spec => []IInv
  <1>1. Init => IInv
    BY InitHolds
  <1>2. IInv /\ [Next]_vars => IInv'
    BY StepKeepsIInv
  <1> QED
    BY <1>1, <1>2, PTL DEF Spec

-----------------------------------------------------------------------------
(* The theorems.                                                           *)

(* Every variable keeps its type: a frame holds a scope and a token the    *)
(* code may reset to, and a query's status is one of those named.          *)
THEOREM TypesHold == Spec => []TypeOK
  <1>1. IInv => TypeOK
    BY DEF IInv
  <1> QED
    BY <1>1, Invariance, PTL

(* However calls nest on however many threads, a query that opened a scope *)
(* runs in it and under the token it started with (_eval_scoped and        *)
(* _scoped_iterator of hook.py, set and reset around each call).           *)
THEOREM QueriesRunUnderTheirOwn == Spec => []RunsUnderItsOwn
  <1>1. ASSUME IInv, NEW t \in Threads, ~Idle(t), Top(t).kind # "block", scoped[Top(t).query]
        PROVE  current[t] = Top(t).query /\ cancel[t] = startedUnder[Top(t).query]
    <2>1. PICK scopes \in [0..Depth(t) -> Scopes], cancels \in [0..Depth(t) -> Cancels] :
            NestedAs(t, scopes, cancels)
      BY <1>1 DEF IInv, Nested
    <2>2. Depth(t) \in 1..Depth(t) /\ Top(t) = stack[t][Depth(t)]
      BY <1>1, DepthsAreNaturals DEF IInv, Top, Depth
    <2>3. Below(t, Depth(t), scopes, cancels)
      BY <2>1, <2>2 DEF NestedAs
    <2> QED
      BY <1>1, <2>1, <2>2, <2>3 DEF NestedAs, Below
  <1>2. IInv => RunsUnderItsOwn
    BY <1>1 DEF RunsUnderItsOwn
  <1> QED
    BY <1>2, Invariance, PTL

(* Where every call has returned, every set() of the scope and the token   *)
(* has been reset: the next query starts under nothing of this one's.      *)
THEOREM NothingIsLeftCurrent == Spec => []NothingLeaks
  <1>1. ASSUME IInv, NEW t \in Threads, Idle(t)
        PROVE  current[t] = None /\ cancel[t] = None
    <2>1. Depth(t) = 0
      BY <1>1, DepthsAreNaturals DEF IInv
    <2> QED
      BY <1>1, <2>1 DEF IInv, Nested, NestedAs
  <1>2. IInv => NothingLeaks
    BY <1>1 DEF NothingLeaks
  <1> QED
    BY <1>2, Invariance, PTL

(* A scope is current only where its query has a call, and a query has one *)
(* call at a time: no two threads share the term state of a scope.         *)
THEOREM ScopesAreNotShared == Spec => []ScopeInOneThread
  <1>1. ASSUME IInv, NEW t \in Threads, NEW u \in Threads, t # u, current[t] # None
        PROVE  current[t] # current[u]
    <2>1. PICK n \in 1..Depth(t) : stack[t][n].query = current[t]
      BY <1>1, CurrentHasACall
    <2>2. SUFFICES ASSUME current[u] = current[t] PROVE FALSE
      OBVIOUS
    <2>3. PICK k \in 1..Depth(u) : stack[u][k].query = current[u]
      BY <1>1, <2>2, CurrentHasACall
    <2> QED
      BY <1>1, <2>1, <2>2, <2>3 DEF IInv, OneCallEach
  <1>2. IInv => ScopeInOneThread
    BY <1>1 DEF ScopeInOneThread
  <1> QED
    BY <1>2, Invariance, PTL

(* The end of a query's rows, its failure in a step, an early close and an *)
(* answer given at once each clear its scope (QueryScope.clear), and no    *)
(* thread evaluates in that scope afterwards.                              *)
THEOREM EndedQueriesAreCleared == Spec => []ClearedAtEnd
  <1>1. ASSUME IInv, NEW q \in Queries, status[q] = "ended", NEW t \in Threads
        PROVE  current[t] # q
    BY <1>1, CurrentIsBusy, NamesAssumption DEF AtRest
  <1>2. IInv => ClearedAtEnd
    BY <1>1 DEF IInv, EndedOK, ClearedAtEnd
  <1> QED
    BY <1>2, Invariance, PTL
=============================================================================
