--------------------------- MODULE HostSessionProofs ---------------------------
(***************************************************************************)
(* The account session, for any callers: the type; that a sign-out         *)
(* overrules a recovery that waits or runs before it, which rests on the   *)
(* order of the queue; that without recoveries a sign-out is on disk; that *)
(* what is in flight never waits in a circle; and, for any callers,        *)
(* identities and operations, that a serialized operation starts the       *)
(* runtime apart from what a stop disposes, and that Core clears with      *)
(* nothing on top of it.                                                   *)
(***************************************************************************)
EXTENDS HostSession, ProviderRuntimeProofs, SequenceTheorems, FiniteSetTheorems

\* The call waits in mutateSession()'s chain, or runs at its head.
InQueue(call) ==
  \/ call.op \in {"logout", "login", "clear", "retire"}
  \/ call.op = "recover" /\ call.at # "status"

Overrules(call) == call.op \in {"logout", "clear"}
MayEnter(call) == call.op = "recover" /\ ~call.fenced

\* The queue holds each call once, only its head has begun, and a recovery that may still
\* enter its session has every sign-out and clear before it.
QueueInv(cs, q) ==
  /\ cs \in [Callers -> Call] /\ q \in Seq(Callers)
  /\ \A i, j \in 1 .. Len(q) : q[i] = q[j] => i = j
  /\ \A c \in Callers : InQueue(cs[c]) <=> \E i \in 1 .. Len(q) : q[i] = c
  /\ \A i \in 1 .. Len(q) : i # 1 => cs[q[i]].at = "queued"
  /\ \A c \in Callers : ~InQueue(cs[c]) => cs[c].at \in {"idle", "marker", "status", "core"}
  /\ \A i, j \in 1 .. Len(q) : MayEnter(cs[q[i]]) /\ Overrules(cs[q[j]]) => j < i

SessionInv == RuntimeInv /\ QueueInv(calls, queue)

\* Without recoveries, the flag in memory is never ahead of the file.
OutIsMarked == signedOut = "out" => marker

-----------------------------------------------------------------------------
(* The queue. *)

LEMMA NoCallType ==
  NoCall \in Call /\ ~InQueue(NoCall) /\ NoCall.at = "idle" /\ NoCall.op = "none"
BY DEF NoCall, Call, InQueue, AllOps, Did

\* A fence changes no call but what a recovery may do.
LEMMA FenceFacts ==
  ASSUME NEW cs \in [Callers -> Call]
  PROVE  /\ Fence(cs) \in [Callers -> Call]
         /\ \A c \in Callers : /\ Fence(cs)[c].op = cs[c].op /\ Fence(cs)[c].at = cs[c].at
                              /\ Fence(cs)[c].did = cs[c].did
                              /\ Fence(cs)[c].beside = cs[c].beside
                              /\ ~MayEnter(Fence(cs)[c])
<1> DEFINE F(c) == [cs[c] EXCEPT !.fenced = (cs[c].op = "recover")]
<1>1. ASSUME NEW c \in Callers
      PROVE  /\ F(c) \in Call /\ F(c).op = cs[c].op /\ F(c).at = cs[c].at
             /\ F(c).did = cs[c].did /\ F(c).beside = cs[c].beside /\ ~MayEnter(F(c))
  <2>1. cs[c] \in Call OBVIOUS
  <2> QED BY <2>1 DEF Call, MayEnter
<1>2. Fence(cs) = [c \in Callers |-> F(c)] BY DEF Fence
<1> HIDE DEF F
<1> QED BY <1>1, <1>2

\* Nor does it change what a call does, or may do, that the runtime is asked for beside it.
LEMMA BesideFacts ==
  ASSUME NEW cs \in [Callers -> Call]
  PROVE  /\ Beside(cs) \in [Callers -> Call]
         /\ \A c \in Callers : /\ Beside(cs)[c].op = cs[c].op /\ Beside(cs)[c].at = cs[c].at
                               /\ Beside(cs)[c].fenced = cs[c].fenced
                               /\ cs[c].op \notin {"clear", "retire"} => Beside(cs)[c] = cs[c]
                               /\ cs[c].op \in {"clear", "retire"} /\ cs[c].at \in {"stop", "core"}
                                    => Beside(cs)[c].beside
<1> DEFINE B(c) == IF cs[c].op \in {"clear", "retire"} /\ cs[c].at \in {"stop", "core"}
                   THEN [cs[c] EXCEPT !.beside = TRUE] ELSE cs[c]
<1>1. ASSUME NEW c \in Callers
      PROVE  /\ B(c) \in Call /\ B(c).op = cs[c].op /\ B(c).at = cs[c].at
             /\ B(c).fenced = cs[c].fenced
             /\ cs[c].op \notin {"clear", "retire"} => B(c) = cs[c]
             /\ cs[c].op \in {"clear", "retire"} /\ cs[c].at \in {"stop", "core"} => B(c).beside
  <2>1. cs[c] \in Call OBVIOUS
  <2> QED BY <2>1 DEF Call
<1>2. Beside(cs) = [c \in Callers |-> B(c)] BY DEF Beside
<1> HIDE DEF B
<1> QED BY <1>1, <1>2

LEMMA BesideInv ==
  ASSUME NEW cs, NEW q, QueueInv(cs, q)
  PROVE  QueueInv(Beside(cs), q)
<1> DEFINE bs == Beside(cs)
<1>1. /\ bs \in [Callers -> Call]
      /\ \A c \in Callers : /\ bs[c].op = cs[c].op /\ bs[c].at = cs[c].at
                           /\ bs[c].fenced = cs[c].fenced
  BY BesideFacts DEF QueueInv
<1> HIDE DEF bs
<1>2. \A c \in Callers : /\ InQueue(bs[c]) <=> InQueue(cs[c])
                         /\ Overrules(bs[c]) <=> Overrules(cs[c])
                         /\ MayEnter(bs[c]) <=> MayEnter(cs[c])
  BY <1>1 DEF InQueue, Overrules, MayEnter
<1>3. \A i \in 1 .. Len(q) : q[i] \in Callers BY DEF QueueInv
<1> QED BY <1>1, <1>2, <1>3 DEF QueueInv, bs

LEMMA FenceInv ==
  ASSUME NEW cs, NEW q, QueueInv(cs, q)
  PROVE  QueueInv(Fence(cs), q)
<1>1. /\ Fence(cs) \in [Callers -> Call]
      /\ \A c \in Callers : /\ Fence(cs)[c].op = cs[c].op /\ Fence(cs)[c].at = cs[c].at
                           /\ ~MayEnter(Fence(cs)[c])
  BY FenceFacts DEF QueueInv
<1> DEFINE fs == Fence(cs)
<1>2. \A c \in Callers : InQueue(fs[c]) <=> InQueue(cs[c]) BY <1>1 DEF InQueue
<1>3. \A i \in 1 .. Len(q) : q[i] \in Callers BY DEF QueueInv
<1> HIDE DEF fs
<1> QED BY <1>1, <1>2, <1>3 DEF QueueInv, fs

\* A call at its await: what it does stays, and so does its place.
LEMMA MoveInv ==
  ASSUME NEW cs, NEW q, QueueInv(cs, q), NEW c \in Callers, NEW x \in Call,
         InQueue(x) <=> InQueue(cs[c]), Overrules(x) <=> Overrules(cs[c]),
         InQueue(x) => q # <<>> /\ Head(q) = c,
         ~InQueue(x) => x.at \in {"idle", "marker", "status", "core"},
         MayEnter(x) => \A d \in Callers : ~Overrules(cs[d])
  PROVE  QueueInv([cs EXCEPT ![c] = x], q)
<1> DEFINE xs == [cs EXCEPT ![c] = x]
<1>1. cs \in [Callers -> Call] /\ q \in Seq(Callers) BY DEF QueueInv
<1>2. xs \in [Callers -> Call] /\ xs[c] = x /\ \A d \in Callers : d # c => xs[d] = cs[d]
  BY <1>1
<1> HIDE DEF xs
<1>3. \A i \in 1 .. Len(q) : q[i] \in Callers BY <1>1
<1>4. InQueue(x) => \A i \in 1 .. Len(q) : q[i] = c => i = 1
  <2>1. q # <<>> => 1 \in 1 .. Len(q) /\ Head(q) = q[1] BY <1>1
  <2> QED BY <2>1 DEF QueueInv
<1>5. \A d \in Callers : InQueue(xs[d]) <=> \E i \in 1 .. Len(q) : q[i] = d
  BY <1>2 DEF QueueInv
<1>6. \A i \in 1 .. Len(q) : i # 1 => xs[q[i]].at = "queued"
  BY <1>2, <1>3, <1>4, <1>5 DEF QueueInv
<1>7. \A d \in Callers : ~InQueue(xs[d]) => xs[d].at \in {"idle", "marker", "status", "core"}
  BY <1>2 DEF QueueInv
<1>8. \A d \in Callers : Overrules(xs[d]) <=> Overrules(cs[d]) BY <1>2
<1>9. \A i, j \in 1 .. Len(q) : MayEnter(xs[q[i]]) /\ Overrules(xs[q[j]]) => j < i
  BY <1>2, <1>3, <1>8 DEF QueueInv
<1>10. \A i, j \in 1 .. Len(q) : q[i] = q[j] => i = j BY DEF QueueInv
<1> QED BY <1>1, <1>2, <1>5, <1>6, <1>7, <1>9, <1>10 DEF QueueInv, xs

\* A call returns: it was at the head, or had no place.
LEMMA ReturnInv ==
  ASSUME NEW cs, QueueInv(cs, queue), NEW c \in Callers, Return(c, cs),
         (queue # <<>> /\ Head(queue) = c) \/ ~InQueue(cs[c])
  PROVE  QueueInv(calls', queue')
<1>1. cs \in [Callers -> Call] /\ queue \in Seq(Callers) BY DEF QueueInv
<1>2. /\ calls' \in [Callers -> Call] /\ calls'[c] = NoCall
      /\ \A d \in Callers : d # c => calls'[d] = cs[d]
  BY <1>1, NoCallType DEF Return
<1>3. \A i \in 1 .. Len(queue) : queue[i] \in Callers BY <1>1
<1>4. ~Overrules(NoCall) /\ ~MayEnter(NoCall) BY DEF NoCall, Overrules, MayEnter
<1>5. CASE queue # <<>> /\ Head(queue) = c
  <2>1. queue' = Tail(queue) BY <1>5 DEF Return
  <2>2. /\ queue' \in Seq(Callers) /\ Len(queue') = Len(queue) - 1 /\ Len(queue) \in Nat \ {0}
        /\ \A i \in 1 .. Len(queue') : queue'[i] = queue[i + 1]
    BY <2>1, <1>1, <1>5, HeadTailProperties
  <2>3. \A i \in 1 .. Len(queue') : i + 1 \in 1 .. Len(queue) /\ i + 1 # 1 BY <2>2
  <2>4. queue[1] = c /\ 1 \in 1 .. Len(queue) BY <1>1, <1>5
  <2>5. \A i \in 1 .. Len(queue') : queue'[i] \in Callers /\ queue'[i] # c
    BY <2>2, <2>3, <2>4, <1>3 DEF QueueInv
  <2>6. \A i, j \in 1 .. Len(queue') : queue'[i] = queue'[j] => i = j
    BY <2>2, <2>3 DEF QueueInv
  <2>7. ASSUME NEW d \in Callers PROVE InQueue(calls'[d]) <=> \E i \in 1 .. Len(queue') : queue'[i] = d
    <3>1. CASE d = c BY <3>1, <1>2, <2>5, NoCallType
    <3>2. CASE d # c
      <4>1. InQueue(calls'[d]) <=> \E i \in 1 .. Len(queue) : queue[i] = d
        BY <3>2, <1>2 DEF QueueInv
      <4>2. ASSUME NEW i \in 1 .. Len(queue), queue[i] = d
            PROVE  \E k \in 1 .. Len(queue') : queue'[k] = d
        <5>1. i # 1 BY <4>2, <3>2, <2>4
        <5>2. i - 1 \in 1 .. Len(queue') /\ (i - 1) + 1 = i BY <5>1, <2>2
        <5> QED BY <5>2, <2>2, <4>2
      <4> QED BY <4>1, <4>2, <2>2, <2>3
    <3> QED BY <3>1, <3>2
  <2>8. \A i \in 1 .. Len(queue') : calls'[queue'[i]].at = "queued"
    BY <2>2, <2>3, <2>5, <1>2 DEF QueueInv
  <2>9. \A d \in Callers : ~InQueue(calls'[d]) => calls'[d].at \in {"idle", "marker", "status", "core"}
    BY <1>2, NoCallType DEF QueueInv
  <2>10. ASSUME NEW i \in 1 .. Len(queue'), NEW j \in 1 .. Len(queue'),
                MayEnter(calls'[queue'[i]]), Overrules(calls'[queue'[j]])
         PROVE  j < i
    <3>1. calls'[queue'[i]] = cs[queue[i + 1]] /\ calls'[queue'[j]] = cs[queue[j + 1]]
      BY <1>2, <2>2, <2>5
    <3>2. j + 1 < i + 1 BY <3>1, <2>3, <2>10 DEF QueueInv
    <3> QED BY <3>2, <2>2
  <2> QED BY <1>2, <2>2, <2>6, <2>7, <2>8, <2>9, <2>10 DEF QueueInv
<1>6. CASE ~(queue # <<>> /\ Head(queue) = c)
  <2>1. queue' = queue BY <1>6 DEF Return
  <2>2. ~InQueue(cs[c]) BY <1>6
  <2>3. \A i \in 1 .. Len(queue) : queue[i] # c BY <2>2 DEF QueueInv
  <2>4. \A i \in 1 .. Len(queue) : calls'[queue[i]] = cs[queue[i]] BY <1>2, <1>3, <2>3
  <2>5. \A d \in Callers : InQueue(calls'[d]) <=> \E i \in 1 .. Len(queue) : queue[i] = d
    BY <1>2, <2>3, NoCallType DEF QueueInv
  <2>6. \A i \in 1 .. Len(queue) : i # 1 => calls'[queue[i]].at = "queued"
    BY <2>4 DEF QueueInv
  <2>7. \A d \in Callers : ~InQueue(calls'[d]) => calls'[d].at \in {"idle", "marker", "status", "core"}
    BY <1>2, NoCallType DEF QueueInv
  <2>8. \A i, j \in 1 .. Len(queue) : MayEnter(calls'[queue[i]]) /\ Overrules(calls'[queue[j]]) => j < i
    BY <2>4 DEF QueueInv
  <2>9. \A i, j \in 1 .. Len(queue) : queue[i] = queue[j] => i = j BY DEF QueueInv
  <2> QED BY <1>1, <1>2, <2>1, <2>5, <2>6, <2>7, <2>8, <2>9 DEF QueueInv
<1> QED BY <1>5, <1>6

\* A call takes its place at the end.
LEMMA AppendInv ==
  ASSUME NEW cs, NEW q, QueueInv(cs, q), NEW c \in Callers, NEW x \in Call,
         ~InQueue(cs[c]), InQueue(x), x.at = "queued",
         Overrules(x) => \A d \in Callers : ~MayEnter(cs[d])
  PROVE  QueueInv([cs EXCEPT ![c] = x], Append(q, c))
<1> DEFINE xs == [cs EXCEPT ![c] = x]
           r  == Append(q, c)
           n  == Len(q)
<1>1. cs \in [Callers -> Call] /\ q \in Seq(Callers) /\ n \in Nat BY DEF QueueInv
<1>2. xs \in [Callers -> Call] /\ xs[c] = x /\ \A d \in Callers : d # c => xs[d] = cs[d]
  BY <1>1
<1>3. /\ r \in Seq(Callers) /\ Len(r) = n + 1 /\ r[n + 1] = c
      /\ \A i \in 1 .. n : r[i] = q[i]
  BY <1>1, AppendProperties
<1>4. \A i \in 1 .. n : q[i] \in Callers /\ q[i] # c
  <2>1. \A i \in 1 .. n : q[i] \in Callers BY <1>1
  <2> QED BY <2>1 DEF QueueInv
<1>5. \A i \in 1 .. n + 1 : i \in 1 .. n \/ i = n + 1 BY <1>1
<1>6. n + 1 \in 1 .. n + 1 /\ \A i \in 1 .. n : i \in 1 .. n + 1 /\ i # n + 1 /\ i < n + 1 BY <1>1
<1>7. ~(Overrules(x) /\ MayEnter(x)) BY DEF Overrules, MayEnter
<1> HIDE DEF xs, r, n
<1>8. \A i, j \in 1 .. n + 1 : r[i] = r[j] => i = j
  BY <1>3, <1>4, <1>5, <1>6 DEF QueueInv, n
<1>9. ASSUME NEW d \in Callers PROVE InQueue(xs[d]) <=> \E i \in 1 .. n + 1 : r[i] = d
  <2>1. CASE d = c BY <2>1, <1>2, <1>3, <1>6
  <2>2. CASE d # c
    <3>1. InQueue(xs[d]) <=> \E i \in 1 .. n : q[i] = d BY <2>2, <1>2 DEF QueueInv, n
    <3> QED BY <3>1, <2>2, <1>3, <1>5, <1>6
  <2> QED BY <2>1, <2>2
<1>10. ASSUME NEW i \in 1 .. n + 1, i # 1 PROVE xs[r[i]].at = "queued"
  <2>1. CASE i = n + 1 BY <2>1, <1>2, <1>3
  <2>2. CASE i \in 1 .. n BY <2>2, <1>2, <1>3, <1>4, <1>10 DEF QueueInv, n
  <2> QED BY <2>1, <2>2, <1>5
<1>11. \A d \in Callers : ~InQueue(xs[d]) => xs[d].at \in {"idle", "marker", "status", "core"}
  BY <1>2 DEF QueueInv
<1>12. ASSUME NEW i \in 1 .. n + 1, NEW j \in 1 .. n + 1, MayEnter(xs[r[i]]), Overrules(xs[r[j]])
       PROVE  j < i
  <2>1. CASE i \in 1 .. n /\ j \in 1 .. n
    <3>1. xs[r[i]] = cs[q[i]] /\ xs[r[j]] = cs[q[j]] BY <2>1, <1>2, <1>3, <1>4
    <3> QED BY <3>1, <2>1, <1>12 DEF QueueInv, n
  <2>2. CASE i \in 1 .. n /\ j = n + 1
    <3>1. xs[r[i]] = cs[q[i]] /\ xs[r[j]] = x /\ q[i] \in Callers BY <2>2, <1>2, <1>3, <1>4
    <3> QED BY <3>1, <1>12
  <2>3. CASE i = n + 1 /\ j \in 1 .. n BY <2>3, <1>6
  <2>4. CASE i = n + 1 /\ j = n + 1 BY <2>4, <1>2, <1>3, <1>7, <1>12
  <2> QED BY <2>1, <2>2, <2>3, <2>4, <1>5
<1> QED BY <1>1, <1>2, <1>3, <1>8, <1>9, <1>10, <1>11, <1>12 DEF QueueInv, xs, r, n

-----------------------------------------------------------------------------
(* The steps of the calls, on the queue. *)

\* Who is at the head runs alone, and a recovery there has nobody to yield to.
LEMMA HeadFacts ==
  ASSUME QueueInv(calls, queue), NEW c \in Callers, queue # <<>>, Head(queue) = c
  PROVE  /\ InQueue(calls[c])
         /\ \A d \in Callers : d # c => \/ calls[d].at = "queued"
                                      \/ ~InQueue(calls[d])
         /\ MayEnter(calls[c]) => \A d \in Callers : ~Overrules(calls[d])
<1>1. queue \in Seq(Callers) BY DEF QueueInv
<1>2. 1 \in 1 .. Len(queue) /\ queue[1] = c BY <1>1
<1>3. InQueue(calls[c]) BY <1>2 DEF QueueInv
<1>4. ASSUME NEW d \in Callers, d # c, InQueue(calls[d]) PROVE calls[d].at = "queued"
  <2>1. PICK i \in 1 .. Len(queue) : queue[i] = d BY <1>4 DEF QueueInv
  <2> QED BY <2>1, <1>2, <1>4 DEF QueueInv
<1>5. ASSUME MayEnter(calls[c]), NEW d \in Callers, Overrules(calls[d]) PROVE FALSE
  <2>1. InQueue(calls[d]) BY <1>5 DEF Overrules, InQueue
  <2>2. PICK j \in 1 .. Len(queue) : queue[j] = d BY <2>1 DEF QueueInv
  <2>3. j < 1 BY <1>2, <1>5, <2>2 DEF QueueInv
  <2> QED BY <2>2, <2>3, <1>1
<1> QED BY <1>3, <1>4, <1>5

\* The head goes on to its next await.
LEMMA GoesOnInv ==
  ASSUME QueueInv(calls, queue), NEW c \in Callers, queue # <<>>, Head(queue) = c,
         NEW at \in {"queued", "core", "write", "mail", "stop"}, Goto(c, at), UNCHANGED queue
  PROVE  QueueInv(calls', queue')
<1>1. calls \in [Callers -> Call] /\ calls[c] \in Call BY DEF QueueInv
<1> DEFINE x == [calls[c] EXCEPT !.at = at]
<1>2. calls' = [calls EXCEPT ![c] = x] BY DEF Goto
<1>3. x \in Call /\ x.op = calls[c].op /\ x.fenced = calls[c].fenced /\ x.at = at
  BY <1>1 DEF Call
<1>4. InQueue(calls[c]) /\ (MayEnter(calls[c]) => \A d \in Callers : ~Overrules(calls[d]))
  BY HeadFacts
<1> HIDE DEF x
<1>5. /\ InQueue(x)
      /\ Overrules(x) <=> Overrules(calls[c])
      /\ MayEnter(x) <=> MayEnter(calls[c])
  BY <1>3, <1>4 DEF InQueue, Overrules, MayEnter
<1>6. QueueInv([calls EXCEPT ![c] = x], queue) BY <1>3, <1>4, <1>5, MoveInv
<1> QED BY <1>2, <1>6

\* A call that has no place goes on without one.
LEMMA OutsideInv ==
  ASSUME QueueInv(calls, queue), NEW c \in Callers, NEW x \in Call,
         ~InQueue(x), ~InQueue(calls[c]), x.at \in {"idle", "marker", "status", "core"}
  PROVE  QueueInv([calls EXCEPT ![c] = x], queue)
<1> DEFINE xs == [calls EXCEPT ![c] = x]
<1>1. calls \in [Callers -> Call] /\ queue \in Seq(Callers) BY DEF QueueInv
<1>2. xs \in [Callers -> Call] /\ xs[c] = x /\ \A d \in Callers : d # c => xs[d] = calls[d]
  BY <1>1
<1> HIDE DEF xs
<1>3. \A i \in 1 .. Len(queue) : queue[i] \in Callers BY <1>1
<1>4. \A i \in 1 .. Len(queue) : queue[i] # c BY DEF QueueInv
<1>5. \A i \in 1 .. Len(queue) : xs[queue[i]] = calls[queue[i]] BY <1>2, <1>3, <1>4
<1>6. \A d \in Callers : InQueue(xs[d]) <=> \E i \in 1 .. Len(queue) : queue[i] = d
  BY <1>2, <1>4 DEF QueueInv
<1>7. \A i \in 1 .. Len(queue) : i # 1 => xs[queue[i]].at = "queued" BY <1>5 DEF QueueInv
<1>8. \A d \in Callers : ~InQueue(xs[d]) => xs[d].at \in {"idle", "marker", "status", "core"}
  BY <1>2 DEF QueueInv
<1>9. \A i, j \in 1 .. Len(queue) : MayEnter(xs[queue[i]]) /\ Overrules(xs[queue[j]]) => j < i
  BY <1>5 DEF QueueInv
<1>10. \A i, j \in 1 .. Len(queue) : queue[i] = queue[j] => i = j BY DEF QueueInv
<1> QED BY <1>1, <1>2, <1>6, <1>7, <1>8, <1>9, <1>10 DEF QueueInv, xs

LEMMA RequestInv ==
  ASSUME QueueInv(calls, queue), NEW c \in Callers, NEW op \in AllOps, Request(c, op)
  PROVE  QueueInv(calls', queue')
<1>1. calls \in [Callers -> Call] /\ calls[c] = NoCall BY DEF QueueInv, Request
<1>2. CASE op \in {"logout", "clear"}
  <2> DEFINE cs == Fence(calls)
             x  == [NoCall EXCEPT !.op = op, !.at = "queued"]
  <2>1. calls' = [cs EXCEPT ![c] = x] /\ queue' = Append(queue, c)
    BY <1>2 DEF Request, Enqueue
  <2>2. x \in Call /\ InQueue(x) /\ x.at = "queued" BY <1>2 DEF NoCall, Call, InQueue, AllOps, Did
  <2>3. QueueInv(cs, queue) BY FenceInv
  <2>4. cs[c].op = "none" /\ \A d \in Callers : ~MayEnter(cs[d])
    BY <1>1, FenceFacts, NoCallType
  <2>5. ~InQueue(cs[c]) BY <2>4 DEF InQueue
  <2> HIDE DEF cs, x
  <2>6. QueueInv([cs EXCEPT ![c] = x], Append(queue, c)) BY <2>2, <2>3, <2>4, <2>5, AppendInv
  <2> QED BY <2>1, <2>6
<1>3. CASE op \in {"login", "retire"}
  <2> DEFINE x  == [NoCall EXCEPT !.op = op, !.at = "queued"]
  <2>1. calls' = [calls EXCEPT ![c] = x] /\ queue' = Append(queue, c)
    BY <1>3 DEF Request, Enqueue
  <2>2. x \in Call /\ InQueue(x) /\ x.at = "queued" /\ ~Overrules(x)
    BY <1>3 DEF NoCall, Call, InQueue, AllOps, Did, Overrules
  <2>3. ~InQueue(calls[c]) BY <1>1, NoCallType
  <2> HIDE DEF x
  <2>4. QueueInv([calls EXCEPT ![c] = x], Append(queue, c)) BY <2>2, <2>3, AppendInv
  <2> QED BY <2>1, <2>4
<1>4. CASE op \in {"recover", "getSession", "getIdentity", "register"}
  <2> DEFINE x == [NoCall EXCEPT !.op = op, !.at = IF op = "recover" THEN "status" ELSE "marker"]
  <2>1. calls' = [calls EXCEPT ![c] = x] /\ queue' = queue BY <1>4 DEF Request
  <2>2. x \in Call BY <1>4 DEF NoCall, Call, AllOps, Did
  <2>3. ~InQueue(x) /\ x.at \in {"marker", "status"} BY <1>4 DEF InQueue, NoCall
  <2>4. ~InQueue(calls[c]) BY <1>1, NoCallType
  <2> HIDE DEF x
  <2> QED BY <2>1, <2>2, <2>3, <2>4, OutsideInv
<1> QED BY <1>2, <1>3, <1>4 DEF Request

\* The head's call, fenced with the others, goes on.
LEMMA FencedMoveInv ==
  ASSUME QueueInv(calls, queue), NEW c \in Callers, queue # <<>>, Head(queue) = c,
         NEW x \in Call, x.op = calls[c].op, x.at # "status",
         MayEnter(x) => MayEnter(calls[c])
  PROVE  QueueInv([Fence(calls) EXCEPT ![c] = x], queue)
<1> DEFINE fs == Fence(calls)
<1>1. calls \in [Callers -> Call] BY DEF QueueInv
<1>2. fs \in [Callers -> Call] /\ \A d \in Callers : fs[d].op = calls[d].op /\ fs[d].at = calls[d].at
  BY <1>1, FenceFacts
<1>3. QueueInv(fs, queue) BY FenceInv
<1>4. /\ InQueue(calls[c])
      /\ MayEnter(calls[c]) => \A d \in Callers : ~Overrules(calls[d])
  BY HeadFacts
<1> HIDE DEF fs
<1>5. InQueue(x) /\ InQueue(fs[c]) BY <1>2, <1>4 DEF InQueue
<1>6. \A d \in Callers : Overrules(fs[d]) <=> Overrules(calls[d]) BY <1>2 DEF Overrules
<1>7. Overrules(x) <=> Overrules(fs[c]) BY <1>2 DEF Overrules
<1>8. MayEnter(x) => \A d \in Callers : ~Overrules(fs[d]) BY <1>4, <1>6
<1>9. QueueInv([fs EXCEPT ![c] = x], queue) BY <1>3, <1>5, <1>7, <1>8, MoveInv
<1> QED BY <1>9 DEF fs

LEMMA ReturnsInv ==
  ASSUME QueueInv(calls, queue), NEW c \in Callers,
         Return(c, calls) \/ Return(c, Fence(calls)) \/ Return(c, Beside(calls)),
         (queue # <<>> /\ Head(queue) = c) \/ ~InQueue(calls[c])
  PROVE  QueueInv(calls', queue')
<1>1. CASE Return(c, calls) BY <1>1, ReturnInv
<1>2. CASE Return(c, Fence(calls))
  <2>1. QueueInv(Fence(calls), queue) BY FenceInv
  <2>2. Fence(calls)[c].op = calls[c].op /\ Fence(calls)[c].at = calls[c].at
    BY FenceFacts DEF QueueInv
  <2>3. InQueue(Fence(calls)[c]) <=> InQueue(calls[c]) BY <2>2 DEF InQueue
  <2> QED BY <1>2, <2>1, <2>3, ReturnInv
<1>3. CASE Return(c, Beside(calls))
  <2>1. QueueInv(Beside(calls), queue) BY BesideInv
  <2>2. Beside(calls)[c].op = calls[c].op /\ Beside(calls)[c].at = calls[c].at
    BY BesideFacts DEF QueueInv
  <2>3. InQueue(Beside(calls)[c]) <=> InQueue(calls[c]) BY <2>2 DEF InQueue
  <2> QED BY <1>3, <2>1, <2>3, ReturnInv
<1> QED BY <1>1, <1>2, <1>3

LEMMA ReadsInv ==
  ASSUME QueueInv(calls, queue), NEW c \in Callers,
         ReadChecks(c) \/ ReadFails(c) \/ GetSession(c) \/ GetIdentity(c) \/ Register(c)
  PROVE  QueueInv(calls', queue')
<1>1. ~InQueue(calls[c])
  BY DEF ReadChecks, ReadFails, GetSession, GetIdentity, Register, At, InQueue
<1>2. CASE Return(c, calls) \/ Return(c, Beside(calls)) BY <1>1, <1>2, ReturnsInv
<1>3. CASE Goto(c, "core") /\ UNCHANGED queue
  <2> DEFINE x == [calls[c] EXCEPT !.at = "core"]
  <2>1. calls[c] \in Call BY DEF QueueInv
  <2>2. x \in Call /\ x.op = calls[c].op /\ x.at = "core" BY <2>1 DEF Call
  <2>3. calls' = [calls EXCEPT ![c] = x] BY <1>3 DEF Goto
  <2> HIDE DEF x
  <2>4. CASE ~InQueue(x) BY <2>2, <2>3, <2>4, <1>1, <1>3, OutsideInv
  <2>5. CASE InQueue(x)
    <3>1. calls[c].op \in {"getSession", "getIdentity", "register"}
      BY <1>1, <1>3, <2>2, <2>3, <2>5
      DEF ReadChecks, ReadFails, GetSession, GetIdentity, Register, At, InQueue
    <3> QED BY <3>1, <2>2, <2>5 DEF InQueue
  <2> QED BY <2>4, <2>5
<1> QED BY <1>2, <1>3 DEF ReadChecks, ReadFails, GetSession, GetIdentity, Register

LEMMA LogoutLoginInv ==
  ASSUME QueueInv(calls, queue), identity \in Did, NEW c \in Callers,
         \/ LogoutChecks(c) \/ Logout(c) \/ LogoutFails(c)
         \/ LoginChecks(c) \/ Login(c) \/ SignInFails(c)
  PROVE  QueueInv(calls', queue')
<1>1. queue # <<>> /\ Head(queue) = c
  BY DEF LogoutChecks, Logout, LogoutFails, LoginChecks, Login, SignInFails, Turn
<1>2. calls \in [Callers -> Call] /\ calls[c] \in Call BY DEF QueueInv
<1>3. CASE Return(c, calls) \/ Return(c, Fence(calls)) BY <1>1, <1>3, ReturnsInv
<1>4. CASE Goto(c, "write") /\ UNCHANGED queue BY <1>1, <1>4, GoesOnInv
<1>5. CASE Logout(c)
  <2> DEFINE fs == Fence(calls)
             x  == [fs[c] EXCEPT !.at = "stop"]
  <2>1. fs \in [Callers -> Call] /\ fs[c].op = calls[c].op BY <1>2, FenceFacts
  <2>2. calls' = [fs EXCEPT ![c] = x] /\ queue' = queue /\ calls[c].op = "logout"
    BY <1>5 DEF Logout, Turn, At
  <2>3. fs[c] \in Call BY <2>1
  <2> HIDE DEF fs
  <2>4. x \in Call /\ x.op = fs[c].op /\ x.at = "stop" BY <2>3 DEF Call
  <2> HIDE DEF x
  <2>5. x.op = calls[c].op /\ ~MayEnter(x) /\ x.at # "status" BY <2>1, <2>2, <2>4 DEF MayEnter
  <2>6. QueueInv([Fence(calls) EXCEPT ![c] = x], queue) BY <1>1, <2>4, <2>5, FencedMoveInv
  <2> QED BY <2>2, <2>6 DEF fs
<1>6. CASE LoginChecks(c) /\ calls' = [calls EXCEPT ![c].at = "write", ![c].did = identity]
           /\ UNCHANGED queue
  <2> DEFINE x == [calls[c] EXCEPT !.at = "write", !.did = identity]
  <2>1. calls' = [calls EXCEPT ![c] = x] /\ calls[c].op = "login"
    BY <1>2, <1>6 DEF LoginChecks, Turn, At
  <2>2. x \in Call /\ x.op = "login" BY <1>2, <2>1 DEF Call
  <2> HIDE DEF x
  <2>3. /\ InQueue(x) /\ InQueue(calls[c])
        /\ ~Overrules(x) /\ ~Overrules(calls[c]) /\ ~MayEnter(x)
    BY <2>1, <2>2 DEF InQueue, Overrules, MayEnter
  <2>4. QueueInv([calls EXCEPT ![c] = x], queue) BY <1>1, <2>2, <2>3, MoveInv
  <2> QED BY <1>6, <2>1, <2>4
<1> QED BY <1>3, <1>4, <1>5, <1>6 DEF LogoutChecks, LogoutFails, LoginChecks, Login, SignInFails

LEMMA RecoverInv ==
  ASSUME QueueInv(calls, queue), identity \in Did, NEW c \in Callers,
         \/ RecoverStarts(c) \/ RecoverChecks(c) \/ RecoverMatches(c)
         \/ RecoverEnters(c) \/ RecoverPublishes(c)
  PROVE  QueueInv(calls', queue')
<1>1. calls \in [Callers -> Call] /\ calls[c] \in Call /\ calls[c].op = "recover"
  BY DEF QueueInv, RecoverStarts, RecoverChecks, RecoverMatches, RecoverEnters, RecoverPublishes,
         Turn, At
<1>2. CASE RecoverStarts(c)
  <2>1. ~InQueue(calls[c]) BY <1>2 DEF RecoverStarts, At, InQueue
  <2>2. CASE Return(c, calls) BY <2>1, <2>2, ReturnsInv
  <2>3. CASE /\ calls' = [calls EXCEPT ![c].at = "queued", ![c].did = identity]
             /\ queue' = Append(queue, c)
    <3> DEFINE x == [calls[c] EXCEPT !.at = "queued", !.did = identity]
    <3>1. calls' = [calls EXCEPT ![c] = x] BY <1>1, <2>3
    <3>2. x \in Call /\ x.op = "recover" /\ x.at = "queued" BY <1>1 DEF Call
    <3> HIDE DEF x
    <3>3. InQueue(x) /\ ~Overrules(x) BY <3>2 DEF InQueue, Overrules
    <3>4. QueueInv([calls EXCEPT ![c] = x], Append(queue, c))
      BY <2>1, <3>2, <3>3, AppendInv
    <3> QED BY <2>3, <3>1, <3>4
  <2> QED BY <1>2, <2>2, <2>3 DEF RecoverStarts
<1> SUFFICES ASSUME ~RecoverStarts(c) PROVE QueueInv(calls', queue')
  BY <1>2
<1>3. queue # <<>> /\ Head(queue) = c
  BY DEF RecoverChecks, RecoverMatches, RecoverEnters, RecoverPublishes, Turn
<1>4. /\ InQueue(calls[c])
      /\ MayEnter(calls[c]) => \A d \in Callers : ~Overrules(calls[d])
  BY <1>3, HeadFacts
<1>5. CASE Return(c, calls) BY <1>3, <1>5, ReturnsInv
<1>6. CASE Goto(c, "core") /\ UNCHANGED queue BY <1>3, <1>6, GoesOnInv
<1>7. CASE RecoverMatches(c) /\ ~Return(c, calls)
  <2> DEFINE active == signedOut = "in" /\ activeDid = identity
             x == [calls[c] EXCEPT !.active = active, !.at = IF active THEN "mail" ELSE "write"]
  <2>1. calls' = [calls EXCEPT ![c] = x] /\ queue' = queue
    BY <1>1, <1>7 DEF RecoverMatches
  <2>2. x \in Call /\ x.op = "recover" /\ x.fenced = calls[c].fenced
        /\ x.at \in {"mail", "write"}
    BY <1>1 DEF Call
  <2> HIDE DEF x
  <2>3. InQueue(x) /\ ~Overrules(x) /\ ~Overrules(calls[c]) /\ (MayEnter(x) => MayEnter(calls[c]))
    BY <1>1, <2>2 DEF InQueue, Overrules, MayEnter
  <2>4. QueueInv([calls EXCEPT ![c] = x], queue) BY <1>3, <1>4, <2>2, <2>3, MoveInv
  <2> QED BY <2>1, <2>4
<1>8. CASE RecoverEnters(c) /\ ~Return(c, calls)
  <2> DEFINE fs == Fence(calls)
             x  == [fs[c] EXCEPT !.fenced = FALSE, !.at = "mail"]
  <2>1. fs \in [Callers -> Call] /\ fs[c] \in Call /\ fs[c].op = "recover"
    BY <1>1, FenceFacts
  <2>2. calls' = [fs EXCEPT ![c] = x] /\ queue' = queue /\ ~calls[c].fenced
    BY <1>8, <2>1 DEF RecoverEnters
  <2> HIDE DEF fs
  <2>3. x \in Call /\ x.op = "recover" /\ x.at = "mail" BY <2>1 DEF Call
  <2> HIDE DEF x
  <2>4. MayEnter(x) => MayEnter(calls[c]) BY <1>1, <2>2 DEF MayEnter
  <2>5. QueueInv([Fence(calls) EXCEPT ![c] = x], queue)
    BY <1>1, <1>3, <2>3, <2>4, FencedMoveInv
  <2> QED BY <2>2, <2>5 DEF fs
<1> QED BY <1>5, <1>6, <1>7, <1>8
  DEF RecoverChecks, RecoverMatches, RecoverEnters, RecoverPublishes

LEMMA ClearInv ==
  ASSUME QueueInv(calls, queue), NEW c \in Callers,
         \/ StopFirst(c) \/ StopEnds(c) \/ StopFails(c)
         \/ CoreClears(c) \/ CoreClearFails(c) \/ Cleared(c)
  PROVE  QueueInv(calls', queue')
<1>1. queue # <<>> /\ Head(queue) = c
  BY DEF StopFirst, StopEnds, StopFails, CoreClears, CoreClearFails, Cleared, Turn
<1>2. CASE Return(c, calls) \/ Return(c, Fence(calls)) BY <1>1, <1>2, ReturnsInv
<1>3. CASE Goto(c, "core") /\ UNCHANGED queue BY <1>1, <1>3, GoesOnInv
<1>4. CASE Goto(c, "write") /\ UNCHANGED queue BY <1>1, <1>4, GoesOnInv
<1>5. CASE Goto(c, "stop") /\ UNCHANGED queue BY <1>1, <1>5, GoesOnInv
<1> QED BY <1>2, <1>3, <1>4, <1>5 DEF StopFirst, StopEnds, StopFails, CoreClears, CoreClearFails, Cleared

LEMMA CallStepInv ==
  ASSUME QueueInv(calls, queue), identity \in Did, NEW c \in Callers, CallStep(c)
  PROVE  QueueInv(calls', queue')
BY ReadsInv, LogoutLoginInv, RecoverInv, ClearInv DEF CallStep

-----------------------------------------------------------------------------
(* The types. *)

SessionEvent == [status : {"none", "signed-out", "unregistered", "active"}, did : Did]

FullInv == SessionInv /\ published \in SessionEvent

LEMMA SessionTypes ==
  /\ \A status \in {"none", "signed-out", "unregistered", "active"} : Session(status) \in SessionEvent
  /\ \A did \in Did : Active(did) \in SessionEvent
BY DEF Session, Active, SessionEvent, Did

\* What the steps that leave the runtime alone may do to the account.
LEMMA AccountStepTypes ==
  ASSUME RuntimeInv, published \in SessionEvent, NEW c \in Callers,
         calls \in [Callers -> Call],
         \/ ReadChecks(c) \/ ReadFails(c) \/ GetIdentity(c) \/ LogoutChecks(c) \/ LogoutFails(c)
         \/ LoginChecks(c) \/ SignInFails(c) \/ RecoverStarts(c) \/ RecoverChecks(c)
         \/ RecoverMatches(c) \/ RecoverEnters(c) \/ CoreClears(c) \/ Cleared(c)
  PROVE  RuntimeInv' /\ published' \in SessionEvent
<1>1. /\ identity \in Did /\ activeDid \in Did /\ None \in Did /\ restricted \in BOOLEAN
      /\ marker \in BOOLEAN /\ signedOut \in {"unknown", "out", "in"}
      /\ IsSignedOut \in {"unknown", "out", "in"}
  BY RuntimeTypes DEF IsSignedOut, Did
<1>2. calls[c].did \in Did BY DEF Call
<1>3. UNCHANGED runtime
  BY DEF ReadChecks, ReadFails, GetIdentity, LogoutChecks, LogoutFails, LoginChecks, SignInFails,
         RecoverStarts, RecoverChecks, RecoverMatches, RecoverEnters, CoreClears, Cleared,
         runtimeVars, runtime
<1>4. RuntimeTyped BY <1>3, RuntimeTypes DEF runtime, RuntimeTyped
<1>5. restricted' \in BOOLEAN
  BY <1>1 DEF ReadChecks, ReadFails, GetIdentity, LogoutChecks, LogoutFails, LoginChecks, SignInFails,
         RecoverStarts, RecoverChecks, RecoverMatches, RecoverEnters, CoreClears, Cleared, runtimeVars
<1>6. /\ identity' \in Did /\ activeDid' \in Did /\ marker' \in BOOLEAN
      /\ signedOut' \in {"unknown", "out", "in"}
  BY <1>1, <1>2
  DEF ReadChecks, ReadFails, GetIdentity, LogoutChecks, LogoutFails, LoginChecks, SignInFails,
      RecoverStarts, RecoverChecks, RecoverMatches, RecoverEnters, CoreClears, Cleared,
      runtimeVars, account
<1>7. published' \in SessionEvent
  BY SessionTypes
  DEF ReadChecks, ReadFails, GetIdentity, LogoutChecks, LogoutFails, LoginChecks, SignInFails,
      RecoverStarts, RecoverChecks, RecoverMatches, RecoverEnters, CoreClears, Cleared
<1> QED BY <1>4, <1>5, <1>6, <1>7, RuntimeTypesNext

\* The steps that start or stop the runtime.
LEMMA RuntimeCallTypes ==
  ASSUME RuntimeInv, published \in SessionEvent, NEW c \in Callers,
         calls \in [Callers -> Call],
         \/ GetSession(c) \/ Register(c) \/ Logout(c) \/ Login(c) \/ RecoverPublishes(c)
         \/ StopFirst(c) \/ StopEnds(c) \/ StopFails(c) \/ CoreClearFails(c)
  PROVE  RuntimeInv' /\ published' \in SessionEvent
<1>1. /\ identity \in Did /\ activeDid \in Did /\ None \in Did /\ restricted \in BOOLEAN
      /\ marker \in BOOLEAN /\ signedOut \in {"unknown", "out", "in"}
  BY RuntimeTypes DEF Did
<1>2. calls[c].did \in Did /\ "mutation" \in Owners BY DEF Call, Owners
<1>3. CASE GetSession(c)
  <2>1. CASE UNCHANGED runtime
    BY <1>1, <1>3, <2>1, RuntimeTypes, RuntimeTypesNext DEF GetSession, runtime, RuntimeTyped
  <2>2. CASE EnsureRuntime(identity, signedOut, restricted)
    BY <1>1, <1>3, <2>2, EnsureRuntimeTypes, RuntimeTypesNext DEF GetSession
  <2> QED BY <1>3, <2>1, <2>2 DEF GetSession
<1>4. CASE Register(c)
  <2>1. identity' \in Did BY <1>4 DEF Register, Did
  <2>2. RuntimeTyped BY <1>1, <1>4, <2>1, EnsureRuntimeTypes DEF Register
  <2> QED BY <1>1, <1>4, <2>1, <2>2, SessionTypes, RuntimeTypesNext DEF Register
<1>5. CASE Logout(c)
  <2>1. RuntimeTyped BY <1>2, <1>5, BeginStopTypes, RuntimeTypes DEF Logout, RuntimeTyped
  <2> QED BY <1>1, <1>5, <2>1, SessionTypes, RuntimeTypesNext DEF Logout
<1>6. CASE Login(c)
  <2>1. activeDid' = calls[c].did /\ EnsureRuntime(calls[c].did, "in", restricted)
    BY <1>6 DEF Login
  <2>2. RuntimeTyped BY <1>1, <1>2, <2>1, EnsureRuntimeTypes
  <2> QED BY <1>1, <1>2, <1>6, <2>1, <2>2, SessionTypes, RuntimeTypesNext DEF Login
<1>7. CASE RecoverPublishes(c)
  <2>1. RuntimeTyped
    <3>1. CASE UNCHANGED runtime BY <3>1, RuntimeTypes DEF runtime, RuntimeTyped
    <3>2. CASE EnsureRuntime(activeDid, signedOut, restricted)
      BY <3>2, <1>1, EnsureRuntimeTypes
    <3> QED BY <1>7, <3>1, <3>2 DEF RecoverPublishes
  <2>2. published' \in SessionEvent BY <1>2, <1>7, SessionTypes DEF RecoverPublishes
  <2> QED BY <1>1, <1>7, <2>1, <2>2, RuntimeTypesNext DEF RecoverPublishes, account
<1>8. CASE StopFirst(c)
  <2>1. RuntimeTyped BY <1>2, <1>8, BeginStopTypes, RuntimeTypes DEF StopFirst, RuntimeTyped
  <2> QED BY <1>1, <1>8, <2>1, RuntimeTypesNext DEF StopFirst, account
<1>9. CASE StopEnds(c) \/ StopFails(c)
  <2>1. stopping \in Stopping BY RuntimeTypes
  <2>2. stopping' \in Stopping BY <1>2, <1>9, <2>1, StopOverTypes DEF StopEnds, StopFails
  <2>3. RuntimeTyped BY <1>9, <2>2, RuntimeTypes DEF StopEnds, StopFails, RuntimeTyped
  <2> QED BY <1>1, <1>9, <2>3, RuntimeTypesNext DEF StopEnds, StopFails, account
<1>10. CASE CoreClearFails(c)
  <2>1. RuntimeTyped BY <1>1, <1>10, EnsureRuntimeTypes DEF CoreClearFails
  <2> QED BY <1>1, <1>10, <2>1, RuntimeTypesNext DEF CoreClearFails, account
<1> QED BY <1>3, <1>4, <1>5, <1>6, <1>7, <1>8, <1>9, <1>10

LEMMA SessionInit == Init => FullInv
<1> SUFFICES ASSUME Init PROVE FullInv OBVIOUS
<1>1. RuntimeInv
  BY FreshTypes, RuntimeTypes DEF Init, FreshRuntime
<1>2. calls \in [Callers -> Call] /\ \A c \in Callers : calls[c] = NoCall
  BY NoCallType DEF Init
<1>3. queue = <<>> /\ queue \in Seq(Callers) /\ 1 .. Len(queue) = {} BY DEF Init
<1>4. QueueInv(calls, queue) BY <1>2, <1>3, NoCallType DEF QueueInv
<1> QED BY <1>1, <1>4, SessionTypes DEF Init, FullInv, SessionInv

LEMMA SessionStep == FullInv /\ [Next]_vars => FullInv'
<1> SUFFICES ASSUME FullInv, [Next]_vars PROVE FullInv' OBVIOUS
<1>1. /\ RuntimeInv /\ QueueInv(calls, queue) /\ published \in SessionEvent
      /\ calls \in [Callers -> Call] /\ identity \in Did
  BY RuntimeTypes DEF FullInv, SessionInv, QueueInv
<1> USE DEF FullInv, SessionInv
<1>2. ASSUME NEW c \in Callers, CallStep(c) PROVE FullInv'
  <2>1. RuntimeInv' /\ published' \in SessionEvent
    BY <1>1, <1>2, AccountStepTypes, RuntimeCallTypes DEF CallStep
  <2> QED BY <1>1, <1>2, <2>1, CallStepInv
<1>3. ASSUME NEW c \in Callers, NEW op \in Ops, Request(c, op) PROVE FullInv'
  <2>1. op \in AllOps BY OpsAssumption
  <2>2. QueueInv(calls', queue') BY <1>1, <1>3, <2>1, RequestInv
  <2>3. RuntimeInv' /\ published' = published
    BY <1>1, <1>3 DEF Request, runtimeVars, account, runtime, RuntimeInv, RuntimeTypeOK, CleanupShape
  <2> QED BY <1>1, <2>2, <2>3
<1>4. CASE Runtime
  <2>1. RuntimeStep /\ UNCHANGED <<queue, published>>
        /\ (calls' = calls \/ calls' = Beside(calls))
    BY <1>4 DEF Runtime, Beneath
  <2>2. QueueInv(calls', queue') BY <1>1, <2>1, BesideInv
  <2> QED BY <1>1, <2>1, <2>2, RuntimeStepTypes
<1>5. CASE CoreRecovers
  <2>1. /\ identity' \in Did /\ RuntimeTyped
        /\ UNCHANGED <<marker, signedOut, activeDid, restricted, calls, queue, published>>
    BY <1>1, <1>5, RuntimeTypes DEF CoreRecovers, Did, runtime, RuntimeTyped
  <2> QED BY <1>1, <2>1, RuntimeTypes, RuntimeTypesNext
<1>6. CASE Restart
  <2>1. /\ RuntimeTyped /\ signedOut' \in {"unknown", "out", "in"} /\ activeDid' \in Did
        /\ UNCHANGED <<identity, marker, restricted>>
    BY <1>6, FreshTypes DEF Restart, RuntimeTyped
  <2>2. RuntimeInv' BY <1>1, <2>1, RuntimeTypes, RuntimeTypesNext
  <2>3. calls' \in [Callers -> Call] /\ \A c \in Callers : calls'[c] = NoCall
    BY <1>6, NoCallType DEF Restart
  <2>4. queue' = <<>> /\ queue' \in Seq(Callers) /\ 1 .. Len(queue') = {} BY <1>6 DEF Restart
  <2>5. QueueInv(calls', queue') BY <2>3, <2>4, NoCallType DEF QueueInv
  <2> QED BY <1>6, <2>2, <2>5, SessionTypes DEF Restart
<1>7. CASE UNCHANGED vars
  BY <1>1, <1>7
  DEF vars, runtimeVars, account, runtime, RuntimeInv, RuntimeTypeOK, CleanupShape, QueueInv
<1> QED BY <1>2, <1>3, <1>4, <1>5, <1>6, <1>7 DEF Next

LEMMA SessionInvariance == Spec => []FullInv
BY SessionInit, SessionStep, PTL DEF Spec

-----------------------------------------------------------------------------
(* The theorems. *)

\* The account, the runtime of its provider, the calls and their queue keep their type: in
\* particular every continuation of a stop is one of an owner that is there.
THEOREM TypeCorrect == Spec => []TypeOK
<1>1. FullInv => TypeOK
  BY DEF FullInv, SessionInv, RuntimeInv, QueueInv, SessionEvent, TypeOK
<1> QED BY <1>1, SessionInvariance, PTL

\* A recovered session is entered, or told to the clients, by a recovery at the head that no
\* revision has fenced.
LEMMA OnlyUnfencedEnter ==
  ASSUME FullInv, [Next]_vars, NEW c \in Callers, calls[c].op = "recover",
         queue # <<>>, Head(queue) = c, calls'[c] # calls[c],
         \/ signedOut # "in" /\ signedOut' = "in"
         \/ published' # published /\ published'.status = "active"
  PROVE  ~calls[c].fenced
<1>1. calls \in [Callers -> Call] BY DEF FullInv, SessionInv, QueueInv
<1>2. CASE CallStep(c)
  <2>1. SignInFails(c) \/ RecoverStarts(c) \/ RecoverChecks(c) \/ RecoverMatches(c)
          \/ RecoverEnters(c) \/ RecoverPublishes(c)
    BY <1>2
    DEF CallStep, ReadChecks, ReadFails, GetSession, GetIdentity, Register, LogoutChecks, Logout,
        LogoutFails, LoginChecks, Login, StopFirst, StopEnds, StopFails, CoreClears, CoreClearFails, Cleared,
        Turn, At
  <2> QED BY <2>1
    DEF SignInFails, RecoverStarts, RecoverChecks, RecoverMatches, RecoverEnters, RecoverPublishes,
        runtimeVars, account
<1>3. ASSUME NEW d \in Callers, d # c, CallStep(d) PROVE FALSE
  <2>1. ~(queue # <<>> /\ Head(queue) = d) BY <1>3
  <2>2. calls'[c] = calls[c]
    <3>1. ReadChecks(d) \/ ReadFails(d) \/ GetSession(d) \/ GetIdentity(d) \/ Register(d)
            \/ RecoverStarts(d)
      BY <1>3, <2>1
      DEF CallStep, LogoutChecks, Logout, LogoutFails, LoginChecks, Login, SignInFails,
          RecoverChecks, RecoverMatches, RecoverEnters, RecoverPublishes, StopFirst, StopEnds, StopFails,
          CoreClears, CoreClearFails, Cleared, Turn
    <3> QED BY <1>1, <1>3, <3>1, BesideFacts
      DEF ReadChecks, ReadFails, GetSession, GetIdentity, Register, RecoverStarts, Return, Goto
  <2> QED BY <2>2
<1>4. ASSUME NEW d \in Callers, NEW op \in Ops, Request(d, op) PROVE FALSE
  BY <1>4 DEF Request, runtimeVars, account
<1>5. ~Runtime /\ ~CoreRecovers BY <1>1, BesideFacts DEF Runtime, Beneath, CoreRecovers
<1>6. CASE Restart BY <1>6 DEF Restart, Session
<1>7. CASE UNCHANGED vars BY <1>7 DEF vars
<1> QED BY <1>2, <1>3, <1>4, <1>5, <1>6, <1>7 DEF Next

\* A recovered session is not entered, nor told to the clients, once a sign-out or a clear
\* waits behind the recovery: its request has fenced every recovery that came before it.
THEOREM RecoveryYieldsAlways == Spec => RecoveryYields
<1>1. FullInv /\ [Next]_vars =>
        [\A c \in Callers :
           calls[c].op = "recover" /\ queue # <<>> /\ Head(queue) = c /\ calls'[c] # calls[c]
             /\ \/ signedOut # "in" /\ signedOut' = "in"
                \/ published' # published /\ published'.status = "active"
           => \A d \in Callers : calls[d].op \notin {"logout", "clear"}]_vars
  BY OnlyUnfencedEnter, HeadFacts DEF FullInv, SessionInv, MayEnter, Overrules
<1> QED BY <1>1, SessionInvariance, PTL DEF Spec, RecoveryYields

\* The operations in flight are those the callers make.
OpsInv == \A c \in Callers : calls[c].op \in Ops \cup {"none"}

\* A step of a call changes what no other call does, nor where it is.
LEMMA CallStepOps ==
  ASSUME calls \in [Callers -> Call], NEW c \in Callers, CallStep(c)
  PROVE  /\ \A d \in Callers : d # c => calls'[d].op = calls[d].op /\ calls'[d].at = calls[d].at
         /\ calls'[c] = NoCall \/ calls'[c].op = calls[c].op
<1> DEFINE fs == Fence(calls)
           Others == \A d \in Callers : d # c => /\ calls'[d].op = calls[d].op
                                                /\ calls'[d].at = calls[d].at
           Same == calls'[c] = NoCall \/ calls'[c].op = calls[c].op
<1>1. /\ fs \in [Callers -> Call]
      /\ \A d \in Callers : fs[d].op = calls[d].op /\ fs[d].at = calls[d].at
  BY FenceFacts
<1> HIDE DEF fs
<1>2. ASSUME Return(c, calls) PROVE Others /\ Same BY <1>2 DEF Return
<1>3. ASSUME Return(c, fs) PROVE Others /\ Same BY <1>1, <1>3 DEF Return
<1>10. ASSUME Return(c, Beside(calls)) PROVE Others /\ Same BY <1>10, BesideFacts DEF Return
<1>4. ASSUME NEW at, Goto(c, at) PROVE Others /\ Same BY <1>4 DEF Goto, Call
<1>5. ASSUME calls' = [fs EXCEPT ![c].at = "stop"] PROVE Others /\ Same BY <1>1, <1>5 DEF Call
<1>6. ASSUME NEW at, NEW did, calls' = [calls EXCEPT ![c].at = at, ![c].did = did]
      PROVE  Others /\ Same
  BY <1>6 DEF Call
<1>7. ASSUME NEW at, NEW active, calls' = [calls EXCEPT ![c].active = active, ![c].at = at]
      PROVE  Others /\ Same
  BY <1>7 DEF Call
<1>8. ASSUME calls' = [fs EXCEPT ![c].fenced = FALSE, ![c].at = "mail"] PROVE Others /\ Same
  BY <1>1, <1>8 DEF Call
<1> HIDE DEF Others, Same
<1>9. Others /\ Same
  BY <1>2, <1>3, <1>4, <1>5, <1>6, <1>7, <1>8, <1>10
  DEF CallStep, ReadChecks, ReadFails, GetSession, GetIdentity, Register, LogoutChecks, Logout,
      LogoutFails, LoginChecks, Login, SignInFails, RecoverStarts, RecoverChecks, RecoverMatches,
      RecoverEnters, RecoverPublishes, StopFirst, StopEnds, StopFails, CoreClears, CoreClearFails, Cleared, fs
<1> QED BY <1>9 DEF Others, Same

\* A request starts a call of its operation, and no other call moves.
LEMMA RequestOps ==
  ASSUME calls \in [Callers -> Call], NEW c \in Callers, NEW op, Request(c, op)
  PROVE  /\ \A d \in Callers : d # c => calls'[d].op = calls[d].op /\ calls'[d].at = calls[d].at
         /\ calls'[c].op = op /\ calls'[c].at \in {"queued", "status", "marker"}
<1> DEFINE fs == Fence(calls)
<1>1. /\ fs \in [Callers -> Call]
      /\ \A d \in Callers : fs[d].op = calls[d].op /\ fs[d].at = calls[d].at
  BY FenceFacts
<1>2. PICK x : /\ x.op = op /\ x.at \in {"queued", "status", "marker"}
               /\ calls' = [fs EXCEPT ![c] = x] \/ calls' = [calls EXCEPT ![c] = x]
  BY DEF Request, Enqueue, NoCall
<1> HIDE DEF fs
<1> QED BY <1>1, <1>2

LEMMA OpsStep == FullInv /\ OpsInv /\ [Next]_vars => OpsInv'
<1> SUFFICES ASSUME FullInv, OpsInv, [Next]_vars PROVE OpsInv' OBVIOUS
<1>1. calls \in [Callers -> Call] /\ NoCall.op = "none"
  BY NoCallType DEF FullInv, SessionInv, QueueInv
<1>2. ASSUME NEW c \in Callers, CallStep(c) PROVE OpsInv'
  BY <1>1, <1>2, CallStepOps DEF OpsInv
<1>3. ASSUME NEW c \in Callers, NEW op \in Ops, Request(c, op) PROVE OpsInv'
  BY <1>1, <1>3, RequestOps DEF OpsInv
<1>4. CASE calls' = calls \/ calls' = Beside(calls) BY <1>1, <1>4, BesideFacts DEF OpsInv
<1>5. CASE Restart BY <1>1, <1>5 DEF Restart, OpsInv
<1> QED BY <1>2, <1>3, <1>4, <1>5 DEF Next, Runtime, Beneath, CoreRecovers, vars

\* Without recoveries, the flag in memory is not ahead of the file.
LEMMA MarkedStep ==
  ASSUME "recover" \notin Ops
  PROVE  FullInv /\ OpsInv /\ OutIsMarked /\ [Next]_vars => OutIsMarked'
<1> SUFFICES ASSUME FullInv, OpsInv, OutIsMarked, [Next]_vars PROVE OutIsMarked' OBVIOUS
<1>1. ASSUME NEW c \in Callers, CallStep(c) PROVE OutIsMarked'
  <2>1. ~RecoverStarts(c) /\ ~RecoverChecks(c) /\ ~RecoverMatches(c) /\ ~RecoverEnters(c)
          /\ ~RecoverPublishes(c)
    BY DEF OpsInv, RecoverStarts, RecoverChecks, RecoverMatches, RecoverEnters, RecoverPublishes,
           Turn, At
  <2> QED BY <1>1, <2>1
    DEF OutIsMarked, IsSignedOut, CallStep, ReadChecks, ReadFails, GetSession, GetIdentity,
        Register, LogoutChecks, Logout, LogoutFails, LoginChecks, Login, SignInFails, StopFirst,
        StopEnds, StopFails, CoreClears, CoreClearFails, Cleared, runtimeVars, account
<1>2. ASSUME NEW c \in Callers, NEW op \in Ops, Request(c, op) PROVE OutIsMarked'
  BY <1>2 DEF Request, OutIsMarked, runtimeVars, account
<1>3. CASE Runtime
  BY <1>3
  DEF Runtime, Beneath, RuntimeStep, RealtimeTask, ConsumerTask, StartupReadsMarker, StartupOpens,
      StartupEnds, ConsumerReplaces, ConsumerReady, SupervisorDisposed, ConsumerDisposed, ConsumerFails,
      Replaced, Synchronized, account, OutIsMarked, IsSignedOut
<1>4. CASE CoreRecovers BY <1>4 DEF CoreRecovers
<1>5. CASE Restart BY <1>5 DEF Restart, OutIsMarked
<1>6. CASE UNCHANGED vars BY <1>6 DEF vars, runtimeVars, account, OutIsMarked
<1> QED BY <1>1, <1>2, <1>3, <1>4, <1>5, <1>6 DEF Next

LEMMA OpsInvariance == Spec => [](FullInv /\ OpsInv)
<1>1. Init => OpsInv BY NoCallType DEF Init, OpsInv
<1> QED BY <1>1, OpsStep, SessionInvariance, PTL DEF Spec

\* Where no recovery runs, an account signed out in memory is marked on disk.  With one it is
\* not: a fenced recovery removes the marker and leaves the flag.
THEOREM SignOutPersists ==
  ASSUME "recover" \notin Ops
  PROVE  Spec => []SignOutIsDurable
<1>1. Init => OutIsMarked BY DEF Init, FreshRuntime, OutIsMarked
<1>2. OutIsMarked => SignOutIsDurable BY DEF OutIsMarked, SignOutIsDurable
<1>3. FullInv /\ OpsInv /\ OutIsMarked /\ [Next]_vars => OutIsMarked' BY MarkedStep
<1> QED BY <1>1, <1>2, <1>3, OpsInvariance, PTL DEF Spec

-----------------------------------------------------------------------------
(* The head alone stops the runtime. *)

StopsRuntime(call) == call.at = "stop"
ClearsCore(call) == call.op \in {"clear", "retire"} /\ call.at \in {"core", "write"}

SomeStops(cs) == \E c \in Callers : StopsRuntime(cs[c])
Clears(cs) == \E c \in Callers : ClearsCore(cs[c])

\* The head alone stops the runtime or clears.
LEMMA HeadAlone ==
  ASSUME QueueInv(calls, queue), NEW c \in Callers, queue # <<>>, Head(queue) = c
  PROVE  /\ \A d \in Callers : d # c => ~StopsRuntime(calls[d]) /\ ~ClearsCore(calls[d])
         /\ SomeStops(calls) <=> StopsRuntime(calls[c])
         /\ Clears(calls) <=> ClearsCore(calls[c])
<1>1. ASSUME NEW d \in Callers, d # c PROVE ~StopsRuntime(calls[d]) /\ ~ClearsCore(calls[d])
  <2>1. CASE calls[d].at = "queued" BY <2>1 DEF StopsRuntime, ClearsCore
  <2>2. CASE ~InQueue(calls[d])
    <3>1. calls[d].at \in {"idle", "marker", "status", "core"} BY <2>2 DEF QueueInv
    <3> QED BY <2>2, <3>1 DEF StopsRuntime, ClearsCore, InQueue
  <2> QED BY <1>1, <2>1, <2>2, HeadFacts
<1> QED BY <1>1 DEF SomeStops, Clears

\* A step of the head, on who stops and who clears.
LEMMA HeadMoves ==
  ASSUME QueueInv(calls, queue), NEW c \in Callers, queue # <<>>, Head(queue) = c, CallStep(c)
  PROVE  /\ SomeStops(calls') <=> StopsRuntime(calls'[c])
         /\ Clears(calls') <=> ClearsCore(calls'[c])
<1>1. calls \in [Callers -> Call] BY DEF QueueInv
<1>2. \A d \in Callers : d # c => /\ calls'[d].op = calls[d].op /\ calls'[d].at = calls[d].at
                                 /\ ~StopsRuntime(calls[d]) /\ ~ClearsCore(calls[d])
  BY <1>1, CallStepOps, HeadAlone
<1> QED BY <1>2 DEF SomeStops, Clears, StopsRuntime, ClearsCore

-----------------------------------------------------------------------------
(* Nothing waits for ever: any callers, identities and operations. *)

\* The awaits of each operation.
Placed(call) ==
  \/ call.op = "none" /\ call.at = "idle"
  \/ call.op \in Unserialized /\ call.at \in {"marker", "core"}
  \/ call.op = "login" /\ call.at \in {"queued", "write"}
  \/ call.op = "logout" /\ call.at \in {"queued", "write", "stop"}
  \/ call.op \in {"clear", "retire"} /\ call.at \in {"queued", "stop", "core", "write"}
  \/ call.op = "recover" /\ call.at \in {"status", "queued", "core", "write", "mail"}

\* The stops under way are those that a call at the head, or a replacement, awaits.
StuckInv ==
  /\ Served
  /\ \A c \in Callers : Placed(calls[c])
  /\ Begun(stopping, "mutation") <=> SomeStops(calls)
  /\ \A o \in Refreshes : Idle(stopping, o)

LEMMA CallStepPlaced ==
  ASSUME calls \in [Callers -> Call], NEW c \in Callers, CallStep(c)
  PROVE  /\ Placed(calls'[c])
         /\ StopsRuntime(calls'[c]) <=> Logout(c) \/ StopFirst(c)
         /\ StopsRuntime(calls[c]) => StopEnds(c) \/ StopFails(c)
<1> DEFINE fs == Fence(calls)
<1>1. calls[c] \in Call /\ fs \in [Callers -> Call] /\ fs[c] \in Call /\ fs[c].op = calls[c].op
  BY FenceFacts
<1> HIDE DEF fs
<1>2. Return(c, calls) \/ Return(c, fs) \/ Return(c, Beside(calls)) =>
        Placed(calls'[c]) /\ ~StopsRuntime(calls'[c])
  <2>1. Return(c, calls) \/ Return(c, fs) \/ Return(c, Beside(calls)) => calls'[c] = NoCall
    BY <1>1, BesideFacts DEF Return
  <2>2. Placed(NoCall) /\ ~StopsRuntime(NoCall)
    BY DEF NoCall, Placed, StopsRuntime, Unserialized
  <2> QED BY <2>1, <2>2
<1>3. \A at : Goto(c, at) => calls'[c].op = calls[c].op /\ calls'[c].at = at
  <2> SUFFICES ASSUME NEW at, Goto(c, at) PROVE calls'[c].op = calls[c].op /\ calls'[c].at = at
    OBVIOUS
  <2>1. calls' = [calls EXCEPT ![c] = [calls[c] EXCEPT !.at = at]] BY DEF Goto
  <2> QED BY <1>1, <2>1 DEF Call
<1>4. StopsRuntime(calls[c]) => StopEnds(c) \/ StopFails(c)
  BY DEF CallStep, ReadChecks, ReadFails, GetSession, GetIdentity, Register, LogoutChecks, Logout,
         LogoutFails, LoginChecks, Login, SignInFails, RecoverStarts, RecoverChecks,
         RecoverMatches, RecoverEnters, RecoverPublishes, StopFirst, StopEnds, StopFails, CoreClears,
         CoreClearFails, Cleared, Turn, At, StopsRuntime
<1>5. CASE Logout(c) \/ StopFirst(c)
  <2>1. calls'[c].op = calls[c].op /\ calls'[c].at = "stop"
    <3>1. CASE Logout(c)
      <4>1. calls' = [fs EXCEPT ![c] = [fs[c] EXCEPT !.at = "stop"]] BY <3>1 DEF Logout, fs
      <4> QED BY <1>1, <4>1 DEF Call
    <3>2. CASE StopFirst(c) BY <1>3, <3>2 DEF StopFirst
    <3> QED BY <1>5, <3>1, <3>2
  <2>2. calls[c].op \in {"logout", "clear", "retire"}
    BY <1>5 DEF Logout, StopFirst, Turn, At
  <2> QED BY <1>4, <1>5, <2>1, <2>2 DEF Placed, StopsRuntime
<1>6. CASE ~Logout(c) /\ ~StopFirst(c)
  <2> SUFFICES Placed(calls'[c]) /\ ~StopsRuntime(calls'[c]) BY <1>4, <1>6
  <2>1. CASE Return(c, calls) \/ Return(c, fs) \/ Return(c, Beside(calls)) BY <1>2, <2>1
  <2>2. CASE (ReadChecks(c) \/ RecoverChecks(c) \/ StopEnds(c)) /\ Goto(c, "core")
    <3>1. calls[c].op \in {"getSession", "getIdentity", "register", "recover", "clear", "retire"}
      BY <2>2, <1>1, <1>2, <1>3, NoCallType DEF ReadChecks, RecoverChecks, StopEnds, Turn, At, Return
    <3> QED BY <1>3, <2>2, <3>1 DEF Placed, StopsRuntime, Unserialized
  <2>3. CASE (LogoutChecks(c) \/ CoreClears(c)) /\ Goto(c, "write")
    <3>1. calls[c].op \in {"logout", "clear", "retire"}
      BY <2>3 DEF LogoutChecks, CoreClears, Turn, At
    <3> QED BY <1>3, <2>3, <3>1 DEF Placed, StopsRuntime
  <2>4. CASE LoginChecks(c) /\ calls' = [calls EXCEPT ![c].at = "write", ![c].did = identity]
    <3>1. calls'[c].op = "login" /\ calls'[c].at = "write"
      BY <1>1, <2>4 DEF LoginChecks, Turn, At, Call
    <3> QED BY <3>1 DEF Placed, StopsRuntime
  <2>5. CASE RecoverStarts(c) /\ calls' = [calls EXCEPT ![c].at = "queued", ![c].did = identity]
    <3>1. calls'[c].op = "recover" /\ calls'[c].at = "queued"
      BY <1>1, <2>5 DEF RecoverStarts, At, Call
    <3> QED BY <3>1 DEF Placed, StopsRuntime
  <2>6. CASE RecoverMatches(c) /\ ~Return(c, calls)
    <3>1. calls'[c].op = "recover" /\ calls'[c].at \in {"mail", "write"}
      BY <1>1, <2>6 DEF RecoverMatches, Turn, At, Call
    <3> QED BY <3>1 DEF Placed, StopsRuntime
  <2>7. CASE RecoverEnters(c) /\ calls' = [fs EXCEPT ![c].fenced = FALSE, ![c].at = "mail"]
    <3>1. calls'[c].op = "recover" /\ calls'[c].at = "mail"
      BY <1>1, <2>7 DEF RecoverEnters, Turn, At, Call
    <3> QED BY <3>1 DEF Placed, StopsRuntime
  <2> QED BY <1>6, <2>1, <2>2, <2>3, <2>4, <2>5, <2>6, <2>7
    DEF CallStep, ReadChecks, ReadFails, GetSession, GetIdentity, Register, LogoutChecks,
        LogoutFails, LoginChecks, Login, SignInFails, RecoverStarts, RecoverChecks,
        RecoverMatches, RecoverEnters, RecoverPublishes, StopEnds, StopFails, CoreClears,
        CoreClearFails, Cleared, fs
<1> QED BY <1>5, <1>6

\* Where no call begins or ends a stop, the same stops are under way.
LEMMA SameCallsStuck ==
  ASSUME StuckInv, Served', \A c \in Callers : Placed(calls'[c]), SomeStops(calls') <=> SomeStops(calls),
         \A o \in Owners : o # "replacement" => SameBegun(stopping, stopping', o)
  PROVE  StuckInv'
<1>1. "mutation" \in Owners /\ "mutation" # "replacement" BY DEF Owners
<1>2. \A o \in Refreshes : o \in Owners /\ o # "replacement" BY RefreshesAssumption DEF Owners
<1>3. \A o \in Refreshes : Idle(stopping', o) BY <1>2 DEF StuckInv, SameBegun, Idle
<1>4. Begun(stopping', "mutation") <=> Begun(stopping, "mutation")
  BY <1>1 DEF SameBegun, Begun
<1> QED BY <1>3, <1>4 DEF StuckInv

LEMMA ServedUnchanged ==
  ASSUME Served, UNCHANGED runtime
  PROVE  Served' /\ \A o \in Owners : SameBegun(stopping, stopping', o)
BY DEF runtime, Served, StopsBegin, RealtimeServed, ConsumerServed, Serves, SameBegun

LEMMA StuckCallStep ==
  ASSUME FullInv, StuckInv, NEW c \in Callers, CallStep(c)
  PROVE  StuckInv'
<1>1. RuntimeInv /\ QueueInv(calls, queue) /\ calls \in [Callers -> Call]
  BY DEF FullInv, SessionInv, QueueInv
<1>2. /\ Placed(calls'[c])
      /\ StopsRuntime(calls'[c]) <=> Logout(c) \/ StopFirst(c)
      /\ StopsRuntime(calls[c]) => StopEnds(c) \/ StopFails(c)
  BY <1>1, CallStepPlaced
<1>3. \A d \in Callers : d # c => calls'[d].op = calls[d].op /\ calls'[d].at = calls[d].at
  BY <1>1, CallStepOps
<1>4. \A d \in Callers : Placed(calls'[d]) BY <1>2, <1>3 DEF StuckInv, Placed
<1>5. "mutation" \in Owners /\ "mutation" # "replacement"
      /\ \A o \in Refreshes : o \in Owners /\ o \notin {"mutation", "replacement"}
  BY RefreshesAssumption DEF Owners
<1>6. CASE Logout(c) \/ StopFirst(c)
  <2>1. BeginStop("mutation") /\ UNCHANGED replacement /\ queue # <<>> /\ Head(queue) = c
    BY <1>6 DEF Logout, StopFirst, Turn
  <2>2. ~StopEnds(c) /\ ~StopFails(c)
    BY <1>6 DEF Logout, StopFirst, StopEnds, StopFails, Turn, At
  <2>3. ~SomeStops(calls) BY <1>1, <1>2, <2>1, <2>2, HeadAlone
  <2>4. Idle(stopping, "mutation") BY <1>5, <2>3 DEF StuckInv, Served, StopsBegin
  <2>5. /\ RealtimeServed(realtime', stopping') /\ ConsumerServed(consumer', stopping')
        /\ Begun(stopping', "mutation")
        /\ \A p \in Owners : p # "mutation" => stopping'[p] = stopping[p]
    BY <1>1, <1>5, <2>1, <2>4, BeginStopServed, StopLanes DEF StuckInv, Served
  <2>6. "replacement" \in Owners BY DEF Owners
  <2>7. StopsBegin' BY <1>5, <2>1, <2>5, <2>6 DEF StuckInv, Served, StopsBegin, Begun, Idle
  <2>8. SomeStops(calls') BY <1>2, <1>6 DEF SomeStops
  <2>9. \A o \in Refreshes : Idle(stopping', o) BY <1>5, <2>5 DEF StuckInv, Idle
  <2> QED BY <1>4, <2>5, <2>7, <2>8, <2>9 DEF StuckInv, Served
<1>7. CASE StopEnds(c) \/ StopFails(c)
  <2>1. /\ UNCHANGED <<realtime, consumer, replacement>>
        /\ StopReturns(stopping, "mutation") \/ StopRejects(stopping, "mutation")
        /\ queue # <<>> /\ Head(queue) = c
    BY <1>7 DEF StopEnds, StopFails, Turn
  <2>2. ~Logout(c) /\ ~StopFirst(c)
    BY <1>7 DEF Logout, StopFirst, StopEnds, StopFails, Turn, At
  <2>3. ~SomeStops(calls') BY <1>1, <1>2, <2>1, <2>2, HeadMoves
  <2>4. /\ RealtimeServed(realtime', stopping') /\ ConsumerServed(consumer', stopping')
        /\ Idle(stopping', "mutation")
        /\ \A p \in Owners : p # "mutation" => stopping'[p] = stopping[p]
    BY <1>1, <1>5, <2>1, StopOverServed DEF StuckInv
  <2>5. "replacement" \in Owners BY DEF Owners
  <2>6. StopsBegin' BY <1>5, <2>1, <2>4, <2>5 DEF StuckInv, Served, StopsBegin, Begun, Idle
  <2>7. \A o \in Refreshes : Idle(stopping', o) BY <1>5, <2>4 DEF StuckInv, Idle
  <2>8. ~Begun(stopping', "mutation") BY <2>4 DEF Begun, Idle
  <2> QED BY <1>4, <2>3, <2>4, <2>6, <2>7, <2>8 DEF StuckInv, Served
<1>8. CASE ~Logout(c) /\ ~StopFirst(c) /\ ~StopEnds(c) /\ ~StopFails(c)
  <2>1. SomeStops(calls') <=> SomeStops(calls) BY <1>2, <1>3, <1>8 DEF SomeStops, StopsRuntime
  <2>2. UNCHANGED runtime \/ \E did, out, blocked : EnsureRuntime(did, out, blocked)
    <3>1. CASE \/ ReadChecks(c) \/ ReadFails(c) \/ GetIdentity(c) \/ LogoutChecks(c)
               \/ LogoutFails(c) \/ LoginChecks(c) \/ SignInFails(c) \/ RecoverStarts(c)
               \/ RecoverChecks(c) \/ RecoverMatches(c) \/ RecoverEnters(c) \/ CoreClears(c)
               \/ Cleared(c)
      BY <3>1 DEF ReadChecks, ReadFails, GetIdentity, LogoutChecks, LogoutFails, LoginChecks,
                  SignInFails, RecoverStarts, RecoverChecks, RecoverMatches, RecoverEnters,
                  CoreClears, Cleared, runtimeVars, runtime
    <3>2. CASE GetSession(c) BY <3>2 DEF GetSession
    <3>3. CASE Register(c) BY <3>3 DEF Register
    <3>4. CASE Login(c) BY <3>4 DEF Login
    <3>5. CASE RecoverPublishes(c) BY <3>5 DEF RecoverPublishes, runtime
    <3>6. CASE CoreClearFails(c) BY <3>6 DEF CoreClearFails
    <3> QED BY <1>8, <3>1, <3>2, <3>3, <3>4, <3>5, <3>6 DEF CallStep
  <2>3. Served' /\ \A o \in Owners : o # "replacement" => SameBegun(stopping, stopping', o)
    <3>1. CASE UNCHANGED runtime BY <3>1, ServedUnchanged DEF StuckInv
    <3>2. CASE ~UNCHANGED runtime
      <4>1. PICK did, out, blocked : EnsureRuntime(did, out, blocked) BY <2>2, <3>2
      <4> QED BY <1>1, <4>1, EnsureRuntimeServed, StopLanes DEF StuckInv, SameBegun
    <3> QED BY <3>1, <3>2
  <2> QED BY <1>4, <2>1, <2>3, SameCallsStuck
<1> QED BY <1>6, <1>7, <1>8

LEMMA StuckStep == FullInv /\ StuckInv /\ [Next]_vars => StuckInv'
<1> SUFFICES ASSUME FullInv, StuckInv, [Next]_vars PROVE StuckInv' OBVIOUS
<1>1. RuntimeInv /\ calls \in [Callers -> Call] BY DEF FullInv, SessionInv, QueueInv
<1>2. ASSUME NEW c \in Callers, NEW op \in Ops, Request(c, op) PROVE StuckInv'
  <2>1. /\ \A d \in Callers : d # c => calls'[d].op = calls[d].op /\ calls'[d].at = calls[d].at
        /\ calls'[c].op = op /\ calls'[c].at \in {"queued", "status", "marker"}
    BY <1>1, <1>2, RequestOps
  <2>2. Placed(calls'[c])
    <3>1. CASE op \in {"logout", "clear", "login", "retire"}
      <4>1. PICK cs \in [Callers -> Call] :
              calls' = [cs EXCEPT ![c] = [NoCall EXCEPT !.op = op, !.at = "queued"]]
        BY <1>1, <1>2, <3>1, FenceFacts DEF Request, Enqueue
      <4>2. calls'[c].at = "queued" BY <4>1 DEF NoCall
      <4> QED BY <2>1, <3>1, <4>2 DEF Placed
    <3>2. CASE op \in {"recover", "getSession", "getIdentity", "register"}
      <4>1. calls' = [calls EXCEPT ![c] = [NoCall EXCEPT !.op = op,
                        !.at = IF op = "recover" THEN "status" ELSE "marker"]]
        BY <1>2, <3>2 DEF Request
      <4>2. calls'[c].at = IF op = "recover" THEN "status" ELSE "marker"
        BY <1>1, <4>1 DEF NoCall
      <4> QED BY <2>1, <3>2, <4>2 DEF Placed, Unserialized
    <3> QED BY <1>2, <3>1, <3>2 DEF Request
  <2>3. \A d \in Callers : Placed(calls'[d]) BY <2>1, <2>2 DEF StuckInv, Placed
  <2>4. calls[c].at = "idle" BY <1>2, NoCallType DEF Request
  <2>5. SomeStops(calls') <=> SomeStops(calls) BY <2>1, <2>4 DEF SomeStops, StopsRuntime
  <2>6. UNCHANGED runtime BY <1>2 DEF Request, runtimeVars, runtime
  <2> QED BY <2>3, <2>5, <2>6, ServedUnchanged, SameCallsStuck DEF StuckInv
<1>3. CASE Runtime
  <2>1. /\ RuntimeStep
        /\ \A c \in Callers : calls'[c].op = calls[c].op /\ calls'[c].at = calls[c].at
    BY <1>1, <1>3, BesideFacts DEF Runtime, Beneath
  <2>2. Served' /\ \A o \in Owners : o # "replacement" => SameBegun(stopping, stopping', o)
    BY <1>1, <2>1, RuntimeStepServed DEF StuckInv
  <2>3. \A c \in Callers : Placed(calls'[c]) BY <2>1 DEF StuckInv, Placed
  <2>4. SomeStops(calls') <=> SomeStops(calls) BY <2>1 DEF SomeStops, StopsRuntime
  <2> QED BY <2>2, <2>3, <2>4, SameCallsStuck
<1>4. CASE UNCHANGED <<runtime, calls>>
  <2>1. \A c \in Callers : Placed(calls'[c]) BY <1>4 DEF StuckInv
  <2>2. SomeStops(calls') <=> SomeStops(calls) BY <1>4 DEF SomeStops
  <2> QED BY <1>4, <2>1, <2>2, ServedUnchanged, SameCallsStuck DEF StuckInv
<1>5. CASE Restart
  <2>1. \A c \in Callers : calls'[c] = NoCall BY <1>5 DEF Restart
  <2>2. /\ \A c \in Callers : Placed(calls'[c])
        /\ ~SomeStops(calls')
    BY <2>1 DEF NoCall, Placed, SomeStops, StopsRuntime
  <2>3. /\ RealtimeServed(realtime', stopping') /\ ConsumerServed(consumer', stopping')
        /\ \A o \in Owners : Idle(stopping', o) /\ ~Begun(stopping', o)
    BY <1>5, FreshServed DEF Restart
  <2>4. {"mutation", "replacement"} \subseteq Owners /\ Refreshes \subseteq Owners BY DEF Owners
  <2>5. Served' BY <1>5, <2>3, <2>4 DEF Restart, Served, StopsBegin
  <2> QED BY <2>2, <2>3, <2>4, <2>5 DEF StuckInv
<1>6. CASE CoreRecovers BY <1>4, <1>6 DEF CoreRecovers
<1>7. CASE UNCHANGED vars BY <1>4, <1>7 DEF vars, runtimeVars, runtime
<1> QED BY <1>2, <1>3, <1>5, <1>6, <1>7, StuckCallStep DEF Next

LEMMA StuckInvariance == Spec => [](FullInv /\ StuckInv)
<1>1. Init => StuckInv
  <2> SUFFICES ASSUME Init PROVE StuckInv OBVIOUS
  <2>1. (\A c \in Callers : Placed(calls[c])) /\ ~SomeStops(calls)
    BY DEF Init, NoCall, Placed, SomeStops, StopsRuntime
  <2>2. /\ RealtimeServed(realtime, stopping) /\ ConsumerServed(consumer, stopping)
        /\ \A o \in Owners : Idle(stopping, o) /\ ~Begun(stopping, o)
    BY FreshServed DEF Init, FreshRuntime
  <2>3. {"mutation", "replacement"} \subseteq Owners /\ Refreshes \subseteq Owners BY DEF Owners
  <2>4. Served BY <2>2, <2>3 DEF Init, FreshRuntime, Served, StopsBegin
  <2> QED BY <2>1, <2>2, <2>3, <2>4 DEF StuckInv
<1> QED BY <1>1, StuckStep, SessionInvariance, PTL DEF Spec

\* The calls, the queue they wait in, the stops and the startups never wait for one another in a
\* circle, for any callers, identities and operations: while one is in flight, one goes on.
THEOREM NeverStuckAlways == Spec => []NeverStuck
<1>1. FullInv /\ StuckInv => NeverStuck
  <2> SUFFICES ASSUME FullInv, StuckInv, ~RuntimeMoves,
                      RuntimeBusy \/ \E c \in Callers : calls[c].op # "none"
               PROVE  \E c \in Callers : GoesOn(c)
    BY DEF NeverStuck
  <2>1. RuntimeInv /\ QueueInv(calls, queue) /\ queue \in Seq(Callers)
    BY DEF FullInv, SessionInv, QueueInv
  <2>2. ASSUME NEW c \in Callers, queue # <<>>, Head(queue) = c,
               calls[c].at = "stop" => Stopped("mutation") \/ Rejected("mutation")
        PROVE  GoesOn(c)
    <3>1. InQueue(calls[c]) /\ Placed(calls[c]) BY <2>1, <2>2, HeadFacts DEF StuckInv
    <3> QED BY <2>2, <3>1 DEF InQueue, Placed, GoesOn, Turn, At, Unserialized, AllOps
  <2>3. SomeStops(calls) => Stopped("mutation") \/ Rejected("mutation")
    <3>1. "mutation" \in Owners /\ "mutation" \in Stops BY StopLanes DEF Owners
    <3>2. ASSUME Begun(stopping, "mutation") PROVE Stopped("mutation") \/ Rejected("mutation")
      <4>1. stopping # NotStopping BY <3>1, <3>2 DEF NotStopping, Begun
      <4>2. RuntimeBusy BY <4>1 DEF RuntimeBusy
      <4> QED BY <2>1, <3>1, <3>2, <4>2, ServedMoves DEF StuckInv
    <3> QED BY <3>2 DEF StuckInv
  <2>4. CASE \E c \in Callers : calls[c].op # "none"
    <3>1. PICK c \in Callers : calls[c].op # "none" BY <2>4
    <3>2. CASE InQueue(calls[c])
      <4>1. PICK i \in 1 .. Len(queue) : queue[i] = c BY <2>1, <3>2 DEF QueueInv
      <4>2. queue # <<>> /\ Head(queue) \in Callers BY <2>1, <4>1
      <4>3. calls[Head(queue)].at = "stop" => Stopped("mutation") \/ Rejected("mutation")
        BY <2>3, <4>2 DEF SomeStops, StopsRuntime
      <4> QED BY <2>2, <4>2, <4>3
    <3>3. CASE ~InQueue(calls[c])
      <4>1. Placed(calls[c]) BY DEF StuckInv
      <4> QED BY <3>1, <3>3, <4>1 DEF InQueue, Placed, GoesOn, At, Unserialized
    <3> QED BY <3>2, <3>3
  <2>5. CASE RuntimeBusy
    <3>1. PICK o \in Owners : o # "replacement" /\ Begun(stopping, o)
      BY <2>1, <2>5, ServedMoves DEF StuckInv
    <3>2. o = "mutation" BY <3>1 DEF StuckInv, Owners, Begun, Idle
    <3>3. PICK c \in Callers : calls[c].at = "stop"
      BY <3>1, <3>2 DEF StuckInv, SomeStops, StopsRuntime
    <3>4. calls[c].op # "none" BY <3>3 DEF StuckInv, Placed
    <3> QED BY <2>4, <3>4
  <2> QED BY <2>4, <2>5
<1> QED BY <1>1, StuckInvariance, PTL

-----------------------------------------------------------------------------
(* The runtime starts apart from what was stopped, and is gone when Core clears. *)

\* A call that has begun, and has its place in the queue, is at the head.
LEMMA AtHead ==
  ASSUME QueueInv(calls, queue), NEW c \in Callers, InQueue(calls[c]), calls[c].at # "queued"
  PROVE  queue # <<>> /\ Head(queue) = c
<1>1. PICK i \in 1 .. Len(queue) : queue[i] = c BY DEF QueueInv
<1>2. i = 1 BY <1>1 DEF QueueInv
<1> QED BY <1>1, <1>2 DEF QueueInv

\* What the steps of a call do to the runtime.
LEMMA CallStepRuntime ==
  ASSUME NEW c \in Callers, CallStep(c)
  PROVE  \/ UNCHANGED runtime
         \/ /\ UNCHANGED <<realtime, consumer, replacement>>
            /\ StopEnds(c) \/ StopFails(c)
         \/ /\ BeginStop("mutation") /\ UNCHANGED replacement
            /\ Logout(c) \/ StopFirst(c)
         \/ /\ \E did, out, blocked : EnsureRuntime(did, out, blocked)
            /\ Login(c) \/ RecoverPublishes(c) \/ CoreClearFails(c)
         \/ /\ \E did, out, blocked : EnsureRuntime(did, out, blocked)
            /\ GetSession(c) \/ Register(c)
            /\ Return(c, Beside(calls))
<1>1. CASE \/ ReadChecks(c) \/ ReadFails(c) \/ GetIdentity(c) \/ LogoutChecks(c)
           \/ LogoutFails(c) \/ LoginChecks(c) \/ SignInFails(c) \/ RecoverStarts(c)
           \/ RecoverChecks(c) \/ RecoverMatches(c) \/ RecoverEnters(c) \/ CoreClears(c)
           \/ Cleared(c)
  BY <1>1 DEF ReadChecks, ReadFails, GetIdentity, LogoutChecks, LogoutFails, LoginChecks,
              SignInFails, RecoverStarts, RecoverChecks, RecoverMatches, RecoverEnters,
              CoreClears, Cleared, runtimeVars, runtime
<1>2. CASE GetSession(c) BY <1>2 DEF GetSession
<1>3. CASE Register(c) BY <1>3 DEF Register
<1>4. CASE Login(c) BY <1>4 DEF Login
<1>5. CASE RecoverPublishes(c) BY <1>5 DEF RecoverPublishes, runtime
<1>6. CASE CoreClearFails(c) BY <1>6 DEF CoreClearFails
<1>7. CASE StopEnds(c) \/ StopFails(c) BY <1>7 DEF StopEnds, StopFails
<1>8. CASE Logout(c) \/ StopFirst(c) BY <1>8 DEF Logout, StopFirst
<1> QED BY <1>1, <1>2, <1>3, <1>4, <1>5, <1>6, <1>7, <1>8 DEF CallStep

\* A supervisor and a startup of one are never both there.
LEMMA StartupInvariance == Spec => [](FullInv /\ StuckInv /\ OneStartup)
<1>1. Init => OneStartup
  BY DEF Init, FreshRuntime, OneStartup, StartingRealtime, NoRealtime
<1>2. FullInv /\ OneStartup /\ [Next]_vars => OneStartup'
  <2> SUFFICES ASSUME FullInv, OneStartup, [Next]_vars PROVE OneStartup' OBVIOUS
  <2>1. RuntimeInv /\ "mutation" \in Owners BY DEF FullInv, SessionInv, Owners
  <2>2. CASE UNCHANGED runtime BY <2>2 DEF runtime, OneStartup
  <2>3. ASSUME NEW c \in Callers, CallStep(c) PROVE OneStartup'
    <3>1. CASE \E did, out, blocked : EnsureRuntime(did, out, blocked)
      BY <2>1, <3>1, EnsureRuntimeStartup
    <3>2. CASE BeginStop("mutation") BY <2>1, <3>2, BeginStopHalts
    <3>3. CASE UNCHANGED <<realtime, consumer, replacement>> BY <3>3 DEF OneStartup
    <3> QED BY <2>2, <2>3, <3>1, <3>2, <3>3, CallStepRuntime
  <2>4. ASSUME NEW c \in Callers, NEW op \in Ops, Request(c, op) PROVE OneStartup'
    BY <2>2, <2>4 DEF Request, runtimeVars, runtime
  <2>5. CASE Runtime BY <2>1, <2>5, RuntimeStepStartup DEF Runtime, Beneath
  <2>6. CASE CoreRecovers BY <2>2, <2>6 DEF CoreRecovers
  <2>7. CASE Restart BY <2>7 DEF Restart, OneStartup, StartingRealtime, NoRealtime
  <2>8. CASE UNCHANGED vars BY <2>2, <2>8 DEF vars, runtimeVars, runtime
  <2> QED BY <2>3, <2>4, <2>5, <2>6, <2>7, <2>8 DEF Next
<1> QED BY <1>1, <1>2, StuckInvariance, PTL DEF Spec

\* Nothing is disposed by a stop that somebody owns, unless a call at the head stops the runtime
\* or a replacement does.
LEMMA NothingDisposed ==
  ASSUME StuckInv, ~SomeStops(calls), replacement = None
  PROVE  \A o \in Owners : stopping[o].realtime = "none" /\ stopping[o].consumer = "none"
<1>1. {"mutation", "replacement"} \subseteq Owners BY DEF Owners
<1>2. Idle(stopping, "mutation") /\ Idle(stopping, "replacement")
  BY <1>1 DEF StuckInv, Served, StopsBegin
<1> QED BY <1>2 DEF StuckInv, Idle, Owners

LEMMA StartsApartStep ==
  ASSUME FullInv, StuckInv, OneStartup, [Next]_vars,
         NEW c \in Callers, calls[c].op \in Serialized, calls'[c].at # calls[c].at, Starts
  PROVE  \A o \in Owners : "dispose" \notin {stopping'[o].realtime, stopping'[o].consumer}
<1>1. /\ RuntimeInv /\ QueueInv(calls, queue) /\ calls \in [Callers -> Call]
      /\ "mutation" \in Owners /\ "replacement" \in Owners
  BY DEF FullInv, SessionInv, QueueInv, Owners
<1>2. \A o \in Owners : BeginStop(o) => ~Starts BY <1>1, BeginStopHolds DEF Starts
<1>3. UNCHANGED <<realtime, consumer>> => ~Starts BY DEF Starts
<1>4. ASSUME NEW d \in Callers, CallStep(d)
      PROVE  \A o \in Owners : "dispose" \notin {stopping'[o].realtime, stopping'[o].consumer}
  <2>1. d = c BY <1>1, <1>4, CallStepOps
  <2>2. PICK did, out, blocked : EnsureRuntime(did, out, blocked)
    BY <1>1, <1>2, <1>3, <1>4, CallStepRuntime DEF runtime
  <2>3. Login(c) \/ RecoverPublishes(c) \/ CoreClearFails(c)
    BY <1>1, <1>2, <1>3, <1>4, <2>1, CallStepRuntime
       DEF runtime, GetSession, Register, At, Serialized
  <2>4. queue # <<>> /\ Head(queue) = c /\ calls[c].at # "stop"
    BY <2>3 DEF Login, RecoverPublishes, CoreClearFails, Turn, At
  <2>5. ~SomeStops(calls) BY <1>1, <2>4, HeadAlone DEF StopsRuntime
  <2>6. replacement = None /\ EnsureSlots(did, out, blocked)
    BY <1>1, <1>2, <1>3, <2>2 DEF EnsureRuntime, runtime
  <2>7. UNCHANGED stopping BY <2>6 DEF EnsureSlots
  <2> QED BY <2>5, <2>6, <2>7, NothingDisposed
<1>5. ASSUME NEW d \in Callers, NEW op \in Ops, Request(d, op) PROVE FALSE
  BY <1>3, <1>5 DEF Request, runtimeVars, runtime
<1>6. ~Runtime BY <1>1, BesideFacts DEF Runtime, Beneath
<1>7. ~CoreRecovers BY DEF CoreRecovers
<1>8. CASE Restart
  BY <1>8, StopLanes DEF Restart, NotStopping
<1>9. vars' # vars BY DEF vars
<1> QED BY <1>4, <1>5, <1>6, <1>7, <1>8, <1>9 DEF Next

\* A sign-in, a recovery or a failed clear starts a supervisor or a consumer only when what the
\* operations before it stopped is gone: for any callers, identities and operations.
THEOREM StartsApartAlways == Spec => StartsApart
<1>1. FullInv /\ StuckInv /\ OneStartup /\ [Next]_vars =>
        [\A c \in Callers : calls[c].op \in Serialized /\ calls'[c].at # calls[c].at /\ Starts =>
           \A o \in Owners : "dispose" \notin {stopping'[o].realtime, stopping'[o].consumer}]_vars
  BY StartsApartStep
<1> QED BY <1>1, StartupInvariance, PTL DEF Spec, StartsApart

\* A call that stops the runtime in order to clear holds it, and finds it empty then.
Alone(call, r, c, m) ==
  call.op \in {"clear", "retire"} /\ ~call.beside =>
    /\ call.at = "stop" => Held(r, c, m)
    /\ call.at = "core" => Emptied(r, c)

AloneInv == \A c \in Callers : Alone(calls[c], realtime, consumer, stopping["mutation"])

\* A step of another call keeps it so: that one is not serialized.
LEMMA OthersAlone ==
  ASSUME FullInv, AloneInv, NEW c \in Callers, NEW d \in Callers, d # c, CallStep(d)
  PROVE  Alone(calls'[c], realtime', consumer', stopping'["mutation"])
<1>1. QueueInv(calls, queue) /\ calls \in [Callers -> Call]
  BY DEF FullInv, SessionInv, QueueInv
<1>2. /\ calls'[c].op = calls[c].op /\ calls'[c].at = calls[c].at
      /\ calls'[c].beside = calls[c].beside \/ Return(d, Beside(calls))
  <2> DEFINE fs == Fence(calls)
  <2>1. fs \in [Callers -> Call] /\ fs[c].beside = calls[c].beside BY <1>1, FenceFacts
  <2> HIDE DEF fs
  <2>2. Return(d, fs) \/ Return(d, calls) => calls'[c].beside = calls[c].beside
    BY <1>1, <2>1 DEF Return
  <2>3. \A at : Goto(d, at) => calls'[c] = calls[c] BY <1>1 DEF Goto
  <2>4. calls'[c].beside = calls[c].beside \/ Return(d, Beside(calls))
    BY <1>1, <2>1, <2>2, <2>3
    DEF CallStep, ReadChecks, ReadFails, GetSession, GetIdentity, Register, LogoutChecks, Logout,
        LogoutFails, LoginChecks, Login, SignInFails, RecoverStarts, RecoverChecks, RecoverMatches,
        RecoverEnters, RecoverPublishes, StopFirst, StopEnds, StopFails, CoreClears,
        CoreClearFails, Cleared, fs
  <2> QED BY <1>1, <2>4, CallStepOps
<1>3. SUFFICES ASSUME calls[c].op \in {"clear", "retire"}, calls[c].at \in {"stop", "core"},
                      ~calls'[c].beside
               PROVE  UNCHANGED runtime
  <2>1. CASE UNCHANGED runtime
    <3>1. UNCHANGED <<realtime, consumer, stopping>> BY <2>1 DEF runtime
    <3>2. \/ calls'[c].beside = calls[c].beside
          \/ calls[c].op \in {"clear", "retire"} /\ calls[c].at \in {"stop", "core"}
               => calls'[c].beside
      BY <1>1, <1>2, BesideFacts DEF Return
    <3> QED BY <1>2, <3>1, <3>2 DEF Alone, AloneInv
  <2>2. CASE ~UNCHANGED runtime BY <1>2, <1>3, <2>2 DEF Alone
  <2> QED BY <2>1, <2>2
<1>4. queue # <<>> /\ Head(queue) = c BY <1>1, <1>3, AtHead DEF InQueue
<1>5. UNCHANGED runtime
  <2>1. ~Return(d, Beside(calls)) BY <1>1, <1>3, BesideFacts DEF Return
  <2> QED BY <1>4, <2>1, CallStepRuntime
    DEF StopEnds, StopFails, Logout, StopFirst, Login, RecoverPublishes, CoreClearFails, Turn
<1> QED BY <1>5

\* A step of its own: the stop begins, or is over.
LEMMA ItselfAlone ==
  ASSUME FullInv, OneStartup, AloneInv, NEW c \in Callers, CallStep(c)
  PROVE  Alone(calls'[c], realtime', consumer', stopping'["mutation"])
<1>1. /\ RuntimeInv /\ QueueInv(calls, queue) /\ calls \in [Callers -> Call]
      /\ "mutation" \in Owners /\ calls[c] \in Call
  BY DEF FullInv, SessionInv, QueueInv, Owners
<1>2. CASE StopFirst(c) /\ calls'[c].at = "stop"
  <2>1. BeginStop("mutation") BY <1>2 DEF StopFirst
  <2> QED BY <1>1, <1>2, <2>1, BeginStopHolds DEF Alone
<1>3. CASE StopEnds(c) /\ calls'[c].op \in {"clear", "retire"}
  <2>1. /\ calls[c].at = "stop" /\ Stopped("mutation") /\ UNCHANGED <<realtime, consumer>>
        /\ Return(c, calls) \/ Goto(c, "core")
    BY <1>3 DEF StopEnds, StopReturns, Turn, At
  <2>2. ~Return(c, calls) BY <1>1, <1>3, NoCallType DEF Return
  <2>3. /\ calls'[c].op = calls[c].op /\ calls'[c].at = "core"
        /\ calls'[c].beside = calls[c].beside
    BY <1>1, <2>1, <2>2 DEF Goto, Call
  <2>4. Held(realtime, consumer, stopping["mutation"]) => Emptied(realtime, consumer)
    BY <2>1 DEF Held, Emptied, Stopped
  <2> QED BY <1>3, <2>1, <2>3, <2>4 DEF Alone, AloneInv
<1>4. CASE ~(StopFirst(c) /\ calls'[c].at = "stop")
           /\ ~(StopEnds(c) /\ calls'[c].op \in {"clear", "retire"})
  <2> SUFFICES ASSUME calls'[c].op \in {"clear", "retire"}, calls'[c].at \in {"stop", "core"}
               PROVE  FALSE
    BY DEF Alone
  <2>1. calls'[c] # NoCall /\ calls'[c].op = calls[c].op BY <1>1, NoCallType, CallStepOps
  <2>2. calls'[c].at # "stop"
    BY <1>1, <1>4, <2>1, CallStepPlaced DEF StopsRuntime, Logout, Turn, At
  <2>3. ~Return(c, calls) /\ ~Return(c, Fence(calls)) /\ ~Return(c, Beside(calls))
    BY <1>1, <2>1, FenceFacts, BesideFacts DEF Return
  <2>4. ~Goto(c, "write") BY <1>1, <2>2 DEF Goto, Call
  <2>5. calls[c].op \in {"clear", "retire"} /\ ~StopEnds(c) BY <1>4, <2>1
  <2>6. ~StopFirst(c) BY <1>4, <2>2, CallStepPlaced, <1>1 DEF StopsRuntime
  <2> QED BY <2>3, <2>4, <2>5, <2>6
    DEF CallStep, ReadChecks, ReadFails, GetSession, GetIdentity, Register, LogoutChecks, Logout,
        LogoutFails, LoginChecks, Login, SignInFails, RecoverStarts, RecoverChecks, RecoverMatches,
        RecoverEnters, RecoverPublishes, StopFirst, StopEnds, StopFails, CoreClears,
        CoreClearFails, Cleared, Turn, At
<1> QED BY <1>2, <1>3, <1>4

LEMMA AloneStep == FullInv /\ StuckInv /\ OneStartup /\ AloneInv /\ [Next]_vars => AloneInv'
<1> SUFFICES ASSUME FullInv, StuckInv, OneStartup, AloneInv, [Next]_vars PROVE AloneInv' OBVIOUS
<1>1. /\ RuntimeInv /\ Served /\ calls \in [Callers -> Call] /\ "mutation" \in Owners
  BY DEF FullInv, SessionInv, QueueInv, StuckInv, Owners
<1>2. ASSUME NEW d \in Callers, CallStep(d) PROVE AloneInv'
  <2>1. ASSUME NEW c \in Callers
        PROVE  Alone(calls'[c], realtime', consumer', stopping'["mutation"])
    BY <1>2, ItselfAlone, OthersAlone
  <2> QED BY <2>1 DEF AloneInv
<1>3. ASSUME NEW d \in Callers, NEW op \in Ops, Request(d, op) PROVE AloneInv'
  <2>1. /\ \A c \in Callers : c # d => calls'[c].op = calls[c].op /\ calls'[c].at = calls[c].at
        /\ calls'[d].at \notin {"stop", "core"}
    BY <1>1, <1>3, RequestOps
  <2>2. \A c \in Callers : c # d => calls'[c].beside = calls[c].beside
    BY <1>1, <1>3, FenceFacts DEF Request, Enqueue
  <2>3. UNCHANGED <<realtime, consumer, stopping>> BY <1>3 DEF Request, runtimeVars, runtime
  <2> QED BY <2>1, <2>2, <2>3 DEF AloneInv, Alone
<1>4. CASE Runtime
  <2>1. CASE replacement' = replacement
    <3>1. RuntimeStep /\ calls' = calls BY <1>4, <2>1 DEF Runtime, Beneath
    <3>2. Held(realtime, consumer, stopping["mutation"])
            => Held(realtime', consumer', stopping'["mutation"])
      BY <1>1, <2>1, <3>1, RuntimeStepHolds
    <3>3. Emptied(realtime, consumer) => Emptied(realtime', consumer')
      BY <1>1, <2>1, <3>1, RuntimeStepEmpty
    <3> QED BY <3>1, <3>2, <3>3 DEF AloneInv, Alone
  <2>2. CASE replacement' # replacement
    <3>1. calls' = Beside(calls) BY <1>4, <2>2 DEF Runtime, Beneath
    <3> QED BY <1>1, <3>1, BesideFacts DEF AloneInv, Alone
  <2> QED BY <2>1, <2>2
<1>5. CASE UNCHANGED <<runtime, calls>> BY <1>5 DEF runtime, AloneInv
<1>6. CASE CoreRecovers BY <1>5, <1>6 DEF CoreRecovers
<1>7. CASE Restart BY <1>7, NoCallType DEF Restart, AloneInv, Alone
<1>8. CASE UNCHANGED vars BY <1>5, <1>8 DEF vars, runtimeVars, runtime
<1> QED BY <1>2, <1>3, <1>4, <1>6, <1>7, <1>8 DEF Next

\* "The runtime has already been stopped" when Core clears or retires the identity, for any
\* callers, identities and operations, disposals that reject included; what an answer that is
\* not serialized, or a replacement, has asked for since the stop began is excepted.
THEOREM ClearsAloneAlways == Spec => []ClearsAlone
<1>1. Init => AloneInv BY NoCallType DEF Init, AloneInv, Alone
<1>2. FullInv /\ StuckInv /\ AloneInv => ClearsAlone
  <2> SUFFICES ASSUME FullInv, StuckInv, AloneInv, NEW c \in Callers,
                      calls[c].op \in {"clear", "retire"}, calls[c].at = "core", ~calls[c].beside
               PROVE  /\ realtime.startup = "none" /\ realtime.slot = None
                      /\ consumer.startup = "none" /\ consumer.slot = None
                      /\ replacement = None => OpenConsumers = 0
    BY DEF ClearsAlone
  <2>1. Emptied(realtime, consumer) BY DEF AloneInv, Alone
  <2>2. ASSUME replacement = None PROVE OpenConsumers = 0
    <3>1. QueueInv(calls, queue) /\ RuntimeInv BY DEF FullInv, SessionInv
    <3>2. queue # <<>> /\ Head(queue) = c BY <3>1, AtHead DEF InQueue
    <3>3. ~SomeStops(calls) BY <3>1, <3>2, HeadAlone DEF StopsRuntime
    <3>4. \A o \in Owners : stopping[o].consumer = "none" BY <2>2, <3>3, NothingDisposed
    <3>5. \A x \in Strays : stopping[x].consumer = "none"
      BY <3>1 DEF RuntimeInv, Strayed, StrayPair
    <3>6. Lanes(stopping, "consumer", "dispose") = {} BY <3>4, <3>5, StopLanes DEF Lanes
    <3>7. Cardinality(Lanes(stopping, "consumer", "dispose")) = 0 BY <3>6, FS_EmptySet
    <3> QED BY <2>1, <3>7 DEF OpenConsumers, Emptied
  <2> QED BY <2>1, <2>2 DEF Emptied
<1> QED BY <1>1, <1>2, AloneStep, StartupInvariance, PTL DEF Spec
=============================================================================
