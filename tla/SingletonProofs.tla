-------------------------- MODULE SingletonProofs --------------------------
(***************************************************************************)
(* Proofs about Singleton and ClientLifecycle, for any finite set of       *)
(* threads and any number of calls, nested calls and failures.             *)
(*                                                                         *)
(* A call in the middle of a thread's stack is named by its level, counted *)
(* from the outermost call: so it keeps its number, while calls above it   *)
(* are made and return.  Each step makes a call, lets the innermost go on, *)
(* or returns from it (Calls, Moves, Returns; set_config goes on and calls *)
(* stop in one step, Stops).  The invariant IndInv says of each call what  *)
(* it has, and will need when those above it have returned: the lock       *)
(* (WriterInv), the client it stops (ShutInv), or, for set_config that     *)
(* replaces the client, that the call above it stops just that (BuildInv). *)
(***************************************************************************)
EXTENDS Singleton, SequenceTheorems, FiniteSetTheorems, TLAPS

-----------------------------------------------------------------------------
(* The levels of a stack *)

(* The n-th call of a stack, counted from the outermost, whose number stays  *)
(* the same while calls are made and return above it.                        *)
Level(s, n) == s[Len(s) + 1 - n]

LEMMA LevelType ==
  ASSUME NEW S, NEW s \in Seq(S), NEW n \in 1..Len(s)
  PROVE  Level(s, n) \in S
<1>1. Len(s) + 1 - n \in 1..Len(s)
  BY LenProperties
<1> QED BY <1>1, ElementOfSeq DEF Level

LEMMA TopLevel ==
  ASSUME NEW S, NEW s \in Seq(S), s # <<>>
  PROVE  Len(s) \in Nat /\ Len(s) > 0 /\ Level(s, Len(s)) = s[1] /\ s[1] \in S
<1>1. Len(s) \in Nat /\ Len(s) > 0
  BY EmptySeq
<1> QED BY <1>1, ElementOfSeq DEF Level

(* A call is made: it is the innermost.                                      *)
LEMMA LevelPush ==
  ASSUME NEW S, NEW s \in Seq(S), NEW f \in S
  PROVE  /\ <<f>> \o s \in Seq(S)
         /\ Len(<<f>> \o s) = Len(s) + 1
         /\ Level(<<f>> \o s, Len(s) + 1) = f
         /\ \A n \in 1..Len(s) : Level(<<f>> \o s, n) = Level(s, n)
<1>1. /\ <<f>> \in Seq(S) /\ Len(<<f>>) = 1 /\ <<f>>[1] = f
  OBVIOUS
<1>2. Len(s) \in Nat
  BY LenProperties
<1>3. /\ <<f>> \o s \in Seq(S)
      /\ Len(<<f>> \o s) = Len(s) + 1
      /\ \A i \in 1..(1 + Len(s)) :
           (<<f>> \o s)[i] = IF i <= 1 THEN <<f>>[i] ELSE s[i - 1]
  BY <1>1, <1>2, ConcatProperties
<1>4. ASSUME NEW n \in 1..Len(s)
      PROVE  Level(<<f>> \o s, n) = Level(s, n)
  <2>1. (<<f>> \o s)[Len(s) + 2 - n] = s[Len(s) + 1 - n]
    BY <1>2, <1>3
  <2> QED BY <1>2, <1>3, <2>1 DEF Level
<1>5. Level(<<f>> \o s, Len(s) + 1) = f
  BY <1>1, <1>2, <1>3 DEF Level
<1> QED BY <1>3, <1>4, <1>5

(* A call returns.                                                           *)
LEMMA LevelPop ==
  ASSUME NEW S, NEW s \in Seq(S), s # <<>>
  PROVE  /\ Tail(s) \in Seq(S)
         /\ Len(Tail(s)) = Len(s) - 1
         /\ \A n \in 1..Len(s) - 1 : Level(Tail(s), n) = Level(s, n)
<1>1. /\ Tail(s) \in Seq(S) /\ Len(Tail(s)) = Len(s) - 1
      /\ \A i \in 1..Len(Tail(s)) : Tail(s)[i] = s[i + 1]
  BY HeadTailProperties
<1>2. Len(s) \in Nat
  BY LenProperties
<1>3. ASSUME NEW n \in 1..Len(s) - 1
      PROVE  Level(Tail(s), n) = Level(s, n)
  <2>1. Tail(s)[Len(s) - n] = s[Len(s) - n + 1]
    BY <1>1, <1>2
  <2> QED BY <1>1, <1>2, <2>1 DEF Level
<1> QED BY <1>1, <1>3

(* The innermost call goes on.                                               *)
LEMMA LevelMove ==
  ASSUME NEW S, NEW s \in Seq(S), s # <<>>, NEW f \in S
  PROVE  LET r == [s EXCEPT ![1] = f]
         IN  /\ r \in Seq(S)
             /\ Len(r) = Len(s)
             /\ Level(r, Len(s)) = f
             /\ \A n \in 1..Len(s) - 1 : Level(r, n) = Level(s, n)
<1> DEFINE r == [s EXCEPT ![1] = f]
<1>1. Len(s) \in Nat /\ Len(s) > 0
  BY EmptySeq
<1>2. /\ r \in Seq(S) /\ Len(r) = Len(s)
      /\ \A j \in 1..Len(s) : r[j] = IF j = 1 THEN f ELSE s[j]
  BY <1>1, ExceptSeq
<1>3. ASSUME NEW n \in 1..Len(s) - 1
      PROVE  Level(r, n) = Level(s, n)
  <2>1. Len(s) + 1 - n \in 1..Len(s) /\ Len(s) + 1 - n # 1
    BY <1>1
  <2> QED BY <1>2, <2>1 DEF Level
<1>4. Level(r, Len(s)) = f
  BY <1>1, <1>2 DEF Level
<1> QED BY <1>2, <1>3, <1>4

(* The innermost call goes on and makes one itself.                          *)
LEMMA LevelMoveAndPush ==
  ASSUME NEW S, NEW s \in Seq(S), s # <<>>, NEW f \in S, NEW g \in S
  PROVE  LET r == <<f, g>> \o Tail(s)
         IN  /\ r \in Seq(S)
             /\ Len(r) = Len(s) + 1
             /\ Level(r, Len(s) + 1) = f
             /\ Level(r, Len(s)) = g
             /\ \A n \in 1..Len(s) - 1 : Level(r, n) = Level(s, n)
<1> DEFINE q == <<g>> \o Tail(s)
<1>1. Len(s) \in Nat /\ Len(s) > 0
  BY EmptySeq
<1>2. /\ Tail(s) \in Seq(S) /\ Len(Tail(s)) = Len(s) - 1
      /\ \A n \in 1..Len(s) - 1 : Level(Tail(s), n) = Level(s, n)
  BY LevelPop
<1>3. /\ q \in Seq(S) /\ Len(q) = Len(s) /\ Level(q, Len(s)) = g
      /\ \A n \in 1..Len(s) - 1 : Level(q, n) = Level(s, n)
  <2>1. /\ q \in Seq(S) /\ Len(q) = Len(Tail(s)) + 1
        /\ Level(q, Len(Tail(s)) + 1) = g
        /\ \A n \in 1..Len(Tail(s)) : Level(q, n) = Level(Tail(s), n)
    BY <1>2, LevelPush
  <2> HIDE DEF q
  <2> QED BY <1>1, <1>2, <2>1
<1>4. <<f>> \o q = <<f, g>> \o Tail(s)
  <2>1. <<f>> \in Seq(S) /\ <<g>> \in Seq(S)
    OBVIOUS
  <2>2. <<f>> \o <<g>> = <<f, g>>
    <3>1. /\ <<f>> \o <<g>> \in Seq(S) /\ Len(<<f>> \o <<g>>) = 2
          /\ (<<f>> \o <<g>>)[1] = f /\ (<<f>> \o <<g>>)[2] = g
      <4>1. /\ Len(<<f>>) = 1 /\ <<f>>[1] = f /\ Len(<<g>>) = 1 /\ <<g>>[1] = g
        OBVIOUS
      <4>2. /\ <<f>> \o <<g>> \in Seq(S)
            /\ Len(<<f>> \o <<g>>) = Len(<<f>>) + Len(<<g>>)
            /\ \A i \in 1..Len(<<f>>) + Len(<<g>>) : (<<f>> \o <<g>>)[i] =
                  IF i <= Len(<<f>>) THEN <<f>>[i] ELSE <<g>>[i - Len(<<f>>)]
        BY <2>1, ConcatProperties
      <4> QED BY <4>1, <4>2
    <3>2. <<f, g>> \in Seq(S) /\ Len(<<f, g>>) = 2 /\ <<f, g>>[1] = f /\ <<f, g>>[2] = g
      OBVIOUS
    <3> DEFINE p == <<f>> \o <<g>>
               q2 == <<f, g>>
    <3> HIDE DEF p, q2
    <3>3. p \in Seq(S) /\ q2 \in Seq(S) /\ Len(p) = Len(q2) /\ Len(p) = 2
      BY <3>1, <3>2 DEF p, q2
    <3>4. \A i \in 1..2 : p[i] = q2[i]
      BY <3>1, <3>2 DEF p, q2
    <3>5. p = q2
      BY <3>3, <3>4, SeqEqual
    <3> QED BY <3>5 DEF p, q2
  <2>3. (<<f>> \o <<g>>) \o Tail(s) = <<f>> \o (<<g>> \o Tail(s))
    BY <1>2, <2>1, ConcatAssociative
  <2> QED BY <2>2, <2>3
<1>5. /\ <<f>> \o q \in Seq(S) /\ Len(<<f>> \o q) = Len(s) + 1
      /\ Level(<<f>> \o q, Len(s) + 1) = f
      /\ \A n \in 1..Len(s) : Level(<<f>> \o q, n) = Level(q, n)
  <2> HIDE DEF q
  <2>1. /\ <<f>> \o q \in Seq(S) /\ Len(<<f>> \o q) = Len(q) + 1
        /\ Level(<<f>> \o q, Len(q) + 1) = f
        /\ \A n \in 1..Len(q) : Level(<<f>> \o q, n) = Level(q, n)
    BY <1>3, LevelPush
  <2> QED BY <1>3, <2>1
<1> HIDE DEF q
<1>6. Level(<<f>> \o q, Len(s)) = g
  BY <1>1, <1>3, <1>5
<1>7. \A n \in 1..Len(s) - 1 : Level(<<f>> \o q, n) = Level(s, n)
  BY <1>1, <1>3, <1>5
<1> QED BY <1>4, <1>5, <1>6, <1>7

-----------------------------------------------------------------------------
(* What a step does to the stacks *)

StackType == stack \in [Threads -> Seq(Frames)]

(* Only thread t's stack changes, and not below level k.                     *)
Same(t, k) ==
  /\ \A u \in Threads : u # t => stack'[u] = stack[u]
  /\ \A n \in 1..k : Level(stack'[t], n) = Level(stack[t], n)

Calls(t, f) ==
  /\ Len(stack'[t]) = Len(stack[t]) + 1
  /\ Level(stack'[t], Len(stack[t]) + 1) = f
  /\ Same(t, Len(stack[t]))

Moves(t, f) ==
  /\ Len(stack'[t]) = Len(stack[t])
  /\ Level(stack'[t], Len(stack[t])) = f
  /\ Same(t, Len(stack[t]) - 1)

Returns(t) ==
  /\ Len(stack'[t]) = Len(stack[t]) - 1
  /\ Same(t, Len(stack[t]) - 1)

LEMMA CallCalls ==
  ASSUME StackType, NEW t \in Threads, NEW op, NEW at, NEW c,
         Frame(op, at, c, <<>>) \in Frames, Call(t, op, at, c)
  PROVE  StackType' /\ Calls(t, Frame(op, at, c, <<>>))
<1>1. Frame(op, at, c, <<>>) \in Frames
  OBVIOUS
<1>2. stack' = [stack EXCEPT ![t] = <<Frame(op, at, c, <<>>)>> \o @]
  BY DEF Call
<1>3. stack[t] \in Seq(Frames)
  BY DEF StackType
<1>4. stack'[t] = <<Frame(op, at, c, <<>>)>> \o stack[t]
  BY <1>2 DEF StackType
<1>5. \A u \in Threads : u # t => stack'[u] = stack[u]
  BY <1>2 DEF StackType
<1>6. stack'[t] \in Seq(Frames)
  BY <1>1, <1>3, <1>4, LevelPush
<1>7. StackType'
  BY <1>2, <1>4, <1>6 DEF StackType
<1> QED BY <1>1, <1>3, <1>4, <1>5, <1>7, LevelPush DEF Calls, Same

LEMMA LeaveReturns ==
  ASSUME StackType, NEW t \in Threads, stack[t] # <<>>, Leave(t)
  PROVE  StackType' /\ Returns(t)
<1>1. stack[t] \in Seq(Frames)
  BY DEF StackType
<1>2. /\ stack'[t] = Tail(stack[t])
      /\ \A u \in Threads : u # t => stack'[u] = stack[u]
  BY DEF Leave, StackType
<1>3. stack'[t] \in Seq(Frames)
  BY <1>1, <1>2, LevelPop
<1>4. StackType'
  BY <1>3 DEF Leave, StackType
<1> QED BY <1>1, <1>2, <1>4, LevelPop DEF Returns, Same

(* The innermost call becomes f.                                             *)
LEMMA ChangeMoves ==
  ASSUME StackType, NEW t \in Threads, stack[t] # <<>>, NEW f \in Frames,
         stack' = [stack EXCEPT ![t] = [@ EXCEPT ![1] = f]]
  PROVE  StackType' /\ Moves(t, f)
<1>1. stack[t] \in Seq(Frames)
  BY DEF StackType
<1>2. /\ stack'[t] = [stack[t] EXCEPT ![1] = f]
      /\ \A u \in Threads : u # t => stack'[u] = stack[u]
  BY DEF StackType
<1>3. stack'[t] \in Seq(Frames)
  BY <1>1, <1>2, LevelMove
<1>4. StackType'
  BY <1>2, <1>3 DEF StackType
<1> QED BY <1>1, <1>2, <1>4, LevelMove DEF Moves, Same

LEMMA GotoMoves ==
  ASSUME StackType, NEW t \in Threads, stack[t] # <<>>, NEW at \in Places, Goto(t, at)
  PROVE  StackType' /\ Moves(t, [Top(t) EXCEPT !.at = at])
<1>1. stack[t] \in Seq(Frames)
  BY DEF StackType
<1>2. Top(t) \in Frames
  BY <1>1, TopLevel DEF Top
<1>3. [Top(t) EXCEPT !.at = at] \in Frames
  BY <1>2 DEF Frames
<1>4. stack' = [stack EXCEPT ![t] = [@ EXCEPT ![1] = [Top(t) EXCEPT !.at = at]]]
  BY DEF Goto, Top, StackType
<1> QED BY <1>3, <1>4, ChangeMoves

(* The call at the top of a stack is that of the highest level.              *)
LEMMA Innermost ==
  ASSUME StackType, NEW t \in Threads, stack[t] # <<>>
  PROVE  /\ Len(stack[t]) \in Nat /\ Len(stack[t]) > 0
         /\ Level(stack[t], Len(stack[t])) = Top(t)
         /\ Top(t) \in Frames
BY TopLevel DEF Top, StackType

(* set_config, about to stop the client, has the call of stop above it.      *)
Stops(t) ==
  /\ At(t, "set", "locked")
  /\ Len(stack'[t]) = Len(stack[t]) + 1
  /\ Level(stack'[t], Len(stack[t]) + 1) = Frame("stop", "enter", client, <<>>)
  /\ Level(stack'[t], Len(stack[t])) = [Top(t) EXCEPT !.at = "build"]
  /\ Same(t, Len(stack[t]) - 1)

LEMMA OrderType == Order \in Seq(ToSet(Order))
<1>1. Order \in Seq({"update processor", "event processor", "notice broadcaster", "data storage"})
  BY DEF Order
<1>2. Range(Order) = ToSet(Order)
  BY DEF Range, ToSet
<1> QED BY <1>1, <1>2, SeqOfRange

LEMMA AtTop ==
  ASSUME NEW t \in Threads, NEW op, NEW at, At(t, op, at)
  PROVE  stack[t] # <<>> /\ Top(t).op = op /\ Top(t).at = at
BY DEF At

(* Calls by the application and by listeners.                                *)
LEMMA CallEffects ==
  ASSUME StackType, NEW t \in Threads
  PROVE  /\ CallGet(t) => StackType' /\ Calls(t, Frame("get", "read", NoClient, <<>>))
         /\ CallSetConfig(t) => StackType' /\ Calls(t, Frame("set", "write", NoClient, <<>>))
         /\ \A c \in Clients :
              AppStops(t, c) => StackType' /\ Calls(t, Frame("stop", "enter", c, <<>>))
         /\ \A raises : AppConstructs(t, raises) => stack' = stack
<1>0. /\ Frame("get", "read", NoClient, <<>>) \in Frames
      /\ Frame("set", "write", NoClient, <<>>) \in Frames
      /\ \A c \in Clients : Frame("stop", "enter", c, <<>>) \in Frames
  BY EmptySeq DEF Frame, Frames, Places
<1>1. CallGet(t) => StackType' /\ Calls(t, Frame("get", "read", NoClient, <<>>))
  BY <1>0, CallCalls DEF CallGet
<1>2. CallSetConfig(t) => StackType' /\ Calls(t, Frame("set", "write", NoClient, <<>>))
  BY <1>0, CallCalls DEF CallSetConfig
<1>3. ASSUME NEW c \in Clients, AppStops(t, c)
      PROVE  StackType' /\ Calls(t, Frame("stop", "enter", c, <<>>))
  BY <1>0, <1>3, CallCalls DEF AppStops, CallStop
<1> QED BY <1>1, <1>2, <1>3 DEF AppConstructs

(* Steps of get and set_config that go on to another place.                  *)
LEMMA MoveEffects ==
  ASSUME StackType, NEW t \in Threads
  PROVE  /\ ReadLock(t) => StackType' /\ Moves(t, [Top(t) EXCEPT !.at = "look"])
         /\ LookForClient(t) => /\ StackType'
                                /\ \E at \in {"found", "missing"} :
                                     Moves(t, [Top(t) EXCEPT !.at = at])
         /\ WriteLock(t) => StackType' /\ Moves(t, [Top(t) EXCEPT !.at = "locked"])
         /\ GetFinds(t) => StackType' /\ Moves(t, [Top(t) EXCEPT !.at = "unwrite"])
         /\ SetStores(t) => StackType' /\ Moves(t, [Top(t) EXCEPT !.at = "unwrite"])
         /\ \A raises : GetBuilds(t, raises) \/ SetBuilds(t, raises) =>
              StackType' /\ Moves(t, [Top(t) EXCEPT !.at = "unwrite"])
         /\ StopWaits(t) => StackType' /\ Moves(t, [Top(t) EXCEPT !.at = "wait"])
<1>1. ASSUME NEW at \in Places, stack[t] # <<>>, Goto(t, at)
      PROVE  StackType' /\ Moves(t, [Top(t) EXCEPT !.at = at])
  BY <1>1, GotoMoves
<1>2. ReadLock(t) => StackType' /\ Moves(t, [Top(t) EXCEPT !.at = "look"])
  BY <1>1, AtTop DEF ReadLock, Places
<1>3. LookForClient(t) => /\ StackType'
                          /\ \E at \in {"found", "missing"} :
                               Moves(t, [Top(t) EXCEPT !.at = at])
  <2>1. CASE client # NoClient \/ ~configured
    BY <1>1, <2>1, AtTop DEF LookForClient, Places
  <2>2. CASE ~(client # NoClient \/ ~configured)
    BY <1>1, <2>2, AtTop DEF LookForClient, Places
  <2> QED BY <2>1, <2>2
<1>4. WriteLock(t) => StackType' /\ Moves(t, [Top(t) EXCEPT !.at = "locked"])
  BY <1>1, AtTop DEF WriteLock, Places
<1>5. GetFinds(t) => StackType' /\ Moves(t, [Top(t) EXCEPT !.at = "unwrite"])
  BY <1>1, AtTop DEF GetFinds, Places
<1>6. SetStores(t) => StackType' /\ Moves(t, [Top(t) EXCEPT !.at = "unwrite"])
  BY <1>1, AtTop DEF SetStores, Places
<1>7. ASSUME NEW raises, GetBuilds(t, raises) \/ SetBuilds(t, raises)
      PROVE  StackType' /\ Moves(t, [Top(t) EXCEPT !.at = "unwrite"])
  BY <1>1, <1>7, AtTop DEF GetBuilds, SetBuilds, Places
<1>8. StopWaits(t) => StackType' /\ Moves(t, [Top(t) EXCEPT !.at = "wait"])
  BY <1>1, AtTop DEF StopWaits, Places
<1> QED BY <1>2, <1>3, <1>4, <1>5, <1>6, <1>7, <1>8

(* Steps that return, and those of stop and set_config that do more.         *)
LEMMA OtherEffects ==
  ASSUME StackType, NEW t \in Threads, client \in Clients \cup {NoClient}
  PROVE  /\ ReleaseReadLock(t) =>
              /\ StackType'
              /\ \/ Top(t).at = "found" /\ Returns(t)
                 \/ Top(t).at = "missing" /\ Moves(t, [Top(t) EXCEPT !.at = "write"])
         /\ ReleaseWriteLock(t) => StackType' /\ Returns(t)
         /\ StopRecursive(t) \/ StopWaited(t) \/ StopEnds(t) => StackType' /\ Returns(t)
         /\ BecomeOwner(t) =>
              StackType' /\ Moves(t, [Top(t) EXCEPT !.at = "shut", !.left = Order])
         /\ StopPart(t) => StackType' /\ Moves(t, [Top(t) EXCEPT !.left = Tail(@)])
         /\ SetStops(t) => StackType' /\ Stops(t)
<1>1. ReleaseReadLock(t) =>
              /\ StackType'
              /\ \/ Top(t).at = "found" /\ Returns(t)
                 \/ Top(t).at = "missing" /\ Moves(t, [Top(t) EXCEPT !.at = "write"])
  BY GotoMoves, LeaveReturns, AtTop DEF ReleaseReadLock, Places
<1>2. ReleaseWriteLock(t) => StackType' /\ Returns(t)
  BY LeaveReturns, AtTop DEF ReleaseWriteLock
<1>3. StopRecursive(t) \/ StopWaited(t) \/ StopEnds(t) => StackType' /\ Returns(t)
  BY LeaveReturns, AtTop DEF StopRecursive, StopWaited, StopEnds
<1>4. ASSUME BecomeOwner(t)
      PROVE  StackType' /\ Moves(t, [Top(t) EXCEPT !.at = "shut", !.left = Order])
  <2>1. stack[t] # <<>> /\ Top(t) \in Frames /\ Top(t).op = "stop"
    BY <1>4, AtTop, Innermost DEF BecomeOwner
  <2>2. [Top(t) EXCEPT !.at = "shut", !.left = Order] \in Frames
    BY <2>1, OrderType DEF Frames, Places
  <2>3. stack' = [stack EXCEPT ![t] =
                    [@ EXCEPT ![1] = [Top(t) EXCEPT !.at = "shut", !.left = Order]]]
    BY <1>4, <2>1 DEF BecomeOwner, Top, StackType
  <2> QED BY <2>1, <2>2, <2>3, ChangeMoves
<1>5. ASSUME StopPart(t)
      PROVE  StackType' /\ Moves(t, [Top(t) EXCEPT !.left = Tail(@)])
  <2>1. /\ stack[t] # <<>> /\ Top(t) \in Frames
        /\ Top(t).op = "stop" /\ Top(t).left # <<>>
    BY <1>5, AtTop, Innermost DEF StopPart
  <2>2. Tail(Top(t).left) \in Seq(ToSet(Order))
    BY <2>1, HeadTailProperties DEF Frames
  <2>3. [Top(t) EXCEPT !.left = Tail(@)] \in Frames
    BY <2>1, <2>2 DEF Frames
  <2>4. stack' = [stack EXCEPT ![t] = [@ EXCEPT ![1] = [Top(t) EXCEPT !.left = Tail(@)]]]
    BY <1>5, <2>1 DEF StopPart, Top, StackType
  <2> QED BY <2>1, <2>3, <2>4, ChangeMoves
<1>6. ASSUME SetStops(t)
      PROVE  StackType' /\ Stops(t)
  <2> DEFINE f == Frame("stop", "enter", client, <<>>)
             g == [Top(t) EXCEPT !.at = "build"]
  <2>1. stack[t] # <<>> /\ Top(t) \in Frames /\ Len(stack[t]) \in Nat /\ Len(stack[t]) > 0
    BY <1>6, AtTop, Innermost DEF SetStops
  <2>2. f \in Frames
    BY <1>6, EmptySeq DEF SetStops, Frame, Frames, Places
  <2>3. g \in Frames
    BY <2>1 DEF Frames, Places
  <2>4. stack[t] \in Seq(Frames)
    BY DEF StackType
  <2>5. stack' = [stack EXCEPT ![t] = <<f, g>> \o Tail(@)]
    BY <1>6 DEF SetStops, Top
  <2>6. /\ stack'[t] = <<f, g>> \o Tail(stack[t])
        /\ \A u \in Threads : u # t => stack'[u] = stack[u]
    BY <2>5 DEF StackType
  <2>7. /\ stack'[t] \in Seq(Frames)
        /\ Len(stack'[t]) = Len(stack[t]) + 1
        /\ Level(stack'[t], Len(stack[t]) + 1) = f
        /\ Level(stack'[t], Len(stack[t])) = g
        /\ \A n \in 1..Len(stack[t]) - 1 : Level(stack'[t], n) = Level(stack[t], n)
    <3> HIDE DEF f, g
    <3> QED BY <2>1, <2>2, <2>3, <2>4, <2>6, LevelMoveAndPush
  <2>8. StackType'
    BY <2>5, <2>7 DEF StackType
  <2> QED BY <1>6, <2>6, <2>7, <2>8 DEF SetStops, Stops, Same
<1> QED BY <1>1, <1>2, <1>3, <1>4, <1>5, <1>6

-----------------------------------------------------------------------------
(* Types *)

(* TypeOK, but for the bound of the number of readers and for what is never  *)
(* in unreplaced: see ReadersInv and ServeInv.                               *)
TypeInv ==
  /\ ClientTypeOK
  /\ client \in Clients \cup {NoClient}
  /\ configured \in BOOLEAN
  /\ readers \in Nat
  /\ writer \in Threads \cup {NoThread}
  /\ byApp \in SUBSET Clients
  /\ unreplaced \in SUBSET (Clients \cup {NoClient})
  /\ direct \in SUBSET Clients

LEMMA TypeInvStack == TypeInv => StackType /\ client \in Clients \cup {NoClient}
BY DEF TypeInv, ClientTypeOK, StackType

(* A call that may still make a client.                                      *)
MayMake(f) == f.op \in {"get", "set"} /\ f.at \notin {"found", "unwrite"}

Makers ==
  {p \in Threads \X Nat : /\ p[2] \in 1..Len(stack[p[1]])
                          /\ MayMake(Level(stack[p[1]], p[2]))}

(* Every call makes one client at most: there are never more clients than    *)
(* calls.                                                                    *)
CountInv == IsFiniteSet(Makers) /\ made + Cardinality(Makers) <= calls + nested

LEMMA LenIsNat ==
  ASSUME StackType
  PROVE  \A u \in Threads : Len(stack[u]) \in Nat
BY LenProperties DEF StackType

LEMMA MakersAfterCall ==
  ASSUME StackType, NEW t \in Threads, NEW f, Calls(t, f)
  PROVE  /\ Makers' \subseteq Makers \cup {<<t, Len(stack[t]) + 1>>}
         /\ ~MayMake(f) => Makers' \subseteq Makers
<1>1. SUFFICES ASSUME NEW u \in Threads, NEW n \in Nat, <<u, n>> \in Makers'
               PROVE  <<u, n>> \in Makers \/ (u = t /\ n = Len(stack[t]) + 1 /\ MayMake(f))
  BY DEF Makers
<1>2. n \in 1..Len(stack'[u]) /\ MayMake(Level(stack'[u], n))
  BY <1>1 DEF Makers
<1>3. CASE u # t
  BY <1>2, <1>3 DEF Calls, Same, Makers
<1>4. CASE u = t /\ n \in 1..Len(stack[t])
  BY <1>2, <1>4 DEF Calls, Same, Makers
<1>5. CASE u = t /\ n = Len(stack[t]) + 1
  BY <1>2, <1>5 DEF Calls
<1> QED BY <1>2, <1>3, <1>4, <1>5, LenIsNat DEF Calls

LEMMA MakersAfterMove ==
  ASSUME StackType, NEW t \in Threads, stack[t] # <<>>, NEW f, Moves(t, f),
         MayMake(f) => MayMake(Top(t))
  PROVE  /\ Makers' \subseteq Makers
         /\ ~MayMake(f) => Makers' \subseteq Makers \ {<<t, Len(stack[t])>>}
         /\ MayMake(Top(t)) => <<t, Len(stack[t])>> \in Makers
<1>1. /\ Len(stack[t]) \in Nat /\ Len(stack[t]) > 0
      /\ Level(stack[t], Len(stack[t])) = Top(t)
  BY Innermost
<1>2. ASSUME NEW u \in Threads, NEW n \in Nat, <<u, n>> \in Makers'
      PROVE  <<u, n>> \in Makers /\ (u = t /\ n = Len(stack[t]) => MayMake(f))
  <2>1. n \in 1..Len(stack'[u]) /\ MayMake(Level(stack'[u], n))
    BY <1>2 DEF Makers
  <2>2. CASE u # t
    BY <2>1, <2>2 DEF Moves, Same, Makers
  <2>3. CASE u = t /\ n \in 1..Len(stack[t]) - 1
    BY <1>1, <2>1, <2>3 DEF Moves, Same, Makers
  <2>4. CASE u = t /\ n = Len(stack[t])
    BY <1>1, <2>1, <2>4 DEF Moves, Makers
  <2> QED BY <1>1, <2>1, <2>2, <2>3, <2>4 DEF Moves
<1>3. \A p \in Makers' : p \in Threads \X Nat
  BY DEF Makers
<1>4. MayMake(Top(t)) => <<t, Len(stack[t])>> \in Makers
  BY <1>1 DEF Makers
<1> QED BY <1>1, <1>2, <1>3, <1>4

LEMMA MakersAfterReturn ==
  ASSUME StackType, NEW t \in Threads, stack[t] # <<>>, Returns(t)
  PROVE  Makers' \subseteq Makers
<1>1. Len(stack[t]) \in Nat /\ Len(stack[t]) > 0
  BY Innermost
<1>2. ASSUME NEW u \in Threads, NEW n \in Nat, <<u, n>> \in Makers'
      PROVE  <<u, n>> \in Makers
  <2>1. n \in 1..Len(stack'[u]) /\ MayMake(Level(stack'[u], n))
    BY <1>2 DEF Makers
  <2>2. CASE u # t
    BY <2>1, <2>2 DEF Returns, Same, Makers
  <2>3. CASE u = t
    BY <1>1, <2>1, <2>3 DEF Returns, Same, Makers
  <2> QED BY <2>2, <2>3
<1>3. \A p \in Makers' : p \in Threads \X Nat
  BY DEF Makers
<1> QED BY <1>2, <1>3

LEMMA MakersAfterStops ==
  ASSUME StackType, NEW t \in Threads, stack[t] # <<>>, Stops(t), MayMake(Top(t))
  PROVE  Makers' \subseteq Makers
<1>1. /\ Len(stack[t]) \in Nat /\ Len(stack[t]) > 0
      /\ Level(stack[t], Len(stack[t])) = Top(t)
  BY Innermost
<1>2. ASSUME NEW u \in Threads, NEW n \in Nat, <<u, n>> \in Makers'
      PROVE  <<u, n>> \in Makers
  <2>1. n \in 1..Len(stack'[u]) /\ MayMake(Level(stack'[u], n))
    BY <1>2 DEF Makers
  <2>2. CASE u # t
    BY <2>1, <2>2 DEF Stops, Same, Makers
  <2>3. CASE u = t /\ n \in 1..Len(stack[t]) - 1
    BY <1>1, <2>1, <2>3 DEF Stops, Same, Makers
  <2>4. CASE u = t /\ n = Len(stack[t])
    BY <1>1, <2>4 DEF Makers
  <2>5. CASE u = t /\ n = Len(stack[t]) + 1
    BY <2>1, <2>5 DEF Stops, Frame, MayMake
  <2> QED BY <1>1, <2>1, <2>2, <2>3, <2>4, <2>5 DEF Stops
<1>3. \A p \in Makers' : p \in Threads \X Nat
  BY DEF Makers
<1> QED BY <1>2, <1>3

LEMMA NaturalBounds == MaxCalls \in Nat /\ MaxNested \in Nat /\ MaxFailures \in Nat
BY BoundsAssumption DEF BoundsAssumption

(* There is room for the client of a call that may make one, and of one      *)
(* that the application makes.                                               *)
LEMMA RoomForClient ==
  ASSUME TypeInv, CountInv, NEW t \in Threads
  PROVE  /\ stack[t] # <<>> /\ MayMake(Top(t)) => made + 1 \in Clients
         /\ calls < MaxCalls => made + 1 \in Clients
<1>1. /\ made \in Nat /\ calls \in 0..MaxCalls /\ nested \in 0..MaxNested
  BY NaturalBounds DEF TypeInv, ClientTypeOK
<1>2. Cardinality(Makers) \in Nat
  BY FS_CardinalityType DEF CountInv
<1>3. ASSUME stack[t] # <<>>, MayMake(Top(t))
      PROVE  Cardinality(Makers) > 0
  <2>1. <<t, Len(stack[t])>> \in Makers
    BY <1>3, TypeInvStack, Innermost DEF Makers
  <2> QED BY <1>2, <2>1, FS_EmptySet DEF CountInv
<1> QED BY <1>1, <1>2, <1>3, NaturalBounds DEF CountInv, Clients

LEMMA TypeAfterConstruct ==
  ASSUME TypeInv, NEW raises \in BOOLEAN, made + 1 \in Clients, Construct(made + 1, raises)
  PROVE  /\ made' \in Clients /\ made' = made + 1
         /\ running' \in [Clients -> SUBSET ToSet(Construction)]
         /\ lost' \in SUBSET Clients
         /\ failures' \in 0..MaxFailures
         /\ UNCHANGED <<broken, lifeVars>>
<1>1. running' \in [Clients -> SUBSET ToSet(Construction)]
  <2>1. \A n \in 0..Len(Construction) :
          {Construction[i] : i \in 1..n} \subseteq ToSet(Construction)
    <3>1. Len(Construction) = 4 /\ DOMAIN Construction = 1..4
      BY DEF Construction
    <3> QED BY <3>1 DEF ToSet
  <2> QED BY <2>1 DEF Construct, TypeInv, ClientTypeOK
<1>2. failures' \in 0..MaxFailures
  BY NaturalBounds DEF Construct, TypeInv, ClientTypeOK
<1> QED BY <1>1, <1>2 DEF Construct, TypeInv, ClientTypeOK

LEMMA MayCallCounts ==
  ASSUME TypeInv, NEW t \in Threads, MayCall(t)
  PROVE  /\ calls' \in 0..MaxCalls /\ nested' \in 0..MaxNested
         /\ calls' + nested' = calls + nested + 1
<1>1. calls \in 0..MaxCalls /\ nested \in 0..MaxNested
  BY DEF TypeInv, ClientTypeOK
<1>2. CASE calls < MaxCalls /\ calls' = calls + 1 /\ UNCHANGED nested
  BY <1>1, <1>2, NaturalBounds
<1>3. CASE nested < MaxNested /\ nested' = nested + 1 /\ UNCHANGED calls
  BY <1>1, <1>3, NaturalBounds
<1> QED BY <1>2, <1>3 DEF MayCall

(* The frame of the innermost call.                                          *)
LEMMA TopFrame ==
  ASSUME TypeInv, NEW t \in Threads, stack[t] # <<>>
  PROVE  /\ Top(t) \in Frames
         /\ Top(t).op = "stop" => /\ Top(t).client \in Clients
                                  /\ Top(t).left \in Seq(ToSet(Order))
<1>1. Top(t) \in Frames
  BY TypeInvStack, Innermost
<1> QED BY <1>1 DEF Frames

LEMMA TypeStep == TypeInv /\ CountInv /\ [Next]_vars => TypeInv'
<1> SUFFICES ASSUME TypeInv, CountInv, [Next]_vars PROVE TypeInv'
  OBVIOUS
<1> USE NaturalBounds
<1>0. StackType /\ client \in Clients \cup {NoClient}
  BY TypeInvStack
<1>1. CASE UNCHANGED vars
  BY <1>1 DEF TypeInv, ClientTypeOK, vars, clientVars, partVars, lifeVars, boundVars,
              singletonVars, lockVars, askedVars
<1>2. ASSUME NEW t \in Threads, CallGet(t) \/ CallSetConfig(t)
      PROVE  TypeInv'
  <2>1. StackType'
    BY <1>0, <1>2, CallEffects
  <2>2. calls' \in 0..MaxCalls /\ nested' \in 0..MaxNested
    BY <1>2, MayCallCounts DEF CallGet, CallSetConfig, Call
  <2> QED BY <1>2, <2>1, <2>2 DEF CallGet, CallSetConfig, TypeInv, ClientTypeOK,
       StackType, partVars, lifeVars, singletonVars, lockVars, askedVars
<1>3. ASSUME NEW t \in Threads, NEW c \in Clients, AppStops(t, c)
      PROVE  TypeInv'
  <2>1. StackType'
    BY <1>0, <1>3, CallEffects
  <2>2. calls' \in 0..MaxCalls /\ nested' \in 0..MaxNested
    BY <1>3, MayCallCounts DEF AppStops, CallStop, Call
  <2> QED BY <1>3, <2>1, <2>2 DEF AppStops, CallStop, TypeInv, ClientTypeOK,
       StackType, partVars, lifeVars, singletonVars, lockVars
<1>4. ASSUME NEW t \in Threads, NEW raises \in BOOLEAN, AppConstructs(t, raises)
      PROVE  TypeInv'
  <2>1. calls < MaxCalls /\ calls' \in 0..MaxCalls /\ nested' \in 0..MaxNested
    BY <1>4, MayCallCounts DEF AppConstructs, MayCall, At
  <2>2. made + 1 \in Clients
    BY <2>1, RoomForClient
  <2>3. /\ made' \in Clients
        /\ running' \in [Clients -> SUBSET ToSet(Construction)]
        /\ lost' \in SUBSET Clients
        /\ failures' \in 0..MaxFailures
        /\ UNCHANGED <<broken, lifeVars>>
    BY <1>4, <2>2, TypeAfterConstruct DEF AppConstructs
  <2>4. made' \in 0..(MaxCalls + MaxNested)
    BY <2>3 DEF Clients
  <2>5. direct' \in SUBSET Clients
    BY <1>4, <2>2 DEF AppConstructs, TypeInv
  <2> QED BY <1>4, <2>1, <2>3, <2>4, <2>5 DEF AppConstructs, TypeInv, ClientTypeOK,
       lifeVars, singletonVars, lockVars
<1>5. ASSUME NEW t \in Threads, NEW raises \in BOOLEAN,
             GetBuilds(t, raises) \/ SetBuilds(t, raises)
      PROVE  TypeInv'
  <2>1. stack[t] # <<>> /\ MayMake(Top(t))
    BY <1>5 DEF GetBuilds, SetBuilds, At, MayMake
  <2>2. made + 1 \in Clients
    BY <2>1, RoomForClient
  <2>3. /\ made' \in Clients
        /\ running' \in [Clients -> SUBSET ToSet(Construction)]
        /\ lost' \in SUBSET Clients
        /\ failures' \in 0..MaxFailures
        /\ UNCHANGED <<broken, lifeVars>>
    BY <1>5, <2>2, TypeAfterConstruct DEF GetBuilds, SetBuilds
  <2>4. StackType'
    BY <1>0, <1>5, MoveEffects
  <2>5. client' \in Clients \cup {NoClient}
    BY <1>0, <1>5, <2>2 DEF GetBuilds, SetBuilds
  <2>6. unreplaced' \in SUBSET (Clients \cup {NoClient})
    <3>1. CASE GetBuilds(t, raises)
      BY <3>1 DEF GetBuilds, TypeInv, askedVars
    <3>2. CASE SetBuilds(t, raises)
      BY <3>2 DEF SetBuilds, TypeInv
    <3> QED BY <1>5, <3>1, <3>2
  <2>7. made' \in 0..(MaxCalls + MaxNested)
    BY <2>3 DEF Clients
  <2>8. UNCHANGED <<calls, nested, configured, readers, writer, byApp, direct>>
    BY <1>5 DEF GetBuilds, SetBuilds, lockVars, askedVars
  <2> QED BY <2>3, <2>4, <2>5, <2>6, <2>7, <2>8 DEF TypeInv, ClientTypeOK, StackType, lifeVars
<1>6. ASSUME NEW t \in Threads, ReadLock(t) \/ ReleaseReadLock(t)
      PROVE  TypeInv'
  <2>1. StackType'
    BY <1>0, <1>6, MoveEffects, OtherEffects
  <2>2. readers' \in Nat
    BY <1>6 DEF ReadLock, ReleaseReadLock, OneLess, TypeInv
  <2> QED BY <1>6, <2>1, <2>2 DEF ReadLock, ReleaseReadLock, OnlyStack, TypeInv,
       ClientTypeOK, StackType, partVars, lifeVars, boundVars, singletonVars, askedVars
<1>7. ASSUME NEW t \in Threads,
             \/ LookForClient(t) \/ WriteLock(t) \/ ReleaseWriteLock(t)
             \/ GetFinds(t) \/ SetStores(t) \/ SetStops(t)
      PROVE  TypeInv'
  <2>1. StackType'
    BY <1>0, <1>7, MoveEffects, OtherEffects
  <2>2. configured' \in BOOLEAN
    BY <1>7 DEF LookForClient, WriteLock, ReleaseWriteLock, GetFinds, SetStores, SetStops,
                TypeInv, singletonVars
  <2> QED BY <1>7, <2>1, <2>2 DEF LookForClient, WriteLock, ReleaseWriteLock, GetFinds,
       SetStores, SetStops, OnlyStack, TypeInv, ClientTypeOK, StackType, partVars, lifeVars,
       boundVars, singletonVars, lockVars, askedVars
<1>8. ASSUME NEW t \in Threads, Stop(t), UNCHANGED <<singletonVars, lockVars, askedVars>>
      PROVE  TypeInv'
  <2>1. StackType'
    BY <1>0, <1>8, MoveEffects, OtherEffects DEF Stop
  <2>2. Top(t).client \in Clients /\ Top(t).left \in Seq(ToSet(Order))
    BY <1>8, AtTop, TopFrame DEF Stop, BecomeOwner, StopRecursive, StopWaits, StopWaited,
                                 StopPart, StopEnds
  <2>3. SUFFICES ClientTypeOK'
    BY <1>8 DEF TypeInv, singletonVars, lockVars, askedVars
  <2>4. CASE BecomeOwner(t)
    BY <2>1, <2>4 DEF BecomeOwner, TypeInv, ClientTypeOK, StackType, partVars, boundVars
  <2>5. CASE StopRecursive(t) \/ StopWaits(t)
    BY <2>1, <2>5 DEF StopRecursive, StopWaits, TypeInv, ClientTypeOK, StackType, partVars,
                      lifeVars, boundVars
  <2>6. CASE StopWaited(t)
    BY <2>1, <2>2, <2>6 DEF StopWaited, TypeInv, ClientTypeOK, StackType, partVars, boundVars
  <2>7. CASE StopPart(t)
    <3>1. Head(Top(t).left) \in ToSet(Order)
      BY <2>2, <2>7, HeadTailProperties DEF StopPart
    <3>2. stopped' \in [Clients -> Seq(ToSet(Order))]
      BY <2>2, <2>7, <3>1, AppendProperties DEF StopPart, TypeInv, ClientTypeOK
    <3>3. running \in [Clients -> SUBSET ToSet(Construction)] /\ broken \in SUBSET Clients
      BY DEF TypeInv, ClientTypeOK
    <3>4. running' \in [Clients -> SUBSET ToSet(Construction)]
      BY <2>7, <3>3 DEF StopPart
    <3>5. broken' \in SUBSET Clients
      BY <2>2, <2>7, <3>3 DEF StopPart
    <3>6. failures' \in 0..MaxFailures
      BY <2>7 DEF StopPart, TypeInv, ClientTypeOK
    <3> QED BY <2>1, <2>7, <3>2, <3>4, <3>5, <3>6 DEF StopPart, TypeInv, ClientTypeOK, StackType
  <2>8. CASE StopEnds(t)
    BY <2>1, <2>2, <2>8 DEF StopEnds, TypeInv, ClientTypeOK, StackType, partVars, boundVars
  <2> QED BY <1>8, <2>4, <2>5, <2>6, <2>7, <2>8 DEF Stop
<1> QED BY <1>1, <1>2, <1>3, <1>4, <1>5, <1>6, <1>7, <1>8 DEF Next, Step

LEMMA CountAfter ==
  ASSUME TypeInv, TypeInv', CountInv, NEW S \in SUBSET Makers, Makers' \subseteq S,
         made' + Cardinality(S) <= calls' + nested'
  PROVE  CountInv'
<1>1. IsFiniteSet(S) /\ Cardinality(S) \in Nat
  BY FS_Subset, FS_CardinalityType DEF CountInv
<1>2. IsFiniteSet(Makers') /\ Cardinality(Makers') <= Cardinality(S)
  BY <1>1, FS_Subset
<1>3. Cardinality(Makers') \in Nat
  BY <1>2, FS_CardinalityType
<1>4. made' \in Nat /\ calls' \in Nat /\ nested' \in Nat
  BY NaturalBounds DEF TypeInv, ClientTypeOK
<1> QED BY <1>1, <1>2, <1>3, <1>4 DEF CountInv

LEMMA CountStep == TypeInv /\ CountInv /\ [Next]_vars => CountInv'
<1> SUFFICES ASSUME TypeInv, CountInv, [Next]_vars PROVE CountInv'
  OBVIOUS
<1>0. StackType /\ (client \in Clients \cup {NoClient}) /\ TypeInv'
  BY TypeInvStack, TypeStep
<1>a. /\ made \in Nat /\ calls \in Nat /\ nested \in Nat /\ Cardinality(Makers) \in Nat
      /\ made + Cardinality(Makers) <= calls + nested
  BY NaturalBounds, FS_CardinalityType DEF CountInv, TypeInv, ClientTypeOK
(* A step that makes no client and after which no other call may make one.   *)
<1>b. ASSUME Makers' \subseteq Makers, UNCHANGED <<made, calls, nested>>
      PROVE  CountInv'
  BY <1>0, <1>a, <1>b, CountAfter
<1>1. CASE UNCHANGED vars
  <2>1. UNCHANGED <<stack, made, calls, nested>>
    BY <1>1 DEF vars, clientVars, partVars, boundVars
  <2> QED BY <1>b, <2>1 DEF Makers
<1>2. ASSUME NEW t \in Threads, NEW f, MayCall(t), Calls(t, f), UNCHANGED made
      PROVE  CountInv'
  <2> DEFINE S == Makers \cup {<<t, Len(stack[t]) + 1>>}
  <2>1. /\ IsFiniteSet(S) /\ Cardinality(S) \in Nat
        /\ Cardinality(S) <= Cardinality(Makers) + 1
    <3>1. IsFiniteSet(Makers)
      BY DEF CountInv
    <3>2. /\ IsFiniteSet(S)
          /\ \/ Cardinality(S) = Cardinality(Makers)
             \/ Cardinality(S) = Cardinality(Makers) + 1
      BY <3>1, FS_AddElement
    <3> QED BY <1>a, <3>2
  <2>2. Makers' \subseteq S
    BY <1>0, <1>2, MakersAfterCall
  <2> HIDE DEF S
  <2>3. /\ IsFiniteSet(Makers') /\ Cardinality(Makers') <= Cardinality(S)
        /\ Cardinality(Makers') \in Nat
    BY <2>1, <2>2, FS_Subset, FS_CardinalityType
  <2>4. calls' + nested' = calls + nested + 1 /\ calls' \in Nat /\ nested' \in Nat
    BY <1>2, MayCallCounts, NaturalBounds
  <2>5. made' + Cardinality(Makers') <= calls' + nested'
    <3>1. made + Cardinality(Makers') <= calls + nested + 1
      BY <1>a, <2>1, <2>3
    <3> QED BY <1>2, <2>4, <3>1
  <2> QED BY <2>3, <2>5 DEF CountInv
<1>3. ASSUME NEW t \in Threads, CallGet(t) \/ CallSetConfig(t)
      PROVE  CountInv'
  <2>1. MayCall(t) /\ UNCHANGED made
    BY <1>3 DEF CallGet, CallSetConfig, Call, partVars
  <2> QED BY <1>0, <1>2, <1>3, <2>1, CallEffects
<1>4. ASSUME NEW t \in Threads, NEW c \in Clients, AppStops(t, c)
      PROVE  CountInv'
  <2>1. MayCall(t) /\ UNCHANGED made
    BY <1>4 DEF AppStops, CallStop, Call, partVars
  <2> QED BY <1>0, <1>2, <1>4, <2>1, CallEffects
<1>5. ASSUME NEW t \in Threads, NEW raises \in BOOLEAN, AppConstructs(t, raises)
      PROVE  CountInv'
  <2>1. Makers' = Makers
    BY <1>0, <1>5, CallEffects DEF Makers
  <2>2. made' = made + 1 /\ calls' + nested' = calls + nested + 1
    BY <1>5, MayCallCounts DEF AppConstructs, Construct
  <2> QED BY <1>0, <1>a, <2>1, <2>2, CountAfter
<1>6. ASSUME NEW t \in Threads, NEW raises \in BOOLEAN,
             GetBuilds(t, raises) \/ SetBuilds(t, raises)
      PROVE  CountInv'
  <2> DEFINE p == <<t, Len(stack[t])>>
             f == [Top(t) EXCEPT !.at = "unwrite"]
  <2>1. stack[t] # <<>> /\ MayMake(Top(t))
    BY <1>6 DEF GetBuilds, SetBuilds, At, MayMake
  <2>2. ~MayMake(f)
    BY <1>0, <2>1, TopFrame DEF MayMake, Frames
  <2>3. Moves(t, f)
    BY <1>0, <1>6, MoveEffects
  <2>4. Makers' \subseteq Makers \ {p} /\ p \in Makers
    BY <1>0, <2>1, <2>2, <2>3, MakersAfterMove
  <2>5. Cardinality(Makers \ {p}) = Cardinality(Makers) - 1
    BY <2>4, FS_RemoveElement DEF CountInv
  <2>6. made' = made + 1 /\ UNCHANGED <<calls, nested>>
    BY <1>6 DEF GetBuilds, SetBuilds, Construct
  <2> QED BY <1>0, <1>a, <2>4, <2>5, <2>6, CountAfter
<1>7. ASSUME NEW t \in Threads, NEW f, stack[t] # <<>>, Moves(t, f),
             MayMake(f) => MayMake(Top(t)), UNCHANGED <<made, calls, nested>>
      PROVE  CountInv'
  BY <1>0, <1>7, <1>b, MakersAfterMove
<1>8. ASSUME NEW t \in Threads, stack[t] # <<>>, Returns(t), UNCHANGED <<made, calls, nested>>
      PROVE  CountInv'
  BY <1>0, <1>8, <1>b, MakersAfterReturn
<1>9. ASSUME NEW t \in Threads,
             \/ ReadLock(t) \/ ReleaseReadLock(t) \/ LookForClient(t) \/ WriteLock(t)
             \/ GetFinds(t) \/ SetStores(t) \/ StopWaits(t) \/ BecomeOwner(t) \/ StopPart(t)
      PROVE  CountInv'
  <2>1. UNCHANGED <<made, calls, nested>>
    BY <1>9 DEF ReadLock, ReleaseReadLock, LookForClient, WriteLock, GetFinds, SetStores,
                StopWaits, BecomeOwner, StopPart, OnlyStack, partVars, boundVars
  <2>2. /\ stack[t] # <<>>
        /\ \/ Top(t).at \notin {"found", "unwrite"} /\ Top(t).op \in {"get", "set"}
           \/ ReleaseReadLock(t)
           \/ Top(t).op = "stop"
    BY <1>9, AtTop DEF ReadLock, ReleaseReadLock, LookForClient, WriteLock, GetFinds,
                       SetStores, StopWaits, BecomeOwner, StopPart
  <2>3. Top(t) \in Frames
    BY <2>2, TopFrame
  <2>4. CASE ReleaseReadLock(t)
    <3>1. CASE Returns(t)
      BY <1>8, <2>1, <2>2, <3>1
    <3>2. CASE Top(t).at = "missing" /\ Moves(t, [Top(t) EXCEPT !.at = "write"])
      <4>1. MayMake([Top(t) EXCEPT !.at = "write"]) => MayMake(Top(t))
        BY <2>3, <3>2 DEF MayMake, Frames
      <4> QED BY <1>7, <2>1, <2>2, <3>2, <4>1
    <3> QED BY <1>0, <2>4, <3>1, <3>2, OtherEffects
  <2>5. CASE /\ Top(t).at \notin {"found", "unwrite"} /\ Top(t).op \in {"get", "set"}
             /\ ~ReleaseReadLock(t)
    <3>1. MayMake(Top(t))
      BY <2>5 DEF MayMake
    <3>2. PICK f : Moves(t, f)
      <4>1. ~BecomeOwner(t) /\ ~StopPart(t)
        BY <2>5 DEF BecomeOwner, StopPart, At
      <4>2. CASE LookForClient(t)
        BY <1>0, <4>2, MoveEffects
      <4>3. CASE ReadLock(t) \/ WriteLock(t)
        BY <1>0, <4>3, MoveEffects
      <4>4. CASE GetFinds(t) \/ SetStores(t) \/ StopWaits(t)
        BY <1>0, <4>4, MoveEffects
      <4> QED BY <1>9, <2>5, <4>1, <4>2, <4>3, <4>4
    <3> QED BY <1>7, <2>1, <2>2, <3>1, <3>2
  <2>6. CASE Top(t).op = "stop" /\ ~ReleaseReadLock(t)
    <3>1. StopWaits(t) \/ BecomeOwner(t) \/ StopPart(t)
      BY <1>9, <2>6 DEF ReadLock, LookForClient, WriteLock, GetFinds, SetStores, At
    <3>2. PICK f : Moves(t, f) /\ f.op = "stop"
      <4>1. /\ [Top(t) EXCEPT !.at = "wait"].op = "stop"
            /\ [Top(t) EXCEPT !.at = "shut", !.left = Order].op = "stop"
            /\ [Top(t) EXCEPT !.left = Tail(@)].op = "stop"
        BY <2>3, <2>6 DEF Frames
      <4>2. CASE StopWaits(t)
        BY <1>0, <4>1, <4>2, MoveEffects
      <4>3. CASE BecomeOwner(t)
        BY <1>0, <4>1, <4>3, OtherEffects
      <4>4. CASE StopPart(t)
        BY <1>0, <4>1, <4>4, OtherEffects
      <4> QED BY <3>1, <4>2, <4>3, <4>4
    <3>3. ~MayMake(f)
      BY <3>2 DEF MayMake
    <3> QED BY <1>7, <2>1, <2>2, <3>2, <3>3
  <2> QED BY <2>2, <2>4, <2>5, <2>6
<1>10. ASSUME NEW t \in Threads,
              \/ ReleaseWriteLock(t) \/ StopRecursive(t) \/ StopWaited(t) \/ StopEnds(t)
       PROVE  CountInv'
  <2>1. stack[t] # <<>> /\ UNCHANGED <<made, calls, nested>>
    BY <1>10, AtTop DEF ReleaseWriteLock, StopRecursive, StopWaited, StopEnds, OnlyStack,
                        partVars, boundVars
  <2> QED BY <1>0, <1>8, <1>10, <2>1, OtherEffects
<1>11. ASSUME NEW t \in Threads, SetStops(t)
       PROVE  CountInv'
  <2>1. stack[t] # <<>> /\ MayMake(Top(t)) /\ UNCHANGED <<made, calls, nested>>
    BY <1>11 DEF SetStops, At, MayMake, OnlyStack, partVars, boundVars
  <2> QED BY <1>0, <1>b, <1>11, <2>1, OtherEffects, MakersAfterStops
<1> QED BY <1>1, <1>3, <1>4, <1>5, <1>6, <1>9, <1>10, <1>11 DEF Next, Step, Stop

-----------------------------------------------------------------------------
(* The lock *)

Build(f) == f.op = "set" /\ f.at = "build"
Shut(f) == f.op = "stop" /\ f.at = "shut"
Holds(f) == f.at \in {"locked", "build", "unwrite"}
Reads(f) == f.at \in {"look", "found", "missing"}

(* A call below another one is set_config that stops the client or stop that *)
(* reports OFF to the listeners.                                             *)
Parked(f) == Build(f) \/ (Shut(f) /\ f.left = Order)

ParkedInv ==
  \A t \in Threads : \A n \in 1..Len(stack[t]) :
    n # Len(stack[t]) => Parked(Level(stack[t], n))

(* The steps of a thread, those of stop with what they leave alone.          *)
LEMMA NextCases ==
  ASSUME [Next]_vars
  PROVE  \/ UNCHANGED vars
         \/ \E t \in Threads :
              \/ CallGet(t) \/ CallSetConfig(t) \/ (\E c \in Clients : AppStops(t, c))
              \/ \E raises \in BOOLEAN : AppConstructs(t, raises)
              \/ ReadLock(t) \/ LookForClient(t) \/ ReleaseReadLock(t)
              \/ WriteLock(t) \/ ReleaseWriteLock(t) \/ GetFinds(t)
              \/ \E raises \in BOOLEAN : GetBuilds(t, raises) \/ SetBuilds(t, raises)
              \/ SetStores(t) \/ SetStops(t)
              \/ /\ BecomeOwner(t) \/ StopRecursive(t) \/ StopWaits(t) \/ StopWaited(t)
                    \/ StopPart(t) \/ StopEnds(t)
                 /\ UNCHANGED <<singletonVars, lockVars, askedVars>>
BY DEF Next, Step, Stop

(* What a step does to the stack of a thread, and when.                      *)
LEMMA StepKinds ==
  ASSUME TypeInv, [Next]_vars
  PROVE  \/ stack' = stack
         \/ \E t \in Threads :
              \/ MayCall(t) /\ \E f : Calls(t, f)
              \/ /\ stack[t] # <<>>
                 /\ \/ Returns(t)
                    \/ \E f : Moves(t, f)
                    \/ Stops(t)
<1>0. StackType /\ client \in Clients \cup {NoClient}
  BY TypeInvStack
<1>1. CASE UNCHANGED vars
  BY <1>1 DEF vars, clientVars
<1>2. ASSUME NEW t \in Threads, CallGet(t) \/ CallSetConfig(t)
      PROVE  MayCall(t) /\ \E f : Calls(t, f)
  BY <1>0, <1>2, CallEffects DEF CallGet, CallSetConfig, Call
<1>3. ASSUME NEW t \in Threads, NEW c \in Clients, AppStops(t, c)
      PROVE  MayCall(t) /\ \E f : Calls(t, f)
  BY <1>0, <1>3, CallEffects DEF AppStops, CallStop, Call
<1>4. ASSUME NEW t \in Threads, NEW raises \in BOOLEAN, AppConstructs(t, raises)
      PROVE  stack' = stack
  BY <1>0, <1>4, CallEffects
<1>5. ASSUME NEW t \in Threads, Step(t)
      PROVE  /\ stack[t] # <<>>
             /\ Returns(t) \/ (\E f : Moves(t, f)) \/ Stops(t)
  <2>1. CASE LookForClient(t)
    BY <1>0, <2>1, MoveEffects, AtTop DEF LookForClient
  <2>2. CASE ReadLock(t) \/ WriteLock(t) \/ GetFinds(t) \/ SetStores(t) \/ StopWaits(t)
    <3>1. stack[t] # <<>>
      BY <2>2, AtTop DEF ReadLock, WriteLock, GetFinds, SetStores, StopWaits
    <3>2. PICK at \in Places : Moves(t, [Top(t) EXCEPT !.at = at])
      BY <1>0, <2>2, MoveEffects DEF Places
    <3> QED BY <3>1, <3>2
  <2>3. ASSUME NEW raises \in BOOLEAN, GetBuilds(t, raises) \/ SetBuilds(t, raises)
        PROVE  stack[t] # <<>> /\ \E f : Moves(t, f)
    BY <1>0, <2>3, MoveEffects, AtTop DEF GetBuilds, SetBuilds
  <2>4. CASE ReleaseReadLock(t)
    BY <1>0, <2>4, OtherEffects, AtTop DEF ReleaseReadLock
  <2>5. CASE ReleaseWriteLock(t) \/ StopRecursive(t) \/ StopWaited(t) \/ StopEnds(t)
    BY <1>0, <2>5, OtherEffects, AtTop DEF ReleaseWriteLock, StopRecursive, StopWaited, StopEnds
  <2>6. CASE BecomeOwner(t)
    BY <1>0, <2>6, OtherEffects, AtTop DEF BecomeOwner
  <2>7. CASE StopPart(t)
    BY <1>0, <2>7, OtherEffects, AtTop DEF StopPart
  <2>8. CASE SetStops(t)
    BY <1>0, <2>8, OtherEffects, AtTop DEF SetStops
  <2> QED BY <1>5, <2>1, <2>2, <2>3, <2>4, <2>5, <2>6, <2>7, <2>8 DEF Step, Stop
<1> QED BY <1>1, <1>2, <1>3, <1>4, <1>5 DEF Next

LEMMA ParkedStep == TypeInv /\ ParkedInv /\ [Next]_vars => ParkedInv'
<1> SUFFICES ASSUME TypeInv, ParkedInv, [Next]_vars PROVE ParkedInv'
  OBVIOUS
<1>0. StackType
  BY TypeInvStack
<1>1. CASE stack' = stack
  BY <1>1 DEF ParkedInv
<1>2. ASSUME NEW t \in Threads, MayCall(t), NEW f, Calls(t, f)
      PROVE  ParkedInv'
  <2>1. Len(stack[t]) \in Nat
    BY <1>0, LenIsNat
  <2>2. stack[t] # <<>> => Parked(Level(stack[t], Len(stack[t])))
    BY <1>0, <1>2, Innermost DEF MayCall, At, Parked, Shut
  <2>3. stack[t] = <<>> => Len(stack[t]) = 0
    BY EmptySeq
  <2>4. \A n \in 1..Len(stack[t]) : Parked(Level(stack[t], n))
    BY <2>1, <2>2, <2>3 DEF ParkedInv
  <2> QED BY <1>2, <2>1, <2>4 DEF ParkedInv, Calls, Same
<1>3. ASSUME NEW t \in Threads, stack[t] # <<>>, Returns(t)
      PROVE  ParkedInv'
  <2>1. Len(stack[t]) \in Nat
    BY <1>0, LenIsNat
  <2> QED BY <1>3, <2>1 DEF ParkedInv, Returns, Same
<1>4. ASSUME NEW t \in Threads, stack[t] # <<>>, NEW f, Moves(t, f)
      PROVE  ParkedInv'
  <2>1. Len(stack[t]) \in Nat
    BY <1>0, LenIsNat
  <2> QED BY <1>4, <2>1 DEF ParkedInv, Moves, Same
<1>5. ASSUME NEW t \in Threads, stack[t] # <<>>, Stops(t)
      PROVE  ParkedInv'
  <2>1. Len(stack[t]) \in Nat
    BY <1>0, LenIsNat
  <2>2. Parked(Level(stack'[t], Len(stack[t])))
    <3>1. Level(stack'[t], Len(stack[t])) = [Top(t) EXCEPT !.at = "build"]
      BY <1>5 DEF Stops
    <3>2. Top(t) \in Frames /\ Top(t).op = "set"
      BY <1>0, <1>5, AtTop, Innermost DEF Stops
    <3>3. [Top(t) EXCEPT !.at = "build"].op = "set" /\ [Top(t) EXCEPT !.at = "build"].at = "build"
      BY <3>2 DEF Frames
    <3> QED BY <3>1, <3>3 DEF Parked, Build
  <2> QED BY <1>5, <2>1, <2>2 DEF ParkedInv, Stops, Same
<1> QED BY <1>1, <1>2, <1>3, <1>4, <1>5, StepKinds

LEMMA MovedFrame ==
  ASSUME NEW g \in Frames, NEW at
  PROVE  LET f == [g EXCEPT !.at = at]
         IN  f.op = g.op /\ f.at = at /\ f.client = g.client /\ f.left = g.left
BY DEF Frames

(* The threads that have the lock for reading. *)
Reading(t) == stack[t] # <<>> /\ Reads(Level(stack[t], Len(stack[t])))
Readers == {t \in Threads : Reading(t)}

ReadersInv ==
  /\ IsFiniteSet(Readers) /\ readers = Cardinality(Readers)
  /\ Readers # {} => writer = NoThread

(* A thread has it for writing once, also if calls are nested. *)
WriterInv ==
  \A t \in Threads : \A n \in 1..Len(stack[t]) :
    Holds(Level(stack[t], n)) =>
      /\ writer = t
      /\ \A m \in 1..Len(stack[t]) : Holds(Level(stack[t], m)) => m = n

LEMMA ReadersAfter ==
  ASSUME TypeInv, ParkedInv, NEW t \in Threads
  PROVE  /\ \A f : ~Reads(f) /\ MayCall(t) /\ Calls(t, f) => Readers' = Readers
         /\ \A f : stack[t] # <<>> /\ Moves(t, f) /\ ~Reads(f) => Readers' = Readers \ {t}
         /\ \A f : stack[t] # <<>> /\ Moves(t, f) /\ Reads(f) => Readers' = Readers \cup {t}
         /\ stack[t] # <<>> /\ Returns(t) => Readers' = Readers \ {t}
         /\ Stops(t) => Readers' = Readers
<1>0. StackType
  BY TypeInvStack
<1>1. Len(stack[t]) \in Nat /\ (stack[t] = <<>> => Len(stack[t]) = 0)
  BY <1>0, LenIsNat
<1>2. stack[t] # <<>> => Len(stack[t]) > 0 /\ Level(stack[t], Len(stack[t])) = Top(t)
  BY <1>0, Innermost
<1>3. ASSUME NEW u \in Threads, u # t, stack'[u] = stack[u]
      PROVE  Reading(u)' <=> Reading(u)
  BY <1>3 DEF Reading
<1>4. ASSUME Len(stack'[t]) > 0
      PROVE  Reading(t)' <=> Reads(Level(stack'[t], Len(stack'[t])))
  <2>1. stack'[t] # <<>>
    BY <1>4
  <2> QED BY <2>1 DEF Reading
<1>5. ASSUME NEW f, ~Reads(f), MayCall(t), Calls(t, f)
      PROVE  Readers' = Readers
  <2>1. ~Reading(t)
    BY <1>2, <1>5 DEF MayCall, At, Reading, Reads
  <2>2. ~Reading(t)'
    BY <1>1, <1>4, <1>5 DEF Calls
  <2>3. \A u \in Threads : u # t => (Reading(u)' <=> Reading(u))
    BY <1>3, <1>5 DEF Calls, Same
  <2> QED BY <2>1, <2>2, <2>3 DEF Readers
<1>6. ASSUME NEW f, stack[t] # <<>>, Moves(t, f)
      PROVE  /\ ~Reads(f) => Readers' = Readers \ {t}
             /\ Reads(f) => Readers' = Readers \cup {t}
  <2>1. Reading(t)' <=> Reads(f)
    BY <1>1, <1>2, <1>4, <1>6 DEF Moves
  <2>2. \A u \in Threads : u # t => (Reading(u)' <=> Reading(u))
    BY <1>3, <1>6 DEF Moves, Same
  <2> QED BY <2>1, <2>2 DEF Readers
<1>7. ASSUME stack[t] # <<>>, Returns(t)
      PROVE  Readers' = Readers \ {t}
  <2>1. ~Reading(t)'
    <3>1. CASE Len(stack[t]) = 1
      BY <1>1, <3>1, <1>7 DEF Returns, Reading
    <3>2. CASE Len(stack[t]) > 1
      <4>1. Level(stack'[t], Len(stack[t]) - 1) = Level(stack[t], Len(stack[t]) - 1)
        BY <1>1, <1>7, <3>2 DEF Returns, Same
      <4>2. Parked(Level(stack[t], Len(stack[t]) - 1))
        BY <1>1, <3>2 DEF ParkedInv
      <4> QED BY <1>1, <1>4, <1>7, <3>2, <4>1, <4>2 DEF Returns, Parked, Build, Shut, Reads
    <3>3. Len(stack[t]) = 1 \/ Len(stack[t]) > 1
      <4>1. Len(stack[t]) \in Nat /\ Len(stack[t]) > 0
        BY <1>0, <1>7, Innermost
      <4>2. \A n \in Nat : n > 0 => n = 1 \/ n > 1
        OBVIOUS
      <4> QED BY <4>1, <4>2
    <3> QED BY <3>1, <3>2, <3>3
  <2>2. \A u \in Threads : u # t => (Reading(u)' <=> Reading(u))
    BY <1>3, <1>7 DEF Returns, Same
  <2> QED BY <2>1, <2>2 DEF Readers
<1>8. ASSUME Stops(t)
      PROVE  Readers' = Readers
  <2>1. ~Reading(t)
    BY <1>2, <1>8 DEF Stops, At, Reading, Reads
  <2>2. ~Reading(t)'
    BY <1>1, <1>4, <1>8 DEF Stops, Frame, Reads
  <2>3. \A u \in Threads : u # t => (Reading(u)' <=> Reading(u))
    BY <1>3, <1>8 DEF Stops, Same
  <2> QED BY <2>1, <2>2, <2>3 DEF Readers
<1> QED BY <1>5, <1>6, <1>7, <1>8

(* Whether thread t has the lock for reading shows in its innermost call.    *)
LEMMA ReadingAtTop ==
  ASSUME TypeInv, NEW t \in Threads, stack[t] # <<>>
  PROVE  t \in Readers <=> Reads(Top(t))
BY TypeInvStack, Innermost DEF Readers, Reading

LEMMA ReadersStep == TypeInv /\ ParkedInv /\ ReadersInv /\ [Next]_vars => ReadersInv'
<1> SUFFICES ASSUME TypeInv, ParkedInv, ReadersInv, [Next]_vars PROVE ReadersInv'
  OBVIOUS
<1>0. StackType /\ client \in Clients \cup {NoClient}
  BY TypeInvStack
<1>a. ASSUME Readers' = Readers, readers' = readers,
             writer' = writer \/ writer' = NoThread \/ readers = 0
      PROVE  ReadersInv'
  BY <1>a, FS_EmptySet DEF ReadersInv
(* The innermost call of t goes on; the lock is not for reading.             *)
<1>b. ASSUME NEW t \in Threads, stack[t] # <<>>, ~Reads(Top(t)),
             (\E f : Moves(t, f) /\ ~Reads(f)) \/ Returns(t),
             readers' = readers, writer' = writer \/ writer' = NoThread \/ readers = 0
      PROVE  ReadersInv'
  <2>1. t \notin Readers
    BY <1>b, ReadingAtTop
  <2>2. Readers' = Readers \ {t}
    BY <1>b, ReadersAfter
  <2> QED BY <1>a, <1>b, <2>1, <2>2
<1>1. CASE UNCHANGED vars
  <2>1. UNCHANGED <<stack, readers, writer>>
    BY <1>1 DEF vars, clientVars, lockVars
  <2>2. Readers' = Readers
    BY <2>1 DEF Readers, Reading
  <2> QED BY <1>a, <2>1, <2>2
<1>2. ASSUME NEW t \in Threads,
             \/ CallGet(t) \/ CallSetConfig(t)
             \/ \E c \in Clients : AppStops(t, c)
      PROVE  ReadersInv'
  <2>1. MayCall(t) /\ UNCHANGED <<readers, writer>>
    BY <1>2 DEF CallGet, CallSetConfig, AppStops, CallStop, Call, lockVars
  <2>2. PICK f : Calls(t, f) /\ ~Reads(f)
    <3>1. /\ ~Reads(Frame("get", "read", NoClient, <<>>))
          /\ ~Reads(Frame("set", "write", NoClient, <<>>))
          /\ \A c : ~Reads(Frame("stop", "enter", c, <<>>))
      BY DEF Reads, Frame
    <3> QED BY <1>0, <1>2, <3>1, CallEffects
  <2> QED BY <1>a, <2>1, <2>2, ReadersAfter
<1>3. ASSUME NEW t \in Threads, NEW raises \in BOOLEAN, AppConstructs(t, raises)
      PROVE  ReadersInv'
  <2>1. UNCHANGED <<stack, readers, writer>>
    BY <1>3 DEF AppConstructs, lockVars
  <2>2. Readers' = Readers
    BY <2>1 DEF Readers, Reading
  <2> QED BY <1>a, <2>1, <2>2
<1>4. ASSUME NEW t \in Threads, ReadLock(t)
      PROVE  ReadersInv'
  <2>1. /\ stack[t] # <<>> /\ ~Reads(Top(t))
        /\ readers' = readers + 1 /\ writer' = NoThread
    BY <1>4 DEF ReadLock, At, Reads
  <2>2. Reads([Top(t) EXCEPT !.at = "look"])
    BY <2>1, TopFrame, MovedFrame DEF Reads
  <2>3. Readers' = Readers \cup {t} /\ t \notin Readers
    BY <1>0, <1>4, <2>1, <2>2, MoveEffects, ReadersAfter, ReadingAtTop
  <2> QED BY <2>1, <2>3, FS_AddElement DEF ReadersInv
<1>5. ASSUME NEW t \in Threads, LookForClient(t)
      PROVE  ReadersInv'
  <2>1. stack[t] # <<>> /\ Reads(Top(t)) /\ UNCHANGED <<readers, writer>>
    BY <1>5 DEF LookForClient, At, Reads, lockVars
  <2>2. PICK at \in {"found", "missing"} : Moves(t, [Top(t) EXCEPT !.at = at])
    BY <1>0, <1>5, MoveEffects
  <2>3. Reads([Top(t) EXCEPT !.at = at])
    BY <2>1, TopFrame, MovedFrame DEF Reads
  <2>4. Readers' = Readers \cup {t} /\ t \in Readers
    BY <2>1, <2>2, <2>3, ReadersAfter, ReadingAtTop
  <2> QED BY <1>a, <2>1, <2>4
<1>6. ASSUME NEW t \in Threads, ReleaseReadLock(t)
      PROVE  ReadersInv'
  <2>1. /\ stack[t] # <<>> /\ Reads(Top(t))
        /\ readers' = OneLess(readers) /\ UNCHANGED writer
    BY <1>6 DEF ReleaseReadLock, At, Reads
  <2>2. ~Reads([Top(t) EXCEPT !.at = "write"])
    BY <2>1, TopFrame, MovedFrame DEF Reads
  <2>3. Readers' = Readers \ {t} /\ t \in Readers
    BY <1>0, <1>6, <2>1, <2>2, OtherEffects, ReadersAfter, ReadingAtTop
  <2>4. readers > 0
    BY <2>3, FS_EmptySet DEF ReadersInv, TypeInv
  <2>5. readers' = readers - 1
    BY <2>1, <2>4 DEF OneLess
  <2> QED BY <2>1, <2>3, <2>5, FS_RemoveElement DEF ReadersInv
<1>7. ASSUME NEW t \in Threads, NEW at \in Places \ {"look", "found", "missing"},
             stack[t] # <<>>, ~Reads(Top(t)), Moves(t, [Top(t) EXCEPT !.at = at]),
             readers' = readers, writer' = writer \/ writer' = NoThread \/ readers = 0
      PROVE  ReadersInv'
  <2>1. ~Reads([Top(t) EXCEPT !.at = at])
    BY <1>7, TopFrame, MovedFrame DEF Reads
  <2> QED BY <1>b, <1>7, <2>1
<1>8. ASSUME NEW t \in Threads,
             \/ WriteLock(t) \/ GetFinds(t) \/ SetStores(t) \/ StopWaits(t)
             \/ \E raises \in BOOLEAN : GetBuilds(t, raises) \/ SetBuilds(t, raises),
             StopWaits(t) => UNCHANGED lockVars
      PROVE  ReadersInv'
  <2>1. stack[t] # <<>> /\ ~Reads(Top(t))
    BY <1>8 DEF WriteLock, GetFinds, SetStores, StopWaits, GetBuilds, SetBuilds, At, Reads
  <2>2. readers' = readers /\ (writer' = writer \/ readers = 0)
    BY <1>8 DEF WriteLock, GetFinds, SetStores, GetBuilds, SetBuilds, lockVars
  <2>3. PICK at \in Places \ {"look", "found", "missing"} : Moves(t, [Top(t) EXCEPT !.at = at])
    BY <1>0, <1>8, MoveEffects DEF Places
  <2> QED BY <1>7, <2>1, <2>2, <2>3
<1>9. ASSUME NEW t \in Threads, BecomeOwner(t) \/ StopPart(t), UNCHANGED lockVars
      PROVE  ReadersInv'
  <2>1. stack[t] # <<>> /\ ~Reads(Top(t)) /\ UNCHANGED <<readers, writer>>
    BY <1>9 DEF BecomeOwner, StopPart, At, Reads, lockVars
  <2>2. /\ ~Reads([Top(t) EXCEPT !.at = "shut", !.left = Order])
        /\ ~Reads([Top(t) EXCEPT !.left = Tail(@)])
    BY <2>1, TopFrame DEF Frames, Reads
  <2> QED BY <1>0, <1>b, <1>9, <2>1, <2>2, OtherEffects
<1>10. ASSUME NEW t \in Threads,
              \/ ReleaseWriteLock(t) \/ StopRecursive(t) \/ StopWaited(t) \/ StopEnds(t),
              ~ReleaseWriteLock(t) => UNCHANGED lockVars
       PROVE  ReadersInv'
  <2>1. stack[t] # <<>> /\ ~Reads(Top(t))
    BY <1>10 DEF ReleaseWriteLock, StopRecursive, StopWaited, StopEnds, At, Reads
  <2>2. readers' = readers /\ (writer' = writer \/ writer' = NoThread)
    BY <1>10 DEF ReleaseWriteLock, lockVars
  <2> QED BY <1>0, <1>b, <1>10, <2>1, <2>2, OtherEffects
<1>11. ASSUME NEW t \in Threads, SetStops(t)
       PROVE  ReadersInv'
  BY <1>0, <1>a, <1>11, OtherEffects, ReadersAfter DEF SetStops, lockVars
<1>12. CASE \E t \in Threads :
             /\ BecomeOwner(t) \/ StopRecursive(t) \/ StopWaits(t) \/ StopWaited(t)
                \/ StopPart(t) \/ StopEnds(t)
             /\ UNCHANGED <<singletonVars, lockVars, askedVars>>
  BY <1>8, <1>9, <1>10, <1>12
<1>13. ASSUME NEW t \in Threads,
              \/ WriteLock(t) \/ GetFinds(t) \/ SetStores(t)
              \/ \E raises \in BOOLEAN : GetBuilds(t, raises) \/ SetBuilds(t, raises)
       PROVE  ReadersInv'
  <2>1. StopWaits(t) => UNCHANGED lockVars
    BY <1>13 DEF WriteLock, GetFinds, SetStores, GetBuilds, SetBuilds, StopWaits, At
  <2> QED BY <1>8, <1>13, <2>1
<1>14. ASSUME NEW t \in Threads, ReleaseWriteLock(t)
       PROVE  ReadersInv'
  BY <1>10, <1>14
<1> QED BY <1>1, <1>2, <1>3, <1>4, <1>5, <1>6, <1>11, <1>12, <1>13, <1>14, NextCases

LEMMA WriterAfter ==
  ASSUME TypeInv, WriterInv, NEW t \in Threads, writer' = writer
  PROVE  /\ stack' = stack => WriterInv'
         /\ \A f : Calls(t, f) /\ ~Holds(f) => WriterInv'
         /\ \A f : stack[t] # <<>> /\ Moves(t, f) /\ (Holds(f) => Holds(Top(t))) => WriterInv'
         /\ stack[t] # <<>> /\ Returns(t) => WriterInv'
         /\ Stops(t) => WriterInv'
<1>0. StackType
  BY TypeInvStack
<1>1. Len(stack[t]) \in Nat
  BY <1>0, LenIsNat
<1>2. stack[t] # <<>> => Len(stack[t]) > 0 /\ Level(stack[t], Len(stack[t])) = Top(t)
  BY <1>0, Innermost
(* It is enough that who holds the lock held it before, at the same level.   *)
<1>3. ASSUME \A u \in Threads : \A n \in 1..Len(stack'[u]) :
               Holds(Level(stack'[u], n)) =>
                 n \in 1..Len(stack[u]) /\ Holds(Level(stack[u], n))
      PROVE  WriterInv'
  BY <1>3 DEF WriterInv
<1>4. ASSUME NEW f, Calls(t, f), ~Holds(f)
      PROVE  WriterInv'
  <2>1. \A n \in 1..Len(stack'[t]) :
          Holds(Level(stack'[t], n)) => n \in 1..Len(stack[t]) /\ Holds(Level(stack[t], n))
    BY <1>1, <1>4 DEF Calls, Same
  <2> QED BY <1>3, <1>4, <2>1 DEF Calls, Same
<1>5. ASSUME NEW f, stack[t] # <<>>, Moves(t, f), Holds(f) => Holds(Top(t))
      PROVE  WriterInv'
  <2>1. \A n \in 1..Len(stack'[t]) :
          Holds(Level(stack'[t], n)) => n \in 1..Len(stack[t]) /\ Holds(Level(stack[t], n))
    BY <1>1, <1>2, <1>5 DEF Moves, Same
  <2> QED BY <1>3, <1>5, <2>1 DEF Moves, Same
<1>6. ASSUME stack[t] # <<>>, Returns(t)
      PROVE  WriterInv'
  <2>1. \A n \in 1..Len(stack'[t]) :
          Holds(Level(stack'[t], n)) => n \in 1..Len(stack[t]) /\ Holds(Level(stack[t], n))
    BY <1>1, <1>2, <1>6 DEF Returns, Same
  <2> QED BY <1>3, <1>6, <2>1 DEF Returns, Same
<1>7. ASSUME Stops(t)
      PROVE  WriterInv'
  <2>1. Holds(Top(t)) /\ stack[t] # <<>>
    BY <1>7 DEF Stops, At, Holds
  <2>2. ~Holds(Frame("stop", "enter", client, <<>>))
    BY DEF Frame, Holds
  <2>3. \A n \in 1..Len(stack'[t]) :
          Holds(Level(stack'[t], n)) => n \in 1..Len(stack[t]) /\ Holds(Level(stack[t], n))
    BY <1>1, <1>2, <1>7, <2>1, <2>2 DEF Stops, Same
  <2> QED BY <1>3, <1>7, <2>3 DEF Stops, Same
<1>8. stack' = stack => WriterInv'
  BY <1>3
<1> QED BY <1>4, <1>5, <1>6, <1>7, <1>8

LEMMA WriterStep == TypeInv /\ WriterInv /\ [Next]_vars => WriterInv'
<1> SUFFICES ASSUME TypeInv, WriterInv, [Next]_vars PROVE WriterInv'
  OBVIOUS
<1>0. StackType /\ client \in Clients \cup {NoClient}
  BY TypeInvStack
<1>1. CASE UNCHANGED vars
  BY <1>1 DEF vars, clientVars, lockVars, WriterInv
<1>2. ASSUME NEW t \in Threads,
             \/ CallGet(t) \/ CallSetConfig(t)
             \/ \E c \in Clients : AppStops(t, c)
      PROVE  WriterInv'
  <2>1. UNCHANGED writer
    BY <1>2 DEF CallGet, CallSetConfig, AppStops, lockVars
  <2>2. PICK f : Calls(t, f) /\ ~Holds(f)
    <3>1. /\ ~Holds(Frame("get", "read", NoClient, <<>>))
          /\ ~Holds(Frame("set", "write", NoClient, <<>>))
          /\ \A c : ~Holds(Frame("stop", "enter", c, <<>>))
      BY DEF Holds, Frame
    <3> QED BY <1>0, <1>2, <3>1, CallEffects
  <2> QED BY <2>1, <2>2, WriterAfter
<1>3. ASSUME NEW t \in Threads, NEW raises \in BOOLEAN, AppConstructs(t, raises)
      PROVE  WriterInv'
  BY <1>3, WriterAfter DEF AppConstructs, lockVars
<1>4. ASSUME NEW t \in Threads, NEW at, stack[t] # <<>>, Moves(t, [Top(t) EXCEPT !.at = at]),
             Holds(Top(t)) \/ at \notin {"locked", "build", "unwrite"}, UNCHANGED writer
      PROVE  WriterInv'
  <2>1. Holds([Top(t) EXCEPT !.at = at]) => Holds(Top(t))
    BY <1>4, TopFrame, MovedFrame DEF Holds
  <2> QED BY <1>4, <2>1, WriterAfter
<1>5. ASSUME NEW t \in Threads, ReadLock(t) \/ LookForClient(t)
      PROVE  WriterInv'
  <2>1. stack[t] # <<>> /\ UNCHANGED writer
    BY <1>5 DEF ReadLock, LookForClient, At, lockVars
  <2> QED BY <1>0, <1>4, <1>5, <2>1, MoveEffects
<1>6. ASSUME NEW t \in Threads, ReleaseReadLock(t)
      PROVE  WriterInv'
  <2>1. stack[t] # <<>> /\ UNCHANGED writer
    BY <1>6 DEF ReleaseReadLock, At
  <2> QED BY <1>0, <1>4, <1>6, <2>1, OtherEffects, WriterAfter
<1>7. ASSUME NEW t \in Threads, WriteLock(t)
      PROVE  WriterInv'
  <2> DEFINE f == [Top(t) EXCEPT !.at = "locked"]
  <2>1. stack[t] # <<>> /\ writer = NoThread /\ writer' = t
    BY <1>7 DEF WriteLock, At
  <2>2. \A u \in Threads : \A n \in 1..Len(stack[u]) : ~Holds(Level(stack[u], n))
    BY <2>1, ThreadsAssumption DEF WriterInv
  <2>3. Moves(t, f) /\ Len(stack[t]) \in Nat
    BY <1>0, <1>7, MoveEffects, LenIsNat
  <2>4. \A u \in Threads : \A n \in 1..Len(stack'[u]) :
          Holds(Level(stack'[u], n)) => u = t /\ n = Len(stack[t])
    BY <2>2, <2>3 DEF Moves, Same
  <2> QED BY <2>1, <2>4 DEF WriterInv
<1>8. ASSUME NEW t \in Threads, ReleaseWriteLock(t)
      PROVE  WriterInv'
  <2>1. stack[t] # <<>> /\ Holds(Top(t))
    BY <1>8 DEF ReleaseWriteLock, At, Holds
  <2>2. Returns(t) /\ Len(stack[t]) \in Nat
    BY <1>0, <1>8, OtherEffects, LenIsNat
  <2>3. writer = t /\ \A n \in 1..Len(stack[t]) - 1 : ~Holds(Level(stack[t], n))
    BY <1>0, <2>1, <2>2, Innermost DEF WriterInv
  <2>4. \A u \in Threads : \A n \in 1..Len(stack'[u]) : ~Holds(Level(stack'[u], n))
    BY <2>2, <2>3 DEF Returns, Same, WriterInv
  <2> QED BY <2>4 DEF WriterInv
<1>9. ASSUME NEW t \in Threads,
             \/ GetFinds(t) \/ SetStores(t)
             \/ \E raises \in BOOLEAN : GetBuilds(t, raises) \/ SetBuilds(t, raises)
      PROVE  WriterInv'
  <2>1. stack[t] # <<>> /\ Holds(Top(t)) /\ UNCHANGED writer
    BY <1>9 DEF GetFinds, SetStores, GetBuilds, SetBuilds, At, Holds, lockVars
  <2> QED BY <1>0, <1>4, <1>9, <2>1, MoveEffects
<1>10. ASSUME NEW t \in Threads, SetStops(t)
       PROVE  WriterInv'
  BY <1>0, <1>10, OtherEffects, WriterAfter DEF SetStops, lockVars
<1>11. ASSUME NEW t \in Threads,
              \/ BecomeOwner(t) \/ StopRecursive(t) \/ StopWaits(t) \/ StopWaited(t)
              \/ StopPart(t) \/ StopEnds(t),
              UNCHANGED lockVars
       PROVE  WriterInv'
  <2>1. stack[t] # <<>> /\ UNCHANGED writer
    BY <1>11, AtTop DEF BecomeOwner, StopRecursive, StopWaits, StopWaited, StopPart, StopEnds,
                        lockVars
  <2>2. /\ ~Holds([Top(t) EXCEPT !.at = "shut", !.left = Order])
        /\ Holds([Top(t) EXCEPT !.left = Tail(@)]) => Holds(Top(t))
    BY <2>1, TopFrame DEF Frames, Holds
  <2>3. CASE StopRecursive(t) \/ StopWaited(t) \/ StopEnds(t)
    BY <1>0, <2>1, <2>3, OtherEffects, WriterAfter
  <2>4. CASE StopWaits(t)
    BY <1>0, <1>4, <2>1, <2>4, MoveEffects
  <2>5. CASE BecomeOwner(t) \/ StopPart(t)
    BY <1>0, <2>1, <2>2, <2>5, OtherEffects, WriterAfter
  <2> QED BY <1>11, <2>3, <2>4, <2>5
<1> QED BY <1>1, <1>2, <1>3, <1>5, <1>6, <1>7, <1>8, <1>9, <1>10, <1>11, NextCases

-----------------------------------------------------------------------------
(* stop *)

(* Thread t, in the call f, stops its client: what it told to stop and what  *)
(* it has left to tell are all the parts.                                    *)
Closing(t, f) ==
  /\ closed[f.client] /\ ~complete[f.client]
  /\ owner[f.client] = t
  /\ stopped[f.client] \o f.left = Order

(* The same after a step, for a call that is not changed by it.              *)
ClosingAfter(t, f) ==
  /\ closed'[f.client] /\ ~complete'[f.client]
  /\ owner'[f.client] = t
  /\ stopped'[f.client] \o f.left = Order

(* A client is stopped by one call at most, however calls are nested.        *)
ShutInv ==
  /\ \A t \in Threads : \A n \in 1..Len(stack[t]) :
       Shut(Level(stack[t], n)) => Closing(t, Level(stack[t], n))
  /\ \A t \in Threads : \A n, m \in 1..Len(stack[t]) :
       /\ Shut(Level(stack[t], n)) /\ Shut(Level(stack[t], m))
       /\ Level(stack[t], m).client = Level(stack[t], n).client
       => m = n

ToldInv ==
  \A c \in Clients :
    /\ ~closed[c] => stopped[c] = <<>> /\ ~complete[c]
    /\ complete[c] => stopped[c] = Order
    /\ c \in freed => complete[c]
    /\ IsPrefix(stopped[c], Order)

LEMMA AppendOfHead ==
  ASSUME NEW S, NEW s \in Seq(S), NEW l \in Seq(S), l # <<>>
  PROVE  /\ Append(s, Head(l)) \in Seq(S)
         /\ Append(s, Head(l)) \o Tail(l) = s \o l
<1>1. /\ Head(l) \in S /\ Tail(l) \in Seq(S)
      /\ Len(l) \in Nat /\ Len(l) > 0 /\ Len(s) \in Nat
      /\ Head(l) = l[1] /\ Len(Tail(l)) = Len(l) - 1
      /\ \A i \in 1..Len(l) - 1 : Tail(l)[i] = l[i + 1]
  BY HeadTailProperties, EmptySeq, LenProperties
<1> DEFINE a == Append(s, Head(l))
<1>2. /\ a \in Seq(S) /\ Len(a) = Len(s) + 1
      /\ \A i \in 1..Len(s) : a[i] = s[i]
      /\ a[Len(s) + 1] = l[1]
  BY <1>1, AppendProperties
<1> HIDE DEF a
<1> DEFINE x == a \o Tail(l)
           y == s \o l
<1>3. /\ x \in Seq(S) /\ Len(x) = Len(s) + Len(l)
      /\ \A i \in 1..Len(s) + Len(l) :
           x[i] = IF i <= Len(s) + 1 THEN a[i] ELSE Tail(l)[i - (Len(s) + 1)]
  <2>1. /\ x \in Seq(S) /\ Len(x) = Len(a) + Len(Tail(l))
        /\ \A i \in 1..Len(a) + Len(Tail(l)) :
             x[i] = IF i <= Len(a) THEN a[i] ELSE Tail(l)[i - Len(a)]
    BY <1>1, <1>2, ConcatProperties
  <2>2. Len(a) + Len(Tail(l)) = Len(s) + Len(l)
    BY <1>1, <1>2
  <2> QED BY <1>2, <2>1, <2>2
<1>4. /\ y \in Seq(S) /\ Len(y) = Len(s) + Len(l)
      /\ \A i \in 1..Len(s) + Len(l) : y[i] = IF i <= Len(s) THEN s[i] ELSE l[i - Len(s)]
  BY ConcatProperties
<1> HIDE DEF x, y
<1>5. ASSUME NEW i \in 1..Len(s) + Len(l)
      PROVE  x[i] = y[i]
  <2>1. CASE i <= Len(s)
    BY <1>1, <1>2, <1>3, <1>4, <2>1
  <2>2. CASE i = Len(s) + 1
    BY <1>1, <1>2, <1>3, <1>4, <2>2
  <2>3. CASE i > Len(s) + 1
    <3>1. Tail(l)[i - (Len(s) + 1)] = l[(i - (Len(s) + 1)) + 1]
      BY <1>1, <2>3
    <3>2. (i - (Len(s) + 1)) + 1 = i - Len(s)
      BY <1>1
    <3> QED BY <1>1, <1>3, <1>4, <2>3, <3>1, <3>2
  <2> QED BY <1>1, <2>1, <2>2, <2>3
<1>6. x = y
  BY <1>3, <1>4, <1>5, SeqEqual
<1> QED BY <1>2, <1>6 DEF x, y, a

LEMMA ConcatPrefix ==
  ASSUME NEW S, NEW s \in Seq(S), NEW l \in Seq(S)
  PROVE  IsPrefix(s, s \o l)
<1>1. /\ s \o l \in Seq(S) /\ Len(s \o l) = Len(s) + Len(l)
      /\ \A i \in 1..Len(s) + Len(l) : (s \o l)[i] = IF i <= Len(s) THEN s[i] ELSE l[i - Len(s)]
      /\ Len(s) \in Nat /\ Len(l) \in Nat
  BY ConcatProperties, LenProperties
<1> DEFINE x == SubSeq(s, 1, Len(s))
           y == SubSeq(s \o l, 1, Len(s))
<1>2. \A i \in 1..Len(s) : s[i] \in S /\ (s \o l)[i] = s[i]
  BY <1>1, ElementOfSeq
<1>3. /\ x \in Seq(S) /\ (\A i \in 1..Len(s) - 1 + 1 : x[i] = s[1 + i - 1])
      /\ Len(x) = IF 1 <= Len(s) THEN Len(s) - 1 + 1 ELSE 0
  BY <1>1, <1>2, SubSeqProperties
<1>4. /\ y \in Seq(S) /\ (\A i \in 1..Len(s) - 1 + 1 : y[i] = (s \o l)[1 + i - 1])
      /\ Len(y) = IF 1 <= Len(s) THEN Len(s) - 1 + 1 ELSE 0
  BY <1>1, <1>2, SubSeqProperties
<1> HIDE DEF x, y
<1>5. Len(x) = Len(s) /\ Len(y) = Len(s)
  BY <1>1, <1>3, <1>4
<1>6. \A i \in 1..Len(s) : x[i] = y[i]
  BY <1>1, <1>2, <1>3, <1>4
<1>7. x = y
  BY <1>3, <1>4, <1>5, <1>6, SeqEqual
<1> QED BY <1>1, <1>7 DEF IsPrefix, x, y

LEMMA ShutAfter ==
  ASSUME TypeInv, ShutInv, NEW t \in Threads, UNCHANGED <<closed, owner, complete, stopped>>
  PROVE  /\ stack' = stack => ShutInv'
         /\ \A f : Calls(t, f) /\ ~Shut(f) => ShutInv'
         /\ \A f : stack[t] # <<>> /\ Moves(t, f) /\ ~Shut(f) => ShutInv'
         /\ stack[t] # <<>> /\ Returns(t) => ShutInv'
         /\ Stops(t) => ShutInv'
<1>0. StackType
  BY TypeInvStack
<1>1. Len(stack[t]) \in Nat
  BY <1>0, LenIsNat
<1>2. stack[t] # <<>> => Len(stack[t]) > 0 /\ Level(stack[t], Len(stack[t])) = Top(t)
  BY <1>0, Innermost
(* It is enough that who stops a client did so before, at the same level.    *)
<1>3. ASSUME \A u \in Threads : \A n \in 1..Len(stack'[u]) :
               Shut(Level(stack'[u], n)) =>
                 n \in 1..Len(stack[u]) /\ Level(stack'[u], n) = Level(stack[u], n)
      PROVE  ShutInv'
  <2>1. \A u, f : Closing(u, f) => ClosingAfter(u, f)
    BY DEF Closing, ClosingAfter
  <2>2. ASSUME NEW u \in Threads, NEW n \in 1..Len(stack'[u]), Shut(Level(stack'[u], n))
        PROVE  ClosingAfter(u, Level(stack'[u], n))
    BY <1>3, <2>1, <2>2 DEF ShutInv
  <2>3. ASSUME NEW u \in Threads, NEW n \in 1..Len(stack'[u]), Shut(Level(stack'[u], n)),
               NEW m \in 1..Len(stack'[u]), Shut(Level(stack'[u], m)),
               Level(stack'[u], m).client = Level(stack'[u], n).client
        PROVE  m = n
    BY <1>3, <2>3 DEF ShutInv
  <2>4. (\A u \in Threads : \A n \in 1..Len(stack[u]) :
           Shut(Level(stack[u], n)) => Closing(u, Level(stack[u], n)))'
    BY <2>2 DEF Closing, ClosingAfter
  <2>5. (\A u \in Threads : \A n, m \in 1..Len(stack[u]) :
           /\ Shut(Level(stack[u], n)) /\ Shut(Level(stack[u], m))
           /\ Level(stack[u], m).client = Level(stack[u], n).client
           => m = n)'
    BY <2>3
  <2> QED BY <2>4, <2>5 DEF ShutInv
<1>4. ASSUME NEW f, Calls(t, f), ~Shut(f)
      PROVE  ShutInv'
  <2>1. \A n \in 1..Len(stack'[t]) :
          Shut(Level(stack'[t], n)) =>
            n \in 1..Len(stack[t]) /\ Level(stack'[t], n) = Level(stack[t], n)
    BY <1>1, <1>4 DEF Calls, Same
  <2> QED BY <1>3, <1>4, <2>1 DEF Calls, Same
<1>5. ASSUME NEW f, stack[t] # <<>>, Moves(t, f), ~Shut(f)
      PROVE  ShutInv'
  <2>1. \A n \in 1..Len(stack'[t]) :
          Shut(Level(stack'[t], n)) =>
            n \in 1..Len(stack[t]) /\ Level(stack'[t], n) = Level(stack[t], n)
    BY <1>1, <1>2, <1>5 DEF Moves, Same
  <2> QED BY <1>3, <1>5, <2>1 DEF Moves, Same
<1>6. ASSUME stack[t] # <<>>, Returns(t)
      PROVE  ShutInv'
  <2>1. \A n \in 1..Len(stack'[t]) :
          n \in 1..Len(stack[t]) /\ Level(stack'[t], n) = Level(stack[t], n)
    BY <1>1, <1>2, <1>6 DEF Returns, Same
  <2> QED BY <1>3, <1>6, <2>1 DEF Returns, Same
<1>7. ASSUME Stops(t)
      PROVE  ShutInv'
  <2>1. Top(t) \in Frames /\ Top(t).op = "set" /\ stack[t] # <<>>
    BY <1>7, AtTop, TopFrame DEF Stops
  <2>2. ~Shut(Frame("stop", "enter", client, <<>>)) /\ ~Shut([Top(t) EXCEPT !.at = "build"])
    BY <2>1, MovedFrame DEF Frame, Shut
  <2>3. \A n \in 1..Len(stack'[t]) :
          Shut(Level(stack'[t], n)) =>
            n \in 1..Len(stack[t]) /\ Level(stack'[t], n) = Level(stack[t], n)
    BY <1>1, <1>2, <1>7, <2>1, <2>2 DEF Stops, Same
  <2> QED BY <1>3, <1>7, <2>3 DEF Stops, Same
<1>8. stack' = stack => ShutInv'
  BY <1>3
<1> QED BY <1>4, <1>5, <1>6, <1>7, <1>8

(* While thread t stops the client of its innermost call, no other call      *)
(* stops the same client.                                                    *)
LEMMA ShutAlone ==
  ASSUME TypeInv, ShutInv, NEW t \in Threads, At(t, "stop", "shut"),
         NEW u \in Threads, NEW n \in 1..Len(stack[u]), Shut(Level(stack[u], n)),
         Level(stack[u], n).client = Top(t).client
  PROVE  u = t /\ n = Len(stack[t])
<1>1. /\ Len(stack[t]) \in Nat /\ Len(stack[t]) > 0
      /\ Level(stack[t], Len(stack[t])) = Top(t)
  BY TypeInvStack, AtTop, Innermost
<1>2. Shut(Top(t))
  BY AtTop DEF Shut
<1>3. Closing(t, Top(t)) /\ Closing(u, Level(stack[u], n))
  BY <1>1, <1>2 DEF ShutInv
<1>4. t = u
  BY <1>3 DEF Closing
<1> QED BY <1>1, <1>2, <1>4 DEF ShutInv

(* The innermost call of t is the one that stops its client.                 *)
LEMMA ShutAtTop ==
  ASSUME TypeInv, ShutInv, NEW t \in Threads, At(t, "stop", "shut")
  PROVE  /\ Top(t).client \in Clients /\ Top(t).left \in Seq(ToSet(Order))
         /\ Closing(t, Top(t)) /\ Top(t) \in Frames
         /\ Shut(Top(t))
<1>1. /\ Len(stack[t]) \in Nat /\ Len(stack[t]) > 0
      /\ Level(stack[t], Len(stack[t])) = Top(t)
  BY TypeInvStack, AtTop, Innermost
<1>2. Shut(Top(t))
  BY AtTop DEF Shut
<1>3. Closing(t, Top(t))
  BY <1>1, <1>2 DEF ShutInv
<1> QED BY <1>2, <1>3, AtTop, TopFrame

LEMMA BecomeOwnerKeeps ==
  ASSUME TypeInv, ShutInv, ToldInv, NEW t \in Threads, BecomeOwner(t)
  PROVE  ShutInv' /\ ToldInv'
<1> DEFINE c == Top(t).client
           f == [Top(t) EXCEPT !.at = "shut", !.left = Order]
<1>1. /\ Len(stack[t]) \in Nat /\ Len(stack[t]) > 0
      /\ Level(stack[t], Len(stack[t])) = Top(t)
      /\ Top(t).op = "stop" /\ Top(t) \in Frames /\ c \in Clients
  BY TypeInvStack, AtTop, Innermost, TopFrame DEF BecomeOwner
<1>2. f.op = "stop" /\ f.at = "shut" /\ f.client = c /\ f.left = Order
  BY <1>1 DEF Frames
<1>3. Moves(t, f)
  BY TypeInvStack, OtherEffects
<1>4. /\ ~closed[c]
      /\ closed' = [closed EXCEPT ![c] = TRUE]
      /\ owner' = [owner EXCEPT ![c] = t]
      /\ UNCHANGED <<complete, stopped, freed>>
  BY DEF BecomeOwner
<1>5. /\ closed \in [Clients -> BOOLEAN] /\ owner \in [Clients -> Threads \cup {NoThread}]
  BY DEF TypeInv, ClientTypeOK
<1>6. stopped[c] = <<>> /\ ~complete[c]
  BY <1>1, <1>4 DEF ToldInv
<1> HIDE DEF f
<1>7. ClosingAfter(t, f)
  <2>1. <<>> \o Order = Order
    BY OrderType, ConcatEmptySeq
  <2> QED BY <1>1, <1>2, <1>4, <1>5, <1>6, <2>1 DEF ClosingAfter
<1>8. ASSUME NEW u \in Threads, NEW n \in 1..Len(stack[u]), Shut(Level(stack[u], n))
      PROVE  Level(stack[u], n).client # c /\ ClosingAfter(u, Level(stack[u], n))
  <2>1. Closing(u, Level(stack[u], n))
    BY <1>8 DEF ShutInv
  <2> QED BY <1>1, <1>4, <1>5, <2>1 DEF Closing, ClosingAfter
<1>9. ShutInv'
  <2>1. ASSUME NEW u \in Threads, NEW n \in 1..Len(stack'[u]), Shut(Level(stack'[u], n))
        PROVE  \/ u = t /\ n = Len(stack[t]) /\ Level(stack'[u], n) = f
               \/ /\ n \in 1..Len(stack[u]) /\ Level(stack'[u], n) = Level(stack[u], n)
                  /\ Level(stack[u], n).client # c /\ ClosingAfter(u, Level(stack[u], n))
    BY <1>1, <1>3, <1>8, <2>1 DEF Moves, Same
  <2>2. ASSUME NEW u \in Threads, NEW n \in 1..Len(stack'[u]), Shut(Level(stack'[u], n))
        PROVE  ClosingAfter(u, Level(stack'[u], n))
    BY <1>7, <2>1, <2>2
  <2>3. ASSUME NEW u \in Threads, NEW n \in 1..Len(stack'[u]), Shut(Level(stack'[u], n)),
               NEW m \in 1..Len(stack'[u]), Shut(Level(stack'[u], m)),
               Level(stack'[u], m).client = Level(stack'[u], n).client
        PROVE  m = n
    BY <1>2, <2>1, <2>3 DEF ShutInv
  <2>4. (\A u \in Threads : \A n \in 1..Len(stack[u]) :
           Shut(Level(stack[u], n)) => Closing(u, Level(stack[u], n)))'
    BY <2>2 DEF Closing, ClosingAfter
  <2>5. (\A u \in Threads : \A n, m \in 1..Len(stack[u]) :
           /\ Shut(Level(stack[u], n)) /\ Shut(Level(stack[u], m))
           /\ Level(stack[u], m).client = Level(stack[u], n).client
           => m = n)'
    BY <2>3
  <2> QED BY <2>4, <2>5 DEF ShutInv
<1>10. ToldInv'
  BY <1>4, <1>5, <1>6 DEF ToldInv
<1> QED BY <1>9, <1>10

LEMMA StopPartKeeps ==
  ASSUME TypeInv, ShutInv, ToldInv, NEW t \in Threads, StopPart(t)
  PROVE  ShutInv' /\ ToldInv'
<1> DEFINE c == Top(t).client
           l == Top(t).left
           f == [Top(t) EXCEPT !.left = Tail(@)]
<1>1. /\ Len(stack[t]) \in Nat /\ Len(stack[t]) > 0
      /\ Level(stack[t], Len(stack[t])) = Top(t)
      /\ At(t, "stop", "shut")
  BY TypeInvStack, AtTop, Innermost DEF StopPart
<1>2. /\ c \in Clients /\ l \in Seq(ToSet(Order))
      /\ Closing(t, Top(t)) /\ Top(t) \in Frames /\ Shut(Top(t))
  BY <1>1, ShutAtTop
<1>3. f.op = "stop" /\ f.at = "shut" /\ f.client = c /\ f.left = Tail(l)
  BY <1>2 DEF Shut, Frames
<1>4. Moves(t, f)
  BY TypeInvStack, OtherEffects
<1>5. /\ l # <<>>
      /\ stopped' = [stopped EXCEPT ![c] = Append(@, Head(l))]
      /\ UNCHANGED <<closed, owner, complete, freed>>
  BY DEF StopPart
<1>6. stopped \in [Clients -> Seq(ToSet(Order))] /\ stopped[c] \in Seq(ToSet(Order))
  BY <1>2 DEF TypeInv, ClientTypeOK
<1>7. /\ stopped'[c] = Append(stopped[c], Head(l))
      /\ \A d \in Clients : d # c => stopped'[d] = stopped[d]
  BY <1>2, <1>5, <1>6
<1>8. /\ stopped[c] \o l = Order
      /\ closed[c] /\ ~complete[c] /\ owner[c] = t
  BY <1>2 DEF Closing
<1>9. stopped'[c] \in Seq(ToSet(Order)) /\ stopped'[c] \o Tail(l) = Order
  <2>1. /\ Append(stopped[c], Head(l)) \in Seq(ToSet(Order))
        /\ Append(stopped[c], Head(l)) \o Tail(l) = stopped[c] \o l
    BY <1>2, <1>5, <1>6, AppendOfHead
  <2> QED BY <1>7, <1>8, <2>1
<1> HIDE DEF f
<1>10. ClosingAfter(t, f)
  BY <1>3, <1>5, <1>8, <1>9 DEF ClosingAfter
<1>11. ASSUME NEW u \in Threads, NEW n \in 1..Len(stack[u]), Shut(Level(stack[u], n)),
              u # t \/ n # Len(stack[t])
       PROVE  Level(stack[u], n).client # c /\ ClosingAfter(u, Level(stack[u], n))
  <2>1. Level(stack[u], n).client # c
    BY <1>1, <1>11, ShutAlone
  <2>2. Level(stack[u], n) \in Frames
    BY LevelType DEF TypeInv, ClientTypeOK
  <2>3. Level(stack[u], n).client \in Clients
    BY <1>11, <2>2 DEF Shut, Frames
  <2>4. Closing(u, Level(stack[u], n))
    BY <1>11 DEF ShutInv
  <2> QED BY <1>5, <1>7, <2>1, <2>3, <2>4 DEF Closing, ClosingAfter
<1>12. ASSUME NEW u \in Threads, NEW n \in 1..Len(stack'[u]), Shut(Level(stack'[u], n))
       PROVE  \/ u = t /\ n = Len(stack[t]) /\ Level(stack'[u], n) = f
              \/ /\ n \in 1..Len(stack[u]) /\ Level(stack'[u], n) = Level(stack[u], n)
                 /\ Level(stack[u], n).client # c /\ ClosingAfter(u, Level(stack[u], n))
  BY <1>1, <1>4, <1>11, <1>12 DEF Moves, Same
<1>13. ShutInv'
  <2>a. ASSUME NEW u \in Threads, NEW n \in 1..Len(stack'[u]), Shut(Level(stack'[u], n))
      PROVE  ClosingAfter(u, Level(stack'[u], n))
    BY <1>10, <1>12, <2>a
  <2>1. (\A u \in Threads : \A n \in 1..Len(stack[u]) :
           Shut(Level(stack[u], n)) => Closing(u, Level(stack[u], n)))'
    BY <2>a DEF Closing, ClosingAfter
  <2>2. (\A u \in Threads : \A n, m \in 1..Len(stack[u]) :
           /\ Shut(Level(stack[u], n)) /\ Shut(Level(stack[u], m))
           /\ Level(stack[u], m).client = Level(stack[u], n).client
           => m = n)'
    BY <1>3, <1>12 DEF ShutInv
  <2> QED BY <2>1, <2>2 DEF ShutInv
<1>14. ToldInv'
  <2>1. IsPrefix(stopped'[c], Order)
    <3>1. Tail(l) \in Seq(ToSet(Order))
      BY <1>2, <1>5, HeadTailProperties
    <3> QED BY <1>9, <3>1, ConcatPrefix
  <2> QED BY <1>2, <1>5, <1>7, <1>8, <2>1 DEF ToldInv
<1> QED BY <1>13, <1>14

LEMMA StopEndsKeeps ==
  ASSUME TypeInv, ShutInv, ToldInv, NEW t \in Threads, StopEnds(t)
  PROVE  ShutInv' /\ ToldInv'
<1> DEFINE c == Top(t).client
<1>1. /\ Len(stack[t]) \in Nat /\ Len(stack[t]) > 0
      /\ Level(stack[t], Len(stack[t])) = Top(t)
      /\ At(t, "stop", "shut")
  BY TypeInvStack, AtTop, Innermost DEF StopEnds
<1>2. c \in Clients /\ Closing(t, Top(t)) /\ Top(t).left = <<>>
  BY <1>1, ShutAtTop DEF StopEnds
<1>3. Returns(t)
  BY TypeInvStack, OtherEffects
<1>4. /\ owner' = [owner EXCEPT ![c] = NoThread]
      /\ complete' = [complete EXCEPT ![c] = TRUE]
      /\ freed' = freed \cup {c}
      /\ UNCHANGED <<closed, stopped>>
  BY DEF StopEnds
<1>5. /\ owner \in [Clients -> Threads \cup {NoThread}] /\ complete \in [Clients -> BOOLEAN]
      /\ stopped[c] \in Seq(ToSet(Order))
  BY <1>2 DEF TypeInv, ClientTypeOK
<1>6. closed[c] /\ stopped[c] = Order
  <2>1. stopped[c] \o <<>> = Order
    BY <1>2 DEF Closing
  <2>2. stopped[c] \o <<>> = stopped[c]
    BY <1>5, ConcatEmptySeq
  <2> QED BY <1>2, <2>1, <2>2 DEF Closing
<1>7. ASSUME NEW u \in Threads, NEW n \in 1..Len(stack[u]), Shut(Level(stack[u], n)),
             u # t \/ n # Len(stack[t])
      PROVE  ClosingAfter(u, Level(stack[u], n))
  <2>1. Level(stack[u], n).client # c
    BY <1>1, <1>7, ShutAlone
  <2>2. Level(stack[u], n) \in Frames
    BY LevelType DEF TypeInv, ClientTypeOK
  <2>3. Level(stack[u], n).client \in Clients
    BY <1>7, <2>2 DEF Shut, Frames
  <2>4. Closing(u, Level(stack[u], n))
    BY <1>7 DEF ShutInv
  <2> QED BY <1>4, <1>5, <2>1, <2>3, <2>4 DEF Closing, ClosingAfter
<1>8. ASSUME NEW u \in Threads, NEW n \in 1..Len(stack'[u]), Shut(Level(stack'[u], n))
      PROVE  /\ n \in 1..Len(stack[u]) /\ Level(stack'[u], n) = Level(stack[u], n)
             /\ ClosingAfter(u, Level(stack[u], n))
  BY <1>1, <1>3, <1>7, <1>8 DEF Returns, Same
<1>9. ShutInv'
  <2>a. ASSUME NEW u \in Threads, NEW n \in 1..Len(stack'[u]), Shut(Level(stack'[u], n))
        PROVE  ClosingAfter(u, Level(stack'[u], n))
    BY <1>8, <2>a
  <2>1. (\A u \in Threads : \A n \in 1..Len(stack[u]) :
           Shut(Level(stack[u], n)) => Closing(u, Level(stack[u], n)))'
    BY <2>a DEF Closing, ClosingAfter
  <2>2. (\A u \in Threads : \A n, m \in 1..Len(stack[u]) :
           /\ Shut(Level(stack[u], n)) /\ Shut(Level(stack[u], m))
           /\ Level(stack[u], m).client = Level(stack[u], n).client
           => m = n)'
    BY <1>8 DEF ShutInv
  <2> QED BY <2>1, <2>2 DEF ShutInv
<1>10. ToldInv'
  BY <1>2, <1>4, <1>5, <1>6 DEF ToldInv
<1> QED BY <1>9, <1>10

LEMMA StopStep == TypeInv /\ ShutInv /\ ToldInv /\ [Next]_vars => ShutInv' /\ ToldInv'
<1> SUFFICES ASSUME TypeInv, ShutInv, ToldInv, [Next]_vars PROVE ShutInv' /\ ToldInv'
  OBVIOUS
<1>0. StackType /\ client \in Clients \cup {NoClient}
  BY TypeInvStack
<1>a. ASSUME UNCHANGED lifeVars
      PROVE  /\ UNCHANGED <<closed, owner, complete, stopped>>
             /\ ToldInv'
  BY <1>a DEF lifeVars, ToldInv
<1>1. CASE UNCHANGED vars
  <2>1. stack' = stack /\ UNCHANGED lifeVars
    BY <1>1 DEF vars, clientVars
  <2>2. ShutInv'
    <3>1. UNCHANGED <<stack, closed, owner, complete, stopped>>
      BY <2>1 DEF lifeVars
    <3>2. (\A u \in Threads : \A n \in 1..Len(stack[u]) :
             Shut(Level(stack[u], n)) => Closing(u, Level(stack[u], n)))'
      BY <3>1 DEF ShutInv, Closing
    <3>3. (\A u \in Threads : \A n, m \in 1..Len(stack[u]) :
             /\ Shut(Level(stack[u], n)) /\ Shut(Level(stack[u], m))
             /\ Level(stack[u], m).client = Level(stack[u], n).client
             => m = n)'
      BY <3>1 DEF ShutInv
    <3> QED BY <3>2, <3>3 DEF ShutInv
  <2> QED BY <1>a, <2>1, <2>2
<1>2. ASSUME NEW t \in Threads,
             \/ CallGet(t) \/ CallSetConfig(t)
             \/ \E c \in Clients : AppStops(t, c)
      PROVE  ShutInv' /\ ToldInv'
  <2>1. UNCHANGED lifeVars
    BY <1>2 DEF CallGet, CallSetConfig, AppStops, CallStop
  <2>2. PICK f : Calls(t, f) /\ ~Shut(f)
    <3>1. /\ ~Shut(Frame("get", "read", NoClient, <<>>))
          /\ ~Shut(Frame("set", "write", NoClient, <<>>))
          /\ \A c : ~Shut(Frame("stop", "enter", c, <<>>))
      BY DEF Shut, Frame
    <3> QED BY <1>0, <1>2, <3>1, CallEffects
  <2> QED BY <1>a, <2>1, <2>2, ShutAfter
<1>3. ASSUME NEW t \in Threads, NEW raises \in BOOLEAN, AppConstructs(t, raises)
      PROVE  ShutInv' /\ ToldInv'
  BY <1>a, <1>3, ShutAfter DEF AppConstructs, Construct
<1>4. ASSUME NEW t \in Threads, NEW at, stack[t] # <<>>, Moves(t, [Top(t) EXCEPT !.at = at]),
             Top(t).op # "stop" \/ at # "shut", UNCHANGED <<closed, owner, complete, stopped>>
      PROVE  ShutInv'
  <2>1. ~Shut([Top(t) EXCEPT !.at = at])
    BY <1>4, TopFrame, MovedFrame DEF Shut
  <2> QED BY <1>4, <2>1, ShutAfter
<1>5. ASSUME NEW t \in Threads,
             \/ ReadLock(t) \/ LookForClient(t) \/ ReleaseReadLock(t) \/ WriteLock(t)
             \/ GetFinds(t) \/ SetStores(t) \/ StopWaits(t)
             \/ \E raises \in BOOLEAN : GetBuilds(t, raises) \/ SetBuilds(t, raises)
      PROVE  ShutInv' /\ ToldInv'
  <2>1. UNCHANGED lifeVars
    BY <1>5 DEF ReadLock, LookForClient, ReleaseReadLock, WriteLock, GetFinds, SetStores,
                StopWaits, GetBuilds, SetBuilds, Construct, OnlyStack
  <2>2. stack[t] # <<>>
    BY <1>5 DEF ReadLock, LookForClient, ReleaseReadLock, WriteLock, GetFinds, SetStores,
                StopWaits, GetBuilds, SetBuilds, At
  <2>3. Returns(t) \/ \E at \in Places \ {"shut"} : Moves(t, [Top(t) EXCEPT !.at = at])
    <3>1. {"look", "found", "missing", "locked", "unwrite", "wait", "write"}
            \subseteq Places \ {"shut"}
      BY DEF Places
    <3>2. CASE ReadLock(t) \/ WriteLock(t) \/ GetFinds(t) \/ SetStores(t) \/ StopWaits(t)
      BY <1>0, <3>1, <3>2, MoveEffects
    <3>3. CASE LookForClient(t)
      BY <1>0, <3>1, <3>3, MoveEffects
    <3>4. CASE ReleaseReadLock(t)
      BY <1>0, <3>1, <3>4, OtherEffects
    <3>5. CASE \E raises \in BOOLEAN : GetBuilds(t, raises) \/ SetBuilds(t, raises)
      BY <1>0, <3>1, <3>5, MoveEffects
    <3> QED BY <1>5, <3>2, <3>3, <3>4, <3>5
  <2> QED BY <1>a, <1>4, <2>1, <2>2, <2>3, ShutAfter
<1>6. ASSUME NEW t \in Threads, ReleaseWriteLock(t) \/ StopRecursive(t) \/ SetStops(t)
      PROVE  ShutInv' /\ ToldInv'
  <2>1. UNCHANGED lifeVars /\ stack[t] # <<>>
    BY <1>6 DEF ReleaseWriteLock, StopRecursive, SetStops, OnlyStack, At
  <2> QED BY <1>0, <1>a, <1>6, <2>1, OtherEffects, ShutAfter
<1>7. ASSUME NEW t \in Threads, StopWaited(t)
      PROVE  ShutInv' /\ ToldInv'
  <2>1. /\ stack[t] # <<>> /\ complete[Top(t).client]
        /\ freed' = freed \cup {Top(t).client}
        /\ UNCHANGED <<closed, owner, complete, stopped>>
    BY <1>7, AtTop DEF StopWaited
  <2>2. ToldInv'
    BY <2>1 DEF ToldInv
  <2> QED BY <1>0, <1>7, <2>1, <2>2, OtherEffects, ShutAfter
<1>8. ASSUME NEW t \in Threads, BecomeOwner(t) \/ StopPart(t) \/ StopEnds(t)
      PROVE  ShutInv' /\ ToldInv'
  BY <1>8, BecomeOwnerKeeps, StopPartKeeps, StopEndsKeeps
<1> QED BY <1>1, <1>2, <1>3, <1>5, <1>6, <1>7, <1>8, NextCases

-----------------------------------------------------------------------------
(* The client and those it replaced *)

(* Nothing is known of a client before it is made.                           *)
MadeInv ==
  /\ client <= made
  /\ \A t \in Threads : \A n \in 1..Len(stack[t]) :
       Level(stack[t], n).op = "stop" => Level(stack[t], n).client <= made
  /\ \A c \in Clients : closed[c] => c <= made

(* A call that only goes on to another place stays the same call.            *)
LEMMA MovedOn ==
  ASSUME TypeInv, NEW t \in Threads, stack[t] # <<>>, NEW at,
         Moves(t, [Top(t) EXCEPT !.at = at])
  PROVE  \E f : Moves(t, f) /\ f.op = Top(t).op /\ f.client = Top(t).client /\ f.at = at
<1>1. Top(t) \in Frames
  BY TopFrame
<1> QED BY <1>1, MovedFrame

(* A step makes one client or none, and leaves what others are in alone.     *)
LEMMA MadeStep == TypeInv /\ CountInv /\ MadeInv /\ [Next]_vars => MadeInv'
<1> SUFFICES ASSUME TypeInv, CountInv, MadeInv, [Next]_vars PROVE MadeInv'
  OBVIOUS
<1>0. StackType /\ (client \in Clients \cup {NoClient}) /\ TypeInv'
  BY TypeInvStack, TypeStep
<1>a. /\ made \in Nat /\ made' \in Nat /\ client \in Nat
      /\ \A u \in Threads : Len(stack[u]) \in Nat
  BY <1>0, NaturalBounds, LenIsNat DEF TypeInv, ClientTypeOK, Clients, NoClient
(* What a step of thread t may do to the stacks.                             *)
<1>b. ASSUME NEW t \in Threads, made <= made',
             \/ \E f : Calls(t, f) /\ (f.op = "stop" => f.client <= made)
             \/ stack[t] # <<>> /\ Returns(t)
             \/ /\ stack[t] # <<>>
                /\ \E f : Moves(t, f) /\ f.op = Top(t).op /\ f.client = Top(t).client
             \/ Stops(t)
      PROVE  \A u \in Threads : \A n \in 1..Len(stack'[u]) :
               Level(stack'[u], n).op = "stop" => Level(stack'[u], n).client <= made'
  <2>1. \A u \in Threads : \A n \in 1..Len(stack[u]) :
          /\ Level(stack[u], n) \in Frames
          /\ Level(stack[u], n).op = "stop" => /\ Level(stack[u], n).client \in Nat
                                               /\ Level(stack[u], n).client <= made
    <3>1. \A u \in Threads : \A n \in 1..Len(stack[u]) : Level(stack[u], n) \in Frames
      BY <1>0, LevelType DEF StackType
    <3> QED BY <3>1 DEF MadeInv, Frames, Clients
  <2>2. stack[t] # <<>> => Len(stack[t]) > 0 /\ Level(stack[t], Len(stack[t])) = Top(t)
    BY <1>0, Innermost
  <2>3. SUFFICES ASSUME NEW u \in Threads, NEW n \in 1..Len(stack'[u]),
                        Level(stack'[u], n).op = "stop"
                 PROVE  Level(stack'[u], n).client <= made
    <3>1. \A u \in Threads : \A n \in 1..Len(stack'[u]) : Level(stack'[u], n) \in Frames
      BY <1>0, LevelType DEF TypeInv, ClientTypeOK
    <3>2. \A u \in Threads : \A n \in 1..Len(stack'[u]) :
            Level(stack'[u], n).op = "stop" => Level(stack'[u], n).client \in Nat
      BY <3>1 DEF Frames, Clients
    <3> QED BY <1>a, <1>b, <3>2
  <2>4. CASE u # t
    BY <1>b, <2>1, <2>3, <2>4 DEF Calls, Returns, Moves, Stops, Same
  <2>5. ASSUME u = t, NEW f, Calls(t, f), f.op = "stop" => f.client <= made
        PROVE  Level(stack'[u], n).client <= made
    BY <1>a, <2>1, <2>3, <2>5 DEF Calls, Same
  <2>6. ASSUME u = t, stack[t] # <<>>, Returns(t)
        PROVE  Level(stack'[u], n).client <= made
    BY <1>a, <2>1, <2>3, <2>6 DEF Returns, Same
  <2>7. ASSUME u = t, stack[t] # <<>>, NEW f, Moves(t, f),
               f.op = Top(t).op, f.client = Top(t).client
        PROVE  Level(stack'[u], n).client <= made
    BY <1>a, <2>1, <2>2, <2>3, <2>7 DEF Moves, Same
  <2>8. CASE u = t /\ Stops(t)
    <3>1. stack[t] # <<>> /\ Top(t) \in Frames /\ Top(t).op = "set"
      BY <1>0, <2>8, AtTop, Innermost DEF Stops
    <3>2. [Top(t) EXCEPT !.at = "build"].op = "set"
      BY <3>1, MovedFrame
    <3>3. CASE n = Len(stack[t]) + 1
      BY <2>8, <3>3 DEF Stops, Frame, MadeInv
    <3>4. n # Len(stack[t])
      BY <2>3, <2>8, <3>2 DEF Stops
    <3>5. CASE n \in 1..Len(stack[t]) - 1
      BY <1>a, <2>1, <2>3, <2>8, <3>5 DEF Stops, Same
    <3> QED BY <1>a, <2>8, <3>3, <3>4, <3>5 DEF Stops
  <2> QED BY <1>b, <2>4, <2>5, <2>6, <2>7, <2>8
<1>1. CASE UNCHANGED vars
  BY <1>1 DEF vars, clientVars, partVars, lifeVars, singletonVars, MadeInv
<1>2. ASSUME NEW t \in Threads,
             \/ CallGet(t) \/ CallSetConfig(t)
             \/ \E c \in Clients : AppStops(t, c)
      PROVE  MadeInv'
  <2>1. UNCHANGED <<made, client, closed>>
    BY <1>2 DEF CallGet, CallSetConfig, AppStops, CallStop, partVars, lifeVars, singletonVars
  <2>2. \E f : Calls(t, f) /\ (f.op = "stop" => f.client <= made)
    <3>1. /\ Frame("get", "read", NoClient, <<>>).op = "get"
          /\ Frame("set", "write", NoClient, <<>>).op = "set"
          /\ \A c : Frame("stop", "enter", c, <<>>).client = c
      BY DEF Frame
    <3>2. ASSUME NEW c \in Clients, AppStops(t, c)
          PROVE  c <= made
      BY <3>2 DEF AppStops, CallStop
    <3> QED BY <1>0, <1>2, <3>1, <3>2, CallEffects
  <2> QED BY <1>a, <1>b, <2>1, <2>2 DEF MadeInv
<1>3. ASSUME NEW t \in Threads, NEW raises \in BOOLEAN, AppConstructs(t, raises)
      PROVE  MadeInv'
  <2>1. made' = made + 1 /\ UNCHANGED <<stack, client, closed>>
    BY <1>3 DEF AppConstructs, Construct, lifeVars, singletonVars
  <2>2. \A u \in Threads : \A n \in 1..Len(stack[u]) :
          Level(stack[u], n).op = "stop" => Level(stack[u], n).client \in Nat
    <3>1. \A u \in Threads : \A n \in 1..Len(stack[u]) : Level(stack[u], n) \in Frames
      BY <1>0, LevelType DEF StackType
    <3> QED BY <3>1 DEF Frames, Clients
  <2> QED BY <1>a, <2>1, <2>2 DEF MadeInv, Clients
<1>4. ASSUME NEW t \in Threads, NEW raises \in BOOLEAN,
             GetBuilds(t, raises) \/ SetBuilds(t, raises)
      PROVE  MadeInv'
  <2>1. /\ stack[t] # <<>> /\ made' = made + 1 /\ client' \in {client, made + 1}
        /\ UNCHANGED closed
    BY <1>4 DEF GetBuilds, SetBuilds, Construct, lifeVars, At
  <2>2. \E f : Moves(t, f) /\ f.op = Top(t).op /\ f.client = Top(t).client
    BY <1>0, <1>4, <2>1, MoveEffects, MovedOn
  <2> QED BY <1>a, <1>b, <2>1, <2>2 DEF MadeInv, Clients
<1>5. ASSUME NEW t \in Threads,
             \/ ReadLock(t) \/ LookForClient(t) \/ ReleaseReadLock(t) \/ WriteLock(t)
             \/ GetFinds(t) \/ SetStores(t)
             \/ StopWaits(t) /\ UNCHANGED singletonVars
      PROVE  MadeInv'
  <2>1. UNCHANGED <<made, client, closed>>
    BY <1>5 DEF ReadLock, LookForClient, ReleaseReadLock, WriteLock, GetFinds, SetStores,
                StopWaits, OnlyStack, partVars, lifeVars, singletonVars
  <2>2. stack[t] # <<>>
    BY <1>5 DEF ReadLock, LookForClient, ReleaseReadLock, WriteLock, GetFinds, SetStores,
                StopWaits, At
  <2>3. Returns(t) \/ \E at \in Places : Moves(t, [Top(t) EXCEPT !.at = at])
    BY <1>0, <1>5, MoveEffects, OtherEffects DEF Places
  <2>4. Returns(t) \/ \E f : Moves(t, f) /\ f.op = Top(t).op /\ f.client = Top(t).client
    BY <2>2, <2>3, MovedOn
  <2> QED BY <1>a, <1>b, <2>1, <2>2, <2>4 DEF MadeInv
<1>6. ASSUME NEW t \in Threads,
             \/ ReleaseWriteLock(t) \/ SetStops(t)
             \/ /\ StopRecursive(t) \/ StopWaited(t) \/ StopEnds(t)
                /\ UNCHANGED singletonVars
      PROVE  MadeInv'
  <2>1. UNCHANGED <<made, client, closed>>
    BY <1>6 DEF ReleaseWriteLock, SetStops, StopRecursive, StopWaited, StopEnds, OnlyStack,
                partVars, lifeVars, singletonVars
  <2>2. stack[t] # <<>> /\ (Returns(t) \/ Stops(t))
    BY <1>0, <1>6, AtTop, OtherEffects DEF ReleaseWriteLock, SetStops, StopRecursive,
                                           StopWaited, StopEnds
  <2> QED BY <1>a, <1>b, <2>1, <2>2 DEF MadeInv
<1>7. ASSUME NEW t \in Threads, BecomeOwner(t) \/ StopPart(t), UNCHANGED singletonVars
      PROVE  MadeInv'
  <2>1. /\ stack[t] # <<>> /\ UNCHANGED <<made, client>> /\ Top(t).op = "stop"
        /\ closed' = closed \/ closed' = [closed EXCEPT ![Top(t).client] = TRUE]
    BY <1>7, AtTop DEF BecomeOwner, StopPart, partVars, singletonVars
  <2>2. \E f : Moves(t, f) /\ f.op = Top(t).op /\ f.client = Top(t).client
    <3>1. LET g == [Top(t) EXCEPT !.at = "shut", !.left = Order]
          IN  g.op = Top(t).op /\ g.client = Top(t).client
      BY <2>1, TopFrame DEF Frames
    <3>2. LET g == [Top(t) EXCEPT !.left = Tail(@)]
          IN  g.op = Top(t).op /\ g.client = Top(t).client
      BY <2>1, TopFrame DEF Frames
    <3> QED BY <1>0, <1>7, <3>1, <3>2, OtherEffects
  <2>3. Top(t).client <= made
    BY <1>0, <1>a, <2>1, Innermost DEF MadeInv
  <2>4. \A c \in Clients : closed'[c] => c <= made
    BY <2>1, <2>3 DEF MadeInv, TypeInv, ClientTypeOK
  <2> QED BY <1>a, <1>b, <2>1, <2>2, <2>4 DEF MadeInv
<1>8. CASE \E t \in Threads :
             /\ BecomeOwner(t) \/ StopRecursive(t) \/ StopWaits(t) \/ StopWaited(t)
                \/ StopPart(t) \/ StopEnds(t)
             /\ UNCHANGED <<singletonVars, lockVars, askedVars>>
  BY <1>5, <1>6, <1>7, <1>8
<1> QED BY <1>1, <1>2, <1>3, <1>4, <1>5, <1>6, <1>8, NextCases

(* What a step of thread t does to the calls, and what is known of the one   *)
(* that goes on or returns.                                                  *)
Shape(t) ==
  \/ \E f : /\ MayCall(t) /\ Calls(t, f)
            /\ ~Build(f)
            /\ f.op = "stop" => f.client \in byApp'
  \/ /\ stack[t] # <<>>
     /\ \/ \E f : /\ Moves(t, f)
                  /\ f.op = Top(t).op /\ f.client = Top(t).client
                  /\ ~Build(f)
                  /\ Build(Top(t)) => \E raises \in BOOLEAN : SetBuilds(t, raises)
        \/ /\ Returns(t)
           /\ ~Build(Top(t))
           /\ Top(t).op = "stop" => closed[Top(t).client]
        \/ Stops(t) /\ client # NoClient

LEMMA Shapes ==
  ASSUME TypeInv, ShutInv, ToldInv, [Next]_vars
  PROVE  stack' = stack \/ \E t \in Threads : Shape(t)
<1>0. StackType /\ client \in Clients \cup {NoClient}
  BY TypeInvStack
<1>1. CASE UNCHANGED vars
  BY <1>1 DEF vars, clientVars
<1>2. ASSUME NEW t \in Threads, CallGet(t) \/ CallSetConfig(t)
      PROVE  Shape(t)
  <2>1. MayCall(t)
    BY <1>2 DEF CallGet, CallSetConfig, Call
  <2>2. \A f \in {Frame("get", "read", NoClient, <<>>), Frame("set", "write", NoClient, <<>>)} :
          f.op # "stop" /\ ~Build(f)
    BY DEF Frame, Build
  <2> QED BY <1>0, <1>2, <2>1, <2>2, CallEffects DEF Shape
<1>3. ASSUME NEW t \in Threads, NEW c \in Clients, AppStops(t, c)
      PROVE  Shape(t)
  <2>1. MayCall(t) /\ c \in byApp'
    BY <1>3 DEF AppStops, CallStop, Call
  <2>2. LET f == Frame("stop", "enter", c, <<>>) IN f.client = c /\ ~Build(f)
    BY DEF Frame, Build
  <2> QED BY <1>0, <1>3, <2>1, <2>2, CallEffects DEF Shape
<1>4. ASSUME NEW t \in Threads, NEW raises \in BOOLEAN, AppConstructs(t, raises)
      PROVE  stack' = stack
  BY <1>0, <1>4, CallEffects
(* The innermost call goes on to a place other than "build".                 *)
<1>a. ASSUME NEW t \in Threads, stack[t] # <<>>, NEW at \in Places \ {"build"},
             Moves(t, [Top(t) EXCEPT !.at = at]),
             ~Build(Top(t)) \/ \E raises \in BOOLEAN : SetBuilds(t, raises)
      PROVE  Shape(t)
  <2>1. PICK f : /\ Moves(t, f) /\ f.op = Top(t).op /\ f.client = Top(t).client
                 /\ f.at = at
    BY <1>a, MovedOn
  <2>2. ~Build(f)
    BY <1>a, <2>1 DEF Build
  <2> QED BY <1>a, <2>1, <2>2 DEF Shape
<1>5. ASSUME NEW t \in Threads,
             ReadLock(t) \/ WriteLock(t) \/ GetFinds(t) \/ SetStores(t) \/ StopWaits(t)
      PROVE  Shape(t)
  <2>1. stack[t] # <<>> /\ ~Build(Top(t))
    BY <1>5 DEF ReadLock, WriteLock, GetFinds, SetStores, StopWaits, At, Build
  <2>2. \E at \in Places \ {"build"} : Moves(t, [Top(t) EXCEPT !.at = at])
    BY <1>0, <1>5, MoveEffects DEF Places
  <2> QED BY <1>a, <2>1, <2>2
<1>6. ASSUME NEW t \in Threads, LookForClient(t)
      PROVE  Shape(t)
  <2>1. stack[t] # <<>> /\ ~Build(Top(t))
    BY <1>6 DEF LookForClient, At, Build
  <2>2. \E at \in Places \ {"build"} : Moves(t, [Top(t) EXCEPT !.at = at])
    BY <1>0, <1>6, MoveEffects DEF Places
  <2> QED BY <1>a, <2>1, <2>2
<1>7. ASSUME NEW t \in Threads, ReleaseReadLock(t)
      PROVE  Shape(t)
  <2>1. stack[t] # <<>> /\ ~Build(Top(t)) /\ Top(t).op # "stop"
    BY <1>7 DEF ReleaseReadLock, At, Build
  <2>2. Returns(t) \/ Moves(t, [Top(t) EXCEPT !.at = "write"])
    BY <1>0, <1>7, OtherEffects
  <2>3. "write" \in Places \ {"build"}
    BY DEF Places
  <2>4. CASE Returns(t)
    BY <2>1, <2>4 DEF Shape
  <2> QED BY <1>a, <2>1, <2>2, <2>3, <2>4
<1>8. ASSUME NEW t \in Threads, ReleaseWriteLock(t)
      PROVE  Shape(t)
  <2>1. stack[t] # <<>> /\ ~Build(Top(t)) /\ Top(t).op # "stop"
    BY <1>8 DEF ReleaseWriteLock, At, Build
  <2> QED BY <1>0, <1>8, <2>1, OtherEffects DEF Shape
<1>9. ASSUME NEW t \in Threads, NEW raises \in BOOLEAN,
             GetBuilds(t, raises) \/ SetBuilds(t, raises)
      PROVE  Shape(t)
  <2>1. stack[t] # <<>> /\ (~Build(Top(t)) \/ SetBuilds(t, raises))
    BY <1>9 DEF GetBuilds, SetBuilds, At, Build
  <2>2. Moves(t, [Top(t) EXCEPT !.at = "unwrite"]) /\ "unwrite" \in Places \ {"build"}
    BY <1>0, <1>9, MoveEffects DEF Places
  <2> QED BY <1>a, <2>1, <2>2
<1>10. ASSUME NEW t \in Threads, SetStops(t)
       PROVE  Shape(t)
  <2>1. stack[t] # <<>> /\ client # NoClient
    BY <1>10 DEF SetStops, At
  <2> QED BY <1>0, <1>10, <2>1, OtherEffects DEF Shape
<1>11. ASSUME NEW t \in Threads, BecomeOwner(t) \/ StopPart(t)
       PROVE  Shape(t)
  <2>1. stack[t] # <<>> /\ Top(t).op = "stop" /\ Top(t) \in Frames
    BY <1>11, AtTop, TopFrame DEF BecomeOwner, StopPart
  <2>2. \A f \in {[Top(t) EXCEPT !.at = "shut", !.left = Order], [Top(t) EXCEPT !.left = Tail(@)]} :
          f.op = Top(t).op /\ f.client = Top(t).client
    BY <2>1 DEF Frames
  <2>3. PICK f : Moves(t, f) /\ f.op = Top(t).op /\ f.client = Top(t).client
    BY <1>0, <1>11, <2>2, OtherEffects
  <2>4. ~Build(f) /\ ~Build(Top(t))
    BY <2>1, <2>3 DEF Build
  <2> QED BY <2>1, <2>3, <2>4 DEF Shape
<1>12. ASSUME NEW t \in Threads, StopRecursive(t) \/ StopWaited(t) \/ StopEnds(t)
       PROVE  Shape(t)
  <2>1. stack[t] # <<>> /\ Top(t).op = "stop" /\ Top(t).client \in Clients
    BY <1>12, AtTop, TopFrame DEF StopRecursive, StopWaited, StopEnds
  <2>2. closed[Top(t).client]
    <3>1. CASE StopRecursive(t)
      BY <3>1 DEF StopRecursive
    <3>2. CASE StopWaited(t)
      BY <2>1, <3>2 DEF StopWaited, ToldInv
    <3>3. CASE StopEnds(t)
      BY <3>3, ShutAtTop DEF StopEnds, Closing
    <3> QED BY <1>12, <3>1, <3>2, <3>3
  <2>3. Returns(t) /\ ~Build(Top(t))
    BY <1>0, <1>12, <2>1, OtherEffects DEF Build
  <2> QED BY <2>1, <2>2, <2>3 DEF Shape
<1> QED BY <1>1, <1>2, <1>3, <1>4, <1>5, <1>6, <1>7, <1>8, <1>9, <1>10, <1>11, <1>12, NextCases

(* A client that is closed stays closed, one that the application stopped    *)
(* remains so.                                                               *)
LEMMA Lasting ==
  ASSUME TypeInv, [Next]_vars
  PROVE  /\ \A c \in Clients : closed[c] => closed'[c]
         /\ byApp \subseteq byApp' /\ unreplaced \subseteq unreplaced'
<1>1. CASE UNCHANGED vars
  BY <1>1 DEF vars, clientVars, lifeVars, askedVars
<1>2. ASSUME NEW t \in Threads, BecomeOwner(t), UNCHANGED askedVars
      PROVE  /\ \A c \in Clients : closed[c] => closed'[c]
             /\ byApp \subseteq byApp' /\ unreplaced \subseteq unreplaced'
  BY <1>2 DEF BecomeOwner, askedVars, TypeInv, ClientTypeOK
<1>3. ASSUME NEW t \in Threads,
             \/ StopRecursive(t) \/ StopWaits(t) \/ StopWaited(t) \/ StopPart(t) \/ StopEnds(t),
             UNCHANGED askedVars
      PROVE  UNCHANGED <<closed, byApp, unreplaced>>
  BY <1>3 DEF StopRecursive, StopWaits, StopWaited, StopPart, StopEnds, lifeVars, askedVars
<1>4. ASSUME NEW t \in Threads,
             \/ CallGet(t) \/ CallSetConfig(t) \/ (\E c \in Clients : AppStops(t, c))
             \/ \E raises \in BOOLEAN : AppConstructs(t, raises)
      PROVE  UNCHANGED <<closed, unreplaced>> /\ byApp \subseteq byApp'
  BY <1>4 DEF CallGet, CallSetConfig, AppStops, CallStop, AppConstructs, Construct, lifeVars,
              askedVars
<1>5. ASSUME NEW t \in Threads,
             \/ ReadLock(t) \/ LookForClient(t) \/ ReleaseReadLock(t)
             \/ WriteLock(t) \/ ReleaseWriteLock(t) \/ GetFinds(t)
             \/ SetStores(t) \/ SetStops(t)
      PROVE  UNCHANGED <<closed, byApp, unreplaced>>
  BY <1>5 DEF ReadLock, LookForClient, ReleaseReadLock, WriteLock, ReleaseWriteLock, GetFinds,
              SetStores, SetStops, OnlyStack, lifeVars, askedVars
<1>6. ASSUME NEW t \in Threads, NEW raises \in BOOLEAN,
             GetBuilds(t, raises) \/ SetBuilds(t, raises)
      PROVE  UNCHANGED <<closed, byApp>> /\ unreplaced \subseteq unreplaced'
  BY <1>6 DEF GetBuilds, SetBuilds, Construct, lifeVars, askedVars
<1> QED BY <1>1, <1>2, <1>3, <1>4, <1>5, <1>6, NextCases

(* The client is assigned by get, which found none, and by set_config, and   *)
(* only the first call of its stop closes it.                                *)
LEMMA ClientKept ==
  ASSUME [Next]_vars
  PROVE  \/ UNCHANGED <<client, closed, unreplaced>>
         \/ \E t \in Threads : BecomeOwner(t) /\ UNCHANGED <<client, unreplaced>>
         \/ \E t \in Threads, raises \in BOOLEAN : GetBuilds(t, raises) \/ SetBuilds(t, raises)
<1>1. CASE UNCHANGED vars
  BY <1>1 DEF vars, clientVars, lifeVars, singletonVars, askedVars
<1>2. ASSUME NEW t \in Threads,
             \/ CallGet(t) \/ CallSetConfig(t) \/ (\E c \in Clients : AppStops(t, c))
             \/ \E raises \in BOOLEAN : AppConstructs(t, raises)
      PROVE  UNCHANGED <<client, closed, unreplaced>>
  BY <1>2 DEF CallGet, CallSetConfig, AppStops, CallStop, AppConstructs, Construct, lifeVars,
              singletonVars, askedVars
<1>3. ASSUME NEW t \in Threads,
             \/ ReadLock(t) \/ LookForClient(t) \/ ReleaseReadLock(t)
             \/ WriteLock(t) \/ ReleaseWriteLock(t) \/ GetFinds(t)
             \/ SetStores(t) \/ SetStops(t)
      PROVE  UNCHANGED <<client, closed, unreplaced>>
  BY <1>3 DEF ReadLock, LookForClient, ReleaseReadLock, WriteLock, ReleaseWriteLock, GetFinds,
              SetStores, SetStops, OnlyStack, lifeVars, singletonVars, askedVars
<1>4. ASSUME NEW t \in Threads,
             \/ StopRecursive(t) \/ StopWaits(t) \/ StopWaited(t) \/ StopPart(t) \/ StopEnds(t),
             UNCHANGED <<singletonVars, askedVars>>
      PROVE  UNCHANGED <<client, closed, unreplaced>>
  BY <1>4 DEF StopRecursive, StopWaits, StopWaited, StopPart, StopEnds, lifeVars,
              singletonVars, askedVars
<1>5. \A t \in Threads : BecomeOwner(t) /\ UNCHANGED <<singletonVars, askedVars>> =>
                           UNCHANGED <<client, unreplaced>>
  BY DEF singletonVars, askedVars
<1> QED BY <1>1, <1>2, <1>3, <1>4, <1>5, NextCases

(* While set_config replaces the client, the call of stop that it made, and  *)
(* nothing else, is right above it; after that the client is closed.         *)
BuildInv ==
  \A t \in Threads : \A n \in 1..Len(stack[t]) : Build(Level(stack[t], n)) =>
    /\ client # NoClient
    /\ n = Len(stack[t]) => closed[client]
    /\ n # Len(stack[t]) => /\ Level(stack[t], n + 1).op = "stop"
                            /\ Level(stack[t], n + 1).client = client

LEMMA BuildAfter ==
  ASSUME TypeInv, BuildInv, NEW t \in Threads, UNCHANGED client, Shape(t),
         \A c \in Clients : closed[c] => closed'[c]
  PROVE  BuildInv'
<1>0. StackType /\ client \in Clients \cup {NoClient}
  BY TypeInvStack
<1>1. Len(stack[t]) \in Nat
  BY <1>0, LenIsNat
<1>2. stack[t] # <<>> => Len(stack[t]) > 0 /\ Level(stack[t], Len(stack[t])) = Top(t)
  BY <1>0, Innermost
<1>3. SUFFICES ASSUME NEW n \in 1..Len(stack'[t]), Build(Level(stack'[t], n))
               PROVE  /\ client # NoClient
                      /\ n = Len(stack'[t]) => closed'[client]
                      /\ n # Len(stack'[t]) => /\ Level(stack'[t], n + 1).op = "stop"
                                               /\ Level(stack'[t], n + 1).client = client
  <2>1. \A u \in Threads : u # t => stack'[u] = stack[u]
    BY DEF Shape, Calls, Moves, Returns, Stops, Same
  <2>2. ASSUME NEW u \in Threads, NEW n \in 1..Len(stack'[u]), Build(Level(stack'[u], n))
        PROVE  /\ client # NoClient
               /\ n = Len(stack'[u]) => closed'[client]
               /\ n # Len(stack'[u]) => /\ Level(stack'[u], n + 1).op = "stop"
                                        /\ Level(stack'[u], n + 1).client = client
    BY <1>0, <1>3, <2>1, <2>2 DEF BuildInv
  <2> QED BY <2>2 DEF BuildInv
(* A call that was there and was not the innermost.                          *)
<1>4. ASSUME n \in 1..Len(stack[t]) - 1, Level(stack'[t], n) = Level(stack[t], n)
      PROVE  Top(t).op = "stop" \/ n + 1 < Len(stack[t])
  <2>1. n \in 1..Len(stack[t]) /\ n # Len(stack[t])
    BY <1>1, <1>4
  <2>2. n + 1 = Len(stack[t]) \/ n + 1 < Len(stack[t])
    BY <1>1, <1>4
  <2>3. stack[t] # <<>>
    BY <1>0, <1>1, <2>1, EmptySeq
  <2> QED BY <1>2, <1>3, <1>4, <2>1, <2>2, <2>3 DEF BuildInv
<1>5. ASSUME n \in 1..Len(stack[t]), Level(stack'[t], n) = Level(stack[t], n)
      PROVE  /\ client # NoClient
             /\ n # Len(stack[t]) => /\ Level(stack[t], n + 1).op = "stop"
                                     /\ Level(stack[t], n + 1).client = client
  BY <1>3, <1>5 DEF BuildInv
<1>6. ASSUME NEW f, MayCall(t), Calls(t, f), ~Build(f)
      PROVE  /\ client # NoClient
             /\ n = Len(stack'[t]) => closed'[client]
             /\ n # Len(stack'[t]) => /\ Level(stack'[t], n + 1).op = "stop"
                                      /\ Level(stack'[t], n + 1).client = client
  <2>1. n \in 1..Len(stack[t]) /\ Level(stack'[t], n) = Level(stack[t], n)
    BY <1>1, <1>3, <1>6 DEF Calls, Same
  <2>2. stack[t] # <<>>
    BY <1>0, <1>1, <2>1, EmptySeq
  <2>3. n # Len(stack[t])
    BY <1>2, <1>3, <1>6, <2>1, <2>2 DEF MayCall, At, Build
  <2>4. n + 1 \in 1..Len(stack[t])
    BY <1>1, <2>1, <2>3
  <2> QED BY <1>1, <1>5, <1>6, <2>1, <2>3, <2>4 DEF Calls, Same
<1>7. ASSUME NEW f, stack[t] # <<>>, Moves(t, f), ~Build(f),
             f.op = Top(t).op, f.client = Top(t).client
      PROVE  /\ client # NoClient
             /\ n = Len(stack'[t]) => closed'[client]
             /\ n # Len(stack'[t]) => /\ Level(stack'[t], n + 1).op = "stop"
                                      /\ Level(stack'[t], n + 1).client = client
  <2>1. n \in 1..Len(stack[t]) - 1 /\ Level(stack'[t], n) = Level(stack[t], n)
    BY <1>1, <1>3, <1>7 DEF Moves, Same
  <2>2. n \in 1..Len(stack[t]) /\ n # Len(stack[t])
    BY <1>1, <2>1
  <2>3. /\ client # NoClient
        /\ Level(stack[t], n + 1).op = "stop" /\ Level(stack[t], n + 1).client = client
    BY <1>5, <2>1, <2>2
  <2>4. CASE n + 1 = Len(stack[t])
    BY <1>2, <1>7, <2>2, <2>3, <2>4 DEF Moves
  <2>5. CASE n + 1 \in 1..Len(stack[t]) - 1
    BY <1>7, <2>2, <2>3, <2>5 DEF Moves, Same
  <2> QED BY <1>1, <2>1, <2>4, <2>5
<1>8. ASSUME stack[t] # <<>>, Returns(t), Top(t).op = "stop" => closed[Top(t).client]
      PROVE  /\ client # NoClient
             /\ n = Len(stack'[t]) => closed'[client]
             /\ n # Len(stack'[t]) => /\ Level(stack'[t], n + 1).op = "stop"
                                      /\ Level(stack'[t], n + 1).client = client
  <2>1. n \in 1..Len(stack[t]) - 1 /\ Level(stack'[t], n) = Level(stack[t], n)
    BY <1>1, <1>3, <1>8 DEF Returns, Same
  <2>2. n \in 1..Len(stack[t]) /\ n # Len(stack[t])
    BY <1>1, <2>1
  <2>3. /\ client # NoClient
        /\ Level(stack[t], n + 1).op = "stop" /\ Level(stack[t], n + 1).client = client
    BY <1>5, <2>1, <2>2
  <2>4. CASE n + 1 = Len(stack[t])
    <3>1. closed'[client]
      BY <1>0, <1>2, <1>8, <2>3, <2>4
    <3>2. n = Len(stack'[t])
      BY <1>1, <1>8, <2>1, <2>4 DEF Returns
    <3> QED BY <2>3, <3>1, <3>2
  <2>5. CASE n + 1 \in 1..Len(stack[t]) - 1
    BY <1>1, <1>8, <2>1, <2>3, <2>5 DEF Returns, Same
  <2> QED BY <1>1, <2>1, <2>4, <2>5
<1>9. ASSUME stack[t] # <<>>, Stops(t), client # NoClient
      PROVE  /\ client # NoClient
             /\ n = Len(stack'[t]) => closed'[client]
             /\ n # Len(stack'[t]) => /\ Level(stack'[t], n + 1).op = "stop"
                                      /\ Level(stack'[t], n + 1).client = client
  <2>1. /\ Frame("stop", "enter", client, <<>>).op = "stop"
        /\ Frame("stop", "enter", client, <<>>).client = client
    BY DEF Frame
  <2>2. Top(t).op # "stop"
    BY <1>9, AtTop DEF Stops
  <2>3. n # Len(stack[t]) + 1
    BY <1>3, <1>9, <2>1 DEF Stops, Build
  <2>4. CASE n = Len(stack[t])
    BY <1>1, <1>9, <2>1, <2>4 DEF Stops
  <2>5. CASE n \in 1..Len(stack[t]) - 1
    <3>1. n + 1 \in 1..Len(stack[t]) - 1 /\ Level(stack'[t], n) = Level(stack[t], n)
      <4>1. Level(stack'[t], n) = Level(stack[t], n)
        BY <1>9, <2>5 DEF Stops, Same
      <4>2. n + 1 < Len(stack[t])
        BY <1>4, <2>2, <2>5, <4>1
      <4> QED BY <1>1, <2>5, <4>1, <4>2
    <3>2. /\ Level(stack[t], n + 1).op = "stop" /\ Level(stack[t], n + 1).client = client
      BY <1>1, <1>5, <2>5, <3>1
    <3> QED BY <1>1, <1>9, <2>5, <3>1, <3>2 DEF Stops, Same
  <2> QED BY <1>1, <1>9, <2>3, <2>4, <2>5 DEF Stops
<1> QED BY <1>6, <1>7, <1>8, <1>9 DEF Shape

LEMMA BuildStep ==
  TypeInv /\ WriterInv /\ ShutInv /\ ToldInv /\ BuildInv /\ [Next]_vars => BuildInv'
<1> SUFFICES ASSUME TypeInv, WriterInv, ShutInv, ToldInv, BuildInv, [Next]_vars
             PROVE  BuildInv'
  OBVIOUS
<1>0. StackType /\ client \in Clients \cup {NoClient}
  BY TypeInvStack
<1>1. CASE stack' = stack /\ UNCHANGED client
  BY <1>0, <1>1, Lasting DEF BuildInv
<1>2. CASE (\E t \in Threads : Shape(t)) /\ UNCHANGED client
  BY <1>2, BuildAfter, Lasting
(* The client is made by a thread that has the lock: no other replaces it.   *)
<1>3. ASSUME NEW t \in Threads, NEW raises \in BOOLEAN,
             GetBuilds(t, raises) \/ SetBuilds(t, raises)
      PROVE  BuildInv'
  <2> DEFINE f == [Top(t) EXCEPT !.at = "unwrite"]
  <2>1. stack[t] # <<>> /\ Holds(Top(t))
    BY <1>3 DEF GetBuilds, SetBuilds, At, Holds
  <2>2. /\ Len(stack[t]) \in Nat /\ Len(stack[t]) > 0
        /\ Level(stack[t], Len(stack[t])) = Top(t)
    BY <1>0, <2>1, Innermost
  <2>3. Moves(t, f) /\ ~Build(f)
    <3>1. f.at = "unwrite"
      BY <2>1, TopFrame, MovedFrame
    <3> QED BY <1>0, <1>3, <3>1, MoveEffects DEF Build
  <2> HIDE DEF f
  <2>4. \A u \in Threads : \A n \in 1..Len(stack[u]) :
          Build(Level(stack[u], n)) => u = t /\ n = Len(stack[t])
    <3>1. \A g : Build(g) => Holds(g)
      BY DEF Build, Holds
    <3>2. writer = t /\ \A n \in 1..Len(stack[t]) : Holds(Level(stack[t], n)) => n = Len(stack[t])
      BY <2>1, <2>2 DEF WriterInv
    <3> QED BY <3>1, <3>2 DEF WriterInv
  <2>5. \A u \in Threads : \A n \in 1..Len(stack'[u]) : ~Build(Level(stack'[u], n))
    BY <2>2, <2>3, <2>4 DEF Moves, Same
  <2> QED BY <2>5 DEF BuildInv
<1> QED BY <1>1, <1>2, <1>3, Shapes, ClientKept

(* stop is called by the application, or by set_config.                      *)
AskedInv ==
  \A t \in Threads : \A n \in 1..Len(stack[t]) : Level(stack[t], n).op = "stop" =>
    \/ Level(stack[t], n).client \in byApp
    \/ n > 1 /\ Build(Level(stack[t], n - 1))

LEMMA AskedStep == TypeInv /\ ShutInv /\ ToldInv /\ AskedInv /\ [Next]_vars => AskedInv'
<1> SUFFICES ASSUME TypeInv, ShutInv, ToldInv, AskedInv, [Next]_vars
             PROVE  AskedInv'
  OBVIOUS
<1>0. StackType /\ byApp \subseteq byApp'
  BY TypeInvStack, Lasting
<1>1. CASE stack' = stack
  BY <1>0, <1>1 DEF AskedInv
<1>2. ASSUME NEW t \in Threads, Shape(t)
      PROVE  AskedInv'
  <2>1. Len(stack[t]) \in Nat
    BY <1>0, LenIsNat
  <2>2. stack[t] # <<>> => Len(stack[t]) > 0 /\ Level(stack[t], Len(stack[t])) = Top(t)
    BY <1>0, Innermost
  <2>3. SUFFICES ASSUME NEW n \in 1..Len(stack'[t]), Level(stack'[t], n).op = "stop"
                 PROVE  \/ Level(stack'[t], n).client \in byApp'
                        \/ n > 1 /\ Build(Level(stack'[t], n - 1))
    <3>1. \A u \in Threads : u # t => stack'[u] = stack[u]
      BY <1>2 DEF Shape, Calls, Moves, Returns, Stops, Same
    <3> QED BY <1>0, <2>3, <3>1 DEF AskedInv
  (* A call that was there, like those below it.                             *)
  <2>4. ASSUME n \in 1..Len(stack[t]),
               Level(stack'[t], n).op = Level(stack[t], n).op,
               Level(stack'[t], n).client = Level(stack[t], n).client,
               n > 1 => Level(stack'[t], n - 1) = Level(stack[t], n - 1)
        PROVE  \/ Level(stack'[t], n).client \in byApp'
               \/ n > 1 /\ Build(Level(stack'[t], n - 1))
    BY <1>0, <2>3, <2>4 DEF AskedInv
  <2>5. ASSUME NEW f, Calls(t, f), f.op = "stop" => f.client \in byApp'
        PROVE  \/ Level(stack'[t], n).client \in byApp'
               \/ n > 1 /\ Build(Level(stack'[t], n - 1))
    <3>1. CASE n = Len(stack[t]) + 1
      BY <2>3, <2>5, <3>1 DEF Calls
    <3>2. CASE n \in 1..Len(stack[t])
      BY <2>1, <2>4, <2>5, <3>2 DEF Calls, Same
    <3> QED BY <2>1, <2>5, <3>1, <3>2 DEF Calls
  <2>6. ASSUME NEW f, stack[t] # <<>>, Moves(t, f),
               f.op = Top(t).op, f.client = Top(t).client
        PROVE  \/ Level(stack'[t], n).client \in byApp'
               \/ n > 1 /\ Build(Level(stack'[t], n - 1))
    <3>1. n \in 1..Len(stack[t])
      BY <2>6 DEF Moves
    <3>2. n > 1 => Level(stack'[t], n - 1) = Level(stack[t], n - 1)
      BY <2>1, <2>6, <3>1 DEF Moves, Same
    <3>3. CASE n = Len(stack[t])
      BY <2>2, <2>4, <2>6, <3>1, <3>2, <3>3 DEF Moves
    <3>4. CASE n \in 1..Len(stack[t]) - 1
      BY <2>4, <2>6, <3>1, <3>2, <3>4 DEF Moves, Same
    <3> QED BY <2>1, <3>1, <3>3, <3>4
  <2>7. ASSUME stack[t] # <<>>, Returns(t)
        PROVE  \/ Level(stack'[t], n).client \in byApp'
               \/ n > 1 /\ Build(Level(stack'[t], n - 1))
    BY <2>1, <2>4, <2>7 DEF Returns, Same
  <2>8. ASSUME stack[t] # <<>>, Stops(t)
        PROVE  \/ Level(stack'[t], n).client \in byApp'
               \/ n > 1 /\ Build(Level(stack'[t], n - 1))
    <3>1. Top(t) \in Frames /\ Top(t).op = "set"
      BY <1>0, <2>8, AtTop, Innermost DEF Stops
    <3>2. Build([Top(t) EXCEPT !.at = "build"])
      BY <3>1, MovedFrame DEF Build
    <3>3. CASE n = Len(stack[t]) + 1
      BY <2>1, <2>2, <2>8, <3>2, <3>3 DEF Stops
    <3>4. n # Len(stack[t])
      BY <2>3, <2>8, <3>2 DEF Stops, Build
    <3>5. CASE n \in 1..Len(stack[t]) - 1
      BY <2>1, <2>4, <2>8, <3>5 DEF Stops, Same
    <3> QED BY <2>1, <2>8, <3>3, <3>4, <3>5 DEF Stops
  <2> QED BY <1>2, <2>5, <2>6, <2>7, <2>8 DEF Shape
<1> QED BY <1>1, <1>2, Shapes

(* Some call of set_config is about to replace the client.                   *)
Replacing == \E t \in Threads : \E n \in 1..Len(stack[t]) : Build(Level(stack[t], n))

(* A client that is closed was stopped by the application, lost its          *)
(* replacement, or is about to be replaced.                                  *)
ServeInv ==
  /\ client # NoClient /\ closed[client] => client \in byApp \cup unreplaced \/ Replacing
  /\ NoClient \notin unreplaced

(* set_config goes on with the replacement until it has made the new client. *)
LEMMA ReplacingLasts ==
  ASSUME TypeInv, ShutInv, ToldInv, [Next]_vars, Replacing,
         \A t \in Threads, raises \in BOOLEAN : ~SetBuilds(t, raises)
  PROVE  Replacing'
<1>0. StackType
  BY TypeInvStack
<1>1. PICK u \in Threads : \E n \in 1..Len(stack[u]) : Build(Level(stack[u], n))
  BY DEF Replacing
<1>2. PICK n \in 1..Len(stack[u]) : Build(Level(stack[u], n))
  BY <1>1
<1>3. SUFFICES n \in 1..Len(stack'[u]) /\ Level(stack'[u], n) = Level(stack[u], n)
  <2>1. (\E t \in Threads : \E m \in 1..Len(stack[t]) : Build(Level(stack[t], m)))'
    BY <1>2, <1>3
  <2> QED BY <2>1 DEF Replacing
<1>4. CASE stack' = stack
  BY <1>4
<1>5. ASSUME NEW t \in Threads, Shape(t)
      PROVE  n \in 1..Len(stack'[u]) /\ Level(stack'[u], n) = Level(stack[u], n)
  <2>1. Len(stack[t]) \in Nat
    BY <1>0, LenIsNat
  <2>2. stack[t] # <<>> => Len(stack[t]) > 0 /\ Level(stack[t], Len(stack[t])) = Top(t)
    BY <1>0, Innermost
  <2>3. CASE u # t
    BY <1>5, <2>3 DEF Shape, Calls, Moves, Returns, Stops, Same
  <2>4. ASSUME u = t, NEW f, Calls(t, f)
        PROVE  n \in 1..Len(stack'[u]) /\ Level(stack'[u], n) = Level(stack[u], n)
    BY <2>1, <2>4 DEF Calls, Same
  <2>5. ASSUME u = t, stack[t] # <<>>, ~Build(Top(t))
        PROVE  n \in 1..Len(stack[t]) - 1
    BY <1>2, <2>1, <2>2, <2>5
  <2>6. CASE u = t /\ stack[t] # <<>> /\ ~Build(Top(t))
    BY <1>5, <2>1, <2>4, <2>5, <2>6 DEF Shape, Moves, Returns, Stops, Same
  <2>7. CASE u = t /\ stack[t] # <<>> /\ Build(Top(t))
    BY <1>5, <2>4, <2>7 DEF Shape, Stops, At, Build
  <2>8. stack[t] = <<>> => u # t \/ \E f : Calls(t, f)
    BY <1>5 DEF Shape
  <2> QED BY <2>3, <2>4, <2>6, <2>7, <2>8
<1> QED BY <1>4, <1>5, Shapes

LEMMA ServeStep ==
  /\ TypeInv /\ CountInv /\ ShutInv /\ ToldInv /\ MadeInv /\ BuildInv /\ AskedInv /\ ServeInv
  /\ [Next]_vars
  => ServeInv'
<1> SUFFICES ASSUME TypeInv, CountInv, ShutInv, ToldInv, MadeInv, BuildInv, AskedInv, ServeInv,
                    [Next]_vars
             PROVE  ServeInv'
  OBVIOUS
<1>0. StackType /\ (client \in Clients \cup {NoClient})
  BY TypeInvStack
<1>a. /\ closed \in [Clients -> BOOLEAN] /\ made \in Nat
      /\ byApp \subseteq byApp' /\ unreplaced \subseteq unreplaced'
  BY NaturalBounds, Lasting DEF TypeInv, ClientTypeOK
(* A client that was just made is open.                                      *)
<1>b. ASSUME NEW t \in Threads, stack[t] # <<>>, MayMake(Top(t))
      PROVE  ~closed[made + 1]
  <2>1. made + 1 \in Clients
    BY <1>b, RoomForClient
  <2> QED BY <1>a, <2>1 DEF MadeInv
<1>1. ASSUME NEW t \in Threads, NEW raises \in BOOLEAN, GetBuilds(t, raises)
      PROVE  ServeInv'
  <2>1. /\ client = NoClient /\ UNCHANGED <<closed, unreplaced>>
        /\ client' = IF raises THEN client ELSE made + 1
    BY <1>1 DEF GetBuilds, NeedsClient, Construct, lifeVars, askedVars
  <2>2. ~closed[made + 1]
    BY <1>b, <1>1 DEF GetBuilds, At, MayMake
  <2> QED BY <2>1, <2>2 DEF ServeInv
<1>2. ASSUME NEW t \in Threads, NEW raises \in BOOLEAN, SetBuilds(t, raises)
      PROVE  ServeInv'
  <2>1. /\ UNCHANGED closed
        /\ client' = IF raises THEN client ELSE made + 1
        /\ unreplaced' = IF raises THEN unreplaced \cup {client} ELSE unreplaced
    BY <1>2 DEF SetBuilds, Construct, lifeVars
  <2>2. ~closed[made + 1]
    BY <1>b, <1>2 DEF SetBuilds, At, MayMake
  <2>3. client # NoClient
    <3>1. stack[t] # <<>> /\ Build(Top(t))
      BY <1>2 DEF SetBuilds, At, Build
    <3> QED BY <1>0, <3>1, Innermost DEF BuildInv
  <2> QED BY <2>1, <2>2, <2>3 DEF ServeInv
<1>3. ASSUME \A t \in Threads, raises \in BOOLEAN : ~SetBuilds(t, raises),
             UNCHANGED <<client, closed, unreplaced>>
      PROVE  ServeInv'
  BY <1>a, <1>3, ReplacingLasts DEF ServeInv
(* Who closes the client is called by the application, or by set_config.     *)
<1>4. ASSUME \A t \in Threads, raises \in BOOLEAN : ~SetBuilds(t, raises),
             NEW t \in Threads, BecomeOwner(t), UNCHANGED <<client, unreplaced>>
      PROVE  ServeInv'
  <2> DEFINE c == Top(t).client
  <2>1. /\ stack[t] # <<>> /\ Top(t).op = "stop" /\ c \in Clients
        /\ closed' = [closed EXCEPT ![c] = TRUE]
    BY <1>4, AtTop, TopFrame DEF BecomeOwner
  <2>2. /\ Len(stack[t]) \in Nat /\ Len(stack[t]) > 0
        /\ Level(stack[t], Len(stack[t])) = Top(t)
    BY <1>0, <2>1, Innermost
  <2>3. c \in byApp \/ Replacing
    <3>1. c \in byApp \/ (Len(stack[t]) > 1 /\ Build(Level(stack[t], Len(stack[t]) - 1)))
      BY <2>1, <2>2 DEF AskedInv
    <3>2. Len(stack[t]) > 1 => Len(stack[t]) - 1 \in 1..Len(stack[t])
      BY <2>2
    <3> QED BY <3>1, <3>2 DEF Replacing
  <2>4. c \in byApp \/ Replacing'
    BY <1>4, <2>3, ReplacingLasts
  <2>5. CASE client = c
    BY <1>a, <1>4, <2>4, <2>5 DEF ServeInv
  <2>6. CASE client # c
    <3>1. client # NoClient => closed'[client] = closed[client]
      BY <1>0, <1>a, <2>1, <2>6
    <3> QED BY <1>a, <1>4, <3>1, ReplacingLasts DEF ServeInv
  <2> QED BY <2>5, <2>6
<1> QED BY <1>1, <1>2, <1>3, <1>4, ClientKept

(* Parts run of the client, of those that were closed, and of those that     *)
(* nobody can close, or stop entirely, or that the application made.         *)
OrphanInv ==
  \A c \in Clients :
    running[c] # {} => c = client \/ closed[c] \/ c \in direct \cup lost \cup broken

(* What was told to stop has ended, unless something raised.                 *)
EndedInv ==
  \A c \in Clients : c \notin broken =>
    \A i \in 1..Len(stopped[c]) : running[c] \cap Ends(stopped[c][i]) = {}

LEMMA PartsKept ==
  ASSUME [Next]_vars
  PROVE  \/ UNCHANGED <<client, running, stopped, broken, direct, lost>>
         \/ \E t \in Threads : StopPart(t) /\ UNCHANGED <<client, direct>>
         \/ \E t \in Threads, raises \in BOOLEAN :
              AppConstructs(t, raises) \/ GetBuilds(t, raises) \/ SetBuilds(t, raises)
<1> DEFINE Kept == UNCHANGED <<client, running, stopped, broken, direct, lost>>
<1>1. UNCHANGED vars => Kept
  BY DEF vars, clientVars, partVars, lifeVars, singletonVars, askedVars
<1>2. ASSUME NEW t \in Threads,
             \/ CallGet(t) \/ CallSetConfig(t) \/ (\E c \in Clients : AppStops(t, c))
      PROVE  Kept
  BY <1>2 DEF CallGet, CallSetConfig, AppStops, CallStop, partVars, lifeVars,
              singletonVars, askedVars
<1>3. ASSUME NEW t \in Threads,
             \/ ReadLock(t) \/ LookForClient(t) \/ ReleaseReadLock(t)
             \/ WriteLock(t) \/ ReleaseWriteLock(t) \/ GetFinds(t)
             \/ SetStores(t) \/ SetStops(t)
      PROVE  Kept
  BY <1>3 DEF ReadLock, LookForClient, ReleaseReadLock, WriteLock, ReleaseWriteLock, GetFinds,
              SetStores, SetStops, OnlyStack, partVars, lifeVars, singletonVars, askedVars
<1>4. ASSUME NEW t \in Threads,
             \/ BecomeOwner(t) \/ StopRecursive(t) \/ StopWaits(t) \/ StopWaited(t)
             \/ StopEnds(t),
             UNCHANGED <<singletonVars, askedVars>>
      PROVE  Kept
  BY <1>4 DEF BecomeOwner, StopRecursive, StopWaits, StopWaited, StopEnds, partVars, lifeVars,
              singletonVars, askedVars
<1>5. \A t \in Threads : StopPart(t) /\ UNCHANGED <<singletonVars, askedVars>> =>
                           UNCHANGED <<client, direct>>
  BY DEF singletonVars, askedVars
<1> QED BY <1>1, <1>2, <1>3, <1>4, <1>5, NextCases

(* A constructor touches one client, which nobody knows yet; when it does    *)
(* not return it, it is lost.                                                *)
LEMMA ConstructEffects ==
  ASSUME TypeInv, MadeInv, ToldInv, NEW raises \in BOOLEAN, made + 1 \in Clients,
         Construct(made + 1, raises)
  PROVE  /\ \A c \in Clients : c # made + 1 => running'[c] = running[c]
         /\ lost \subseteq lost' /\ (raises => made + 1 \in lost')
         /\ UNCHANGED <<broken, closed, stopped>>
         /\ stopped[made + 1] = <<>>
<1>1. \A c \in Clients : c # made + 1 => running'[c] = running[c]
  BY DEF Construct, TypeInv, ClientTypeOK
<1>2. stopped[made + 1] = <<>>
  <2>1. made \in Nat
    BY NaturalBounds DEF TypeInv, ClientTypeOK
  <2> QED BY <2>1 DEF MadeInv, ToldInv
<1> QED BY <1>1, <1>2 DEF Construct, lifeVars

LEMMA OrphanStep ==
  /\ TypeInv /\ CountInv /\ ToldInv /\ MadeInv /\ BuildInv /\ OrphanInv
  /\ [Next]_vars
  => OrphanInv'
<1> SUFFICES ASSUME TypeInv, CountInv, ToldInv, MadeInv, BuildInv, OrphanInv, [Next]_vars
             PROVE  OrphanInv'
  OBVIOUS
<1>0. StackType /\ \A c \in Clients : closed[c] => closed'[c]
  BY TypeInvStack, Lasting
<1>1. CASE UNCHANGED <<client, running, stopped, broken, direct, lost>>
  BY <1>0, <1>1 DEF OrphanInv
<1>2. ASSUME NEW t \in Threads, StopPart(t), UNCHANGED <<client, direct>>
      PROVE  OrphanInv'
  <2>1. /\ broken \subseteq broken' /\ UNCHANGED lost
        /\ \A c \in Clients : running'[c] \subseteq running[c]
    BY <1>2 DEF StopPart, TypeInv, ClientTypeOK
  <2> QED BY <1>0, <1>2, <2>1 DEF OrphanInv
<1>3. ASSUME NEW t \in Threads, NEW raises \in BOOLEAN, AppConstructs(t, raises)
      PROVE  OrphanInv'
  <2>1. /\ Construct(made + 1, raises) /\ calls < MaxCalls
        /\ direct' = direct \cup {made + 1} /\ UNCHANGED client
    BY <1>3 DEF AppConstructs, MayCall, At, singletonVars
  <2>2. made + 1 \in Clients
    BY <2>1, RoomForClient
  <2>3. /\ \A c \in Clients : c # made + 1 => running'[c] = running[c]
        /\ lost \subseteq lost' /\ UNCHANGED <<broken, closed>>
    BY <2>1, <2>2, ConstructEffects
  <2> QED BY <2>1, <2>3 DEF OrphanInv
<1>4. ASSUME NEW t \in Threads, NEW raises \in BOOLEAN,
             GetBuilds(t, raises) \/ SetBuilds(t, raises)
      PROVE  OrphanInv'
  <2>1. /\ stack[t] # <<>> /\ MayMake(Top(t))
        /\ Construct(made + 1, raises) /\ UNCHANGED direct
        /\ client' = IF raises THEN client ELSE made + 1
    BY <1>4 DEF GetBuilds, SetBuilds, At, MayMake, askedVars
  <2>2. made + 1 \in Clients
    BY <2>1, RoomForClient
  <2>3. /\ \A c \in Clients : c # made + 1 => running'[c] = running[c]
        /\ lost \subseteq lost' /\ (raises => made + 1 \in lost')
        /\ UNCHANGED <<broken, closed>>
    BY <2>1, <2>2, ConstructEffects
  <2>4. client # NoClient => closed[client]
    <3>1. GetBuilds(t, raises) => client = NoClient
      BY DEF GetBuilds, NeedsClient
    <3>2. SetBuilds(t, raises) => Build(Top(t))
      BY DEF SetBuilds, At, Build
    <3> QED BY <1>0, <1>4, <2>1, <3>1, <3>2, Innermost DEF BuildInv
  <2>5. NoClient \notin Clients
    BY DEF NoClient, Clients
  <2> QED BY <2>1, <2>3, <2>4, <2>5 DEF OrphanInv
<1> QED BY <1>1, <1>2, <1>3, <1>4, PartsKept

LEMMA EndedStep ==
  TypeInv /\ CountInv /\ ToldInv /\ MadeInv /\ EndedInv /\ [Next]_vars => EndedInv'
<1> SUFFICES ASSUME TypeInv, CountInv, ToldInv, MadeInv, EndedInv, [Next]_vars
             PROVE  EndedInv'
  OBVIOUS
<1>1. CASE UNCHANGED <<client, running, stopped, broken, direct, lost>>
  BY <1>1 DEF EndedInv
<1>2. ASSUME NEW t \in Threads, StopPart(t)
      PROVE  EndedInv'
  <2> DEFINE c == Top(t).client
             part == Head(Top(t).left)
  <2>1. /\ c \in Clients /\ Top(t).left \in Seq(ToSet(Order)) /\ Top(t).left # <<>>
    BY <1>2, AtTop, TopFrame DEF StopPart
  <2>2. part \in ToSet(Order) /\ stopped[c] \in Seq(ToSet(Order))
    BY <2>1, HeadTailProperties DEF TypeInv, ClientTypeOK
  <2> HIDE DEF c, part
  <2>3. /\ stopped' = [stopped EXCEPT ![c] = Append(@, part)]
        /\ \/ running' = [running EXCEPT ![c] = @ \ Ends(part)] /\ UNCHANGED broken
           \/ broken' = broken \cup {c} /\ UNCHANGED running
    BY <1>2 DEF StopPart, c, part
  <2>4. /\ running \in [Clients -> SUBSET ToSet(Construction)]
        /\ stopped \in [Clients -> Seq(ToSet(Order))]
    BY DEF TypeInv, ClientTypeOK
  <2>5. /\ \A d \in Clients : d # c => stopped'[d] = stopped[d]
        /\ stopped'[c] = Append(stopped[c], part)
        /\ \A d \in Clients : running'[d] \subseteq running[d]
        /\ broken \subseteq broken'
        /\ c \notin broken' => running'[c] \cap Ends(part) = {}
    BY <2>1, <2>3, <2>4 DEF c
  <2>6. /\ Len(stopped[c]) \in Nat
        /\ Len(stopped'[c]) = Len(stopped[c]) + 1
        /\ stopped'[c][Len(stopped[c]) + 1] = part
        /\ \A i \in 1..Len(stopped[c]) : stopped'[c][i] = stopped[c][i]
    BY <2>2, <2>5, AppendProperties, LenProperties
  <2>7. ASSUME NEW d \in Clients, d \notin broken', NEW i \in 1..Len(stopped'[d])
        PROVE  running'[d] \cap Ends(stopped'[d][i]) = {}
    <3>1. CASE d # c
      BY <2>5, <2>7, <3>1 DEF EndedInv
    <3>2. CASE d = c /\ i = Len(stopped[c]) + 1
      BY <2>5, <2>6, <2>7, <3>2
    <3>3. CASE d = c /\ i \in 1..Len(stopped[c])
      BY <2>5, <2>6, <2>7, <3>3 DEF EndedInv
    <3> QED BY <2>6, <3>1, <3>2, <3>3
  <2>8. (\A d \in Clients : d \notin broken =>
           \A i \in 1..Len(stopped[d]) : running[d] \cap Ends(stopped[d][i]) = {})'
    BY <2>7 DEF Ends
  <2> QED BY <2>8 DEF EndedInv
<1>3. ASSUME NEW t \in Threads, NEW raises \in BOOLEAN,
             AppConstructs(t, raises) \/ GetBuilds(t, raises) \/ SetBuilds(t, raises)
      PROVE  EndedInv'
  <2>1. Construct(made + 1, raises)
    BY <1>3 DEF AppConstructs, GetBuilds, SetBuilds
  <2>2. made + 1 \in Clients
    <3>1. \/ calls < MaxCalls
          \/ stack[t] # <<>> /\ MayMake(Top(t))
      BY <1>3 DEF AppConstructs, GetBuilds, SetBuilds, MayCall, At, MayMake
    <3> QED BY <3>1, RoomForClient
  <2>3. /\ \A c \in Clients : c # made + 1 => running'[c] = running[c]
        /\ UNCHANGED <<broken, stopped>> /\ stopped[made + 1] = <<>>
    BY <2>1, <2>2, ConstructEffects
  <2>4. Len(<<>>) = 0
    OBVIOUS
  <2>5. \A i \in Nat : i \notin 1..0
    OBVIOUS
  <2>6. ASSUME NEW c \in Clients, c \notin broken, NEW i \in 1..Len(stopped[c])
        PROVE  running'[c] \cap Ends(stopped[c][i]) = {}
    <3>1. c # made + 1
      BY <2>3, <2>4, <2>6
    <3> QED BY <2>3, <2>6, <3>1 DEF EndedInv
  <2> QED BY <2>3, <2>6 DEF EndedInv, Ends
<1> QED BY <1>1, <1>2, <1>3, PartsKept

-----------------------------------------------------------------------------
(* The theorems *)

IndInv ==
  /\ TypeInv /\ CountInv
  /\ ParkedInv /\ ReadersInv /\ WriterInv
  /\ ShutInv /\ ToldInv /\ MadeInv
  /\ BuildInv /\ AskedInv /\ ServeInv
  /\ OrphanInv /\ EndedInv

LEMMA IndInvInit == Init => IndInv
<1> SUFFICES ASSUME Init PROVE IndInv
  OBVIOUS
<1> USE DEF Init, ClientInit
<1>1. \A t \in Threads : stack[t] = <<>> /\ Len(stack[t]) = 0 /\ 1..Len(stack[t]) = {}
  OBVIOUS
<1>2. TypeInv
  <2>1. <<>> \in Seq(Frames) /\ <<>> \in Seq(ToSet(Order))
    OBVIOUS
  <2>2. stack \in [Threads -> Seq(Frames)] /\ stopped \in [Clients -> Seq(ToSet(Order))]
    BY <2>1
  <2>3. 0 \in 0..(MaxCalls + MaxNested) /\ 0 \in 0..MaxCalls /\ 0 \in 0..MaxNested
        /\ 0 \in 0..MaxFailures
    BY NaturalBounds
  <2>4. ClientTypeOK
    BY <2>2, <2>3 DEF ClientTypeOK
  <2> QED BY <2>4 DEF TypeInv
<1>3. CountInv
  <2>1. Makers = {}
    BY <1>1 DEF Makers
  <2> QED BY <2>1, FS_EmptySet DEF CountInv
<1>4. ParkedInv /\ WriterInv /\ BuildInv /\ AskedInv
  BY <1>1 DEF ParkedInv, WriterInv, BuildInv, AskedInv
<1>5. ReadersInv
  <2>1. Readers = {}
    BY <1>1 DEF Readers, Reading
  <2> QED BY <2>1, FS_EmptySet DEF ReadersInv
<1>6. ShutInv
  BY <1>1 DEF ShutInv
<1>7. ToldInv
  <2>1. IsPrefix(<<>>, Order)
    <3>1. IsPrefix(<<>>, <<>> \o Order) /\ <<>> \o Order = Order
      BY OrderType, ConcatPrefix, EmptySeq, ConcatEmptySeq
    <3> QED BY <3>1
  <2> QED BY <2>1 DEF ToldInv
<1>8. MadeInv
  BY <1>1 DEF MadeInv, NoClient
<1>9. ServeInv /\ OrphanInv
  BY DEF ServeInv, OrphanInv
<1>10. EndedInv
  BY DEF EndedInv
<1> QED BY <1>2, <1>3, <1>4, <1>5, <1>6, <1>7, <1>8, <1>9, <1>10 DEF IndInv

LEMMA IndInvStep == IndInv /\ [Next]_vars => IndInv'
BY TypeStep, CountStep, ParkedStep, ReadersStep, WriterStep, StopStep, MadeStep, BuildStep,
   AskedStep, ServeStep, OrphanStep, EndedStep DEF IndInv

(* The invariant that carries the theorems below.                            *)
THEOREM Inductive == Spec => []IndInv
<1>1. Init => IndInv
  BY IndInvInit
<1>2. IndInv /\ [Next]_vars => IndInv'
  BY IndInvStep
<1> QED BY <1>1, <1>2, PTL DEF Spec

(* Every variable of the client, its singleton and its lock has its type:    *)
(* there are never more clients than calls, and no more readers than         *)
(* threads.                                                                  *)
THEOREM TypeCorrect == Spec => []TypeOK
<1>1. ASSUME IndInv PROVE TypeOK
  <2>1. TypeInv /\ ReadersInv /\ NoClient \notin unreplaced
    BY <1>1 DEF IndInv, ServeInv
  <2>2. readers \in 0..Cardinality(Threads)
    <3>1. Readers \subseteq Threads
      BY DEF Readers
    <3>2. IsFiniteSet(Threads)
      BY ThreadsAssumption
    <3>3. Cardinality(Readers) \in Nat /\ Cardinality(Readers) <= Cardinality(Threads)
      BY <3>1, <3>2, FS_Subset, FS_CardinalityType
    <3>4. Cardinality(Threads) \in Nat
      BY <3>2, FS_CardinalityType
    <3> QED BY <2>1, <3>3, <3>4 DEF ReadersInv
  <2> QED BY <2>1, <2>2 DEF TypeInv, TypeOK
<1> QED BY <1>1, Inductive, PTL

(* Every part of a client is told to stop once and in order, whatever        *)
(* threads stop it, from wherever, and whatever raises; none is left to tell *)
(* when stop has returned to one who was not inside it.                      *)
THEOREM ThoroughStop == Spec => []StopIsThorough
<1>1. ASSUME IndInv PROVE StopIsThorough
  BY <1>1 DEF IndInv, ToldInv, StopIsThorough
<1> QED BY <1>1, Inductive, PTL

(* get never returns a client that was stopped, but by the application or    *)
(* for a successor whose constructor raised.                                 *)
THEOREM GetServes == Spec => []SingletonServes
<1>1. ASSUME IndInv PROVE SingletonServes
  <2>1. ServeInv /\ WriterInv
    BY <1>1 DEF IndInv
  <2>2. Replacing => writer # NoThread
    BY <2>1, ThreadsAssumption DEF Replacing, WriterInv, Build, Holds
  <2> QED BY <2>1, <2>2 DEF ServeInv, SingletonServes
<1> QED BY <1>1, Inductive, PTL

(* A client that was replaced leaves no thread behind when its stop ends.    *)
THEOREM NothingLeft == Spec => []NoLeftovers
<1>1. ASSUME IndInv PROVE NoLeftovers
  <2>1. TypeInv /\ ToldInv /\ OrphanInv /\ EndedInv
    BY <1>1 DEF IndInv
  <2>2. ASSUME NEW c \in Clients, complete[c], c \notin broken
        PROVE  running[c] = {}
    <3>1. stopped[c] = Order /\ running[c] \subseteq ToSet(Construction)
      BY <2>1, <2>2 DEF ToldInv, TypeInv, ClientTypeOK
    <3>2. \A i \in 1..Len(Order) : running[c] \cap Ends(Order[i]) = {}
      BY <2>1, <2>2, <3>1 DEF EndedInv
    <3>3. /\ Len(Order) = 4
          /\ Order[1] = "update processor" /\ Order[2] = "event processor"
          /\ Order[3] = "notice broadcaster"
      BY DEF Order
    <3>4. /\ running[c] \cap Ends("update processor") = {}
          /\ running[c] \cap Ends("event processor") = {}
          /\ running[c] \cap Ends("notice broadcaster") = {}
      <4>1. \A i \in 1..4 : running[c] \cap Ends(Order[i]) = {}
        BY <3>2, <3>3
      <4>2. 1 \in 1..4 /\ 2 \in 1..4 /\ 3 \in 1..4
        OBVIOUS
      <4> QED BY <3>3, <4>1, <4>2
    <3>5. ToSet(Construction) =
            {"notice broadcaster", "event processor", "ping task", "update processor"}
      <4>1. DOMAIN Construction = 1..4
        BY DEF Construction
      <4>2. /\ Construction[1] = "notice broadcaster" /\ Construction[2] = "event processor"
            /\ Construction[3] = "ping task" /\ Construction[4] = "update processor"
        BY DEF Construction
      <4>3. 1..4 = {1, 2, 3, 4}
        OBVIOUS
      <4> QED BY <4>1, <4>2, <4>3 DEF ToSet
    <3> QED BY <3>1, <3>4, <3>5 DEF Ends
  <2> QED BY <2>1, <2>2 DEF OrphanInv, NoLeftovers
<1> QED BY <1>1, Inductive, PTL

(* The lock excludes: while a thread that called get looks for the client no *)
(* other replaces it, and one thread at a time has the lock for writing, in  *)
(* one of the calls it is in.                                                *)
LockExcludes ==
  /\ \A t \in Threads : Reading(t) => writer = NoThread
  /\ \A t, u \in Threads : \A n \in 1..Len(stack[t]), m \in 1..Len(stack[u]) :
       Holds(Level(stack[t], n)) /\ Holds(Level(stack[u], m)) => t = u /\ n = m

THEOREM LockIsExclusive == Spec => []LockExcludes
<1>1. ASSUME IndInv PROVE LockExcludes
  <2>1. ReadersInv /\ WriterInv
    BY <1>1 DEF IndInv
  <2>2. \A t \in Threads : Reading(t) => writer = NoThread
    BY <2>1 DEF ReadersInv, Readers
  <2>3. ASSUME NEW t \in Threads, NEW u \in Threads,
               NEW n \in 1..Len(stack[t]), NEW m \in 1..Len(stack[u]),
               Holds(Level(stack[t], n)), Holds(Level(stack[u], m))
        PROVE  t = u /\ n = m
    BY <2>1, <2>3 DEF WriterInv
  <2> QED BY <2>2, <2>3 DEF LockExcludes
<1> QED BY <1>1, Inductive, PTL

=============================================================================
