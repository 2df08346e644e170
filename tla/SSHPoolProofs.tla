---------------------------- MODULE SSHPoolProofs ----------------------------
(***************************************************************************)
(* What holds of SSHPool for any number of hosts, calls and connections    *)
(* and any size of the pools: every connection has exactly one owner while *)
(* it is open, none after, and goes to the host it was dialled for - also  *)
(* when Dashboard makes the calls.                                         *)
(***************************************************************************)
EXTENDS Dashboard, SequenceTheorems, FiniteSetTheorems, TLAPS

-----------------------------------------------------------------------------
(* Pools as sequences.                                                     *)

\* Taking the head out of a pool shifts the others down by one.
LEMMA TakeHead ==
    ASSUME NEW pool \in Seq(Conns), pool # <<>>
    PROVE  /\ Head(pool) = pool[1] /\ Head(pool) \in Conns /\ Len(pool) \in Nat /\ Len(pool) > 0
           /\ Tail(pool) \in Seq(Conns) /\ Len(Tail(pool)) = Len(pool) - 1
           /\ \A i \in 1..Len(Tail(pool)) : Tail(pool)[i] = pool[i + 1]
<1>1. Len(pool) \in Nat /\ Len(pool) > 0
    BY EmptySeq, LenProperties
<1>2. pool[1] \in Conns
    BY <1>1, ElementOfSeq
<1>q. QED BY <1>1, <1>2, HeadTailProperties

\* Giving a connection back adds it at the end.
LEMMA PutLast ==
    ASSUME NEW pool \in Seq(Conns), NEW c \in Conns
    PROVE  /\ Append(pool, c) \in Seq(Conns) /\ Len(pool) \in Nat
           /\ Len(Append(pool, c)) = Len(pool) + 1
           /\ Append(pool, c)[Len(pool) + 1] = c
           /\ \A i \in 1..Len(pool) : Append(pool, c)[i] = pool[i]
    BY AppendProperties, LenProperties

-----------------------------------------------------------------------------
(* Types.                                                                  *)

LEMMA InitType == Init => TypeOK
    BY SSHPoolAssumption DEF Init, TypeOK, Conn, Closed, Run, IdleRun, Holding

\* Closing a connection keeps the connections typed.
LEMMA CloseType ==
    ASSUME TypeOK, NEW c \in Conns, Close(c)
    PROVE  conns' \in [Conns -> Conn]
    BY DEF TypeOK, Close, Closed, Conn

\* A call that goes on, forgets its connection or returns stays typed.
LEMMA RunType ==
    ASSUME TypeOK, NEW g \in Runs, runs[g].pc # "idle",
           \/ \E pc \in {"session", "command", "put"} : Goto(g, pc) /\ runs[g].pc \in Holding
           \/ Redial(g)
           \/ Return(g)
    PROVE  /\ runs' \in [Runs -> Run]
           /\ \A k \in Runs : /\ runs'[k].pc # "idle" => runs'[k].host \in Hosts
                              /\ runs'[k].pc \in Holding => runs'[k].conn \in Conns
<1>1. CASE \E pc \in {"session", "command", "put"} : Goto(g, pc) /\ runs[g].pc \in Holding
  <2>1. PICK pc \in {"session", "command", "put"} : runs' = [runs EXCEPT ![g].pc = pc]
      BY <1>1 DEF Goto
  <2>2. runs[g].pc \in Holding /\ runs[g].conn \in Conns /\ runs[g].host \in Hosts
      BY <1>1 DEF TypeOK
  <2>3. runs'[g] = [runs[g] EXCEPT !.pc = pc] /\ runs'[g] \in Run
      BY <2>1 DEF TypeOK, Run
  <2>4. runs'[g].conn = runs[g].conn /\ runs'[g].host = runs[g].host
      BY <2>3 DEF TypeOK, Run
  <2>5. \A k \in Runs \ {g} : runs'[k] = runs[k]
      BY <2>1 DEF TypeOK
  <2>6. runs' \in [Runs -> Run]
      BY <2>1, <2>3 DEF TypeOK
  <2>q. QED BY <2>2, <2>4, <2>5, <2>6 DEF TypeOK
<1>2. CASE Redial(g)
  <2>1. runs[g] \in Run /\ runs[g].host \in Hosts
      BY DEF TypeOK
  <2>2. runs'[g] = [pc |-> "dial", host |-> runs[g].host, conn |-> None]
      BY <1>2, <2>1 DEF TypeOK, Redial, Run
  <2>3. runs'[g] \in Run /\ runs'[g].pc = "dial" /\ runs'[g].host \in Hosts
      BY <2>1, <2>2 DEF Run
  <2>4. \A k \in Runs \ {g} : runs'[k] = runs[k]
      BY <1>2 DEF TypeOK, Redial
  <2>5. runs' \in [Runs -> Run]
      BY <1>2, <2>3 DEF TypeOK, Redial
  <2>q. QED BY <2>3, <2>4, <2>5 DEF TypeOK, Holding
<1>3. CASE Return(g)
  <2>1. runs'[g] = IdleRun /\ \A k \in Runs \ {g} : runs'[k] = runs[k]
      BY <1>3 DEF TypeOK, Return
  <2>2. IdleRun \in Run /\ IdleRun.pc = "idle"
      BY DEF Run, IdleRun
  <2>3. runs' \in [Runs -> Run]
      BY <1>3, <2>2 DEF TypeOK, Return
  <2>q. QED BY <2>1, <2>2, <2>3 DEF TypeOK, Holding
<1>q. QED BY <1>1, <1>2, <1>3

\* A pool that gets shorter by its head, or longer by one while there is
\* room, stays within its capacity.
LEMMA NextType == TypeOK /\ [Next]_vars => TypeOK'
<1> SUFFICES ASSUME TypeOK, [Next]_vars PROVE TypeOK'
    OBVIOUS
<1> USE SSHPoolAssumption
<1>1. ASSUME NEW c \in Conns, Break(c) \/ FallSilent(c) PROVE TypeOK'
  <2>1. conns' \in [Conns -> Conn]
    <3>1. PICK state \in {"broken", "silent"} : conns' = [conns EXCEPT ![c].state = state]
        BY <1>1 DEF Break, FallSilent
    <3>2. conns \in [Conns -> Conn]
        BY DEF TypeOK
    <3>q. QED BY <3>1, <3>2 DEF Conn
  <2>2. UNCHANGED <<pools, runs>>
      BY <1>1 DEF Break, FallSilent
  <2>q. QED BY <2>1, <2>2 DEF TypeOK
<1>2. ASSUME NEW g \in Runs, Start(g) PROVE TypeOK'
  <2>1. PICK h \in Hosts : runs' = [runs EXCEPT ![g].pc = "get", ![g].host = h]
      BY <1>2 DEF Start
  <2>2. /\ runs' \in [Runs -> Run]
        /\ \A k \in Runs : /\ runs'[k].pc # "idle" => runs'[k].host \in Hosts
                           /\ runs'[k].pc \in Holding => runs'[k].conn \in Conns
      BY <2>1 DEF TypeOK, Run, Holding
  <2>q. QED BY <1>2, <2>2 DEF TypeOK, Start
<1>3. ASSUME NEW g \in Runs, TakeIdle(g) PROVE TypeOK'
  <2>1. runs[g].host \in Hosts /\ runs[g].pc = "get"
      BY <1>3 DEF TypeOK, TakeIdle
  <2>2. CASE pools[runs[g].host] # <<>>
    <3>1. /\ runs' = [runs EXCEPT ![g].pc = "probe", ![g].conn = Head(pools[runs[g].host])]
          /\ pools' = [pools EXCEPT ![runs[g].host] = Tail(pools[runs[g].host])]
          /\ conns' = conns
        BY <1>3, <2>2 DEF TakeIdle
    <3>2. /\ Head(pools[runs[g].host]) \in Conns
          /\ Tail(pools[runs[g].host]) \in Seq(Conns)
          /\ Len(pools[runs[g].host]) \in Nat
          /\ Len(Tail(pools[runs[g].host])) = Len(pools[runs[g].host]) - 1
        BY <2>1, <2>2, TakeHead DEF TypeOK
    <3>3. pools' \in [Hosts -> Seq(Conns)] /\ \A h \in Hosts : Len(pools'[h]) <= MaxIdle
        BY <3>1, <3>2, <2>1 DEF TypeOK
    <3>4. /\ runs' \in [Runs -> Run]
          /\ \A k \in Runs : /\ runs'[k].pc # "idle" => runs'[k].host \in Hosts
                             /\ runs'[k].pc \in Holding => runs'[k].conn \in Conns
        BY <3>1, <3>2, <2>1 DEF TypeOK, Run, Holding
    <3>q. QED BY <3>1, <3>3, <3>4 DEF TypeOK
  <2>3. CASE pools[runs[g].host] = <<>>
    <3>1. Redial(g) /\ UNCHANGED <<pools, conns>>
        BY <1>3, <2>3 DEF TakeIdle
    <3>q. QED BY <3>1, <2>1, RunType DEF TypeOK
  <2>q. QED BY <2>2, <2>3
<1>4. ASSUME NEW g \in Runs, ProbeAnswered(g) \/ Handshake(g) \/ OpenSession(g) \/ EndCommand(g)
      PROVE  TypeOK'
  <2>1. /\ \E pc \in {"session", "command", "put"} : Goto(g, pc) /\ runs[g].pc \in Holding
        /\ UNCHANGED <<conns, pools>>
      BY <1>4 DEF ProbeAnswered, Handshake, OpenSession, EndCommand, Holding
  <2>2. runs[g].pc # "idle"
      BY <2>1 DEF Holding
  <2>q. QED BY <2>1, <2>2, RunType DEF TypeOK
<1>5. ASSUME NEW g \in Runs, ProbeFailed(g) \/ HandshakeFailed(g) \/ SessionFailed(g) PROVE TypeOK'
  <2>1. /\ Close(runs[g].conn) /\ (Redial(g) \/ Return(g)) /\ UNCHANGED pools
        /\ runs[g].pc \in Holding /\ runs[g].pc # "idle"
      BY <1>5 DEF ProbeFailed, HandshakeFailed, SessionFailed, Holding
  <2>2. conns' \in [Conns -> Conn]
      BY <2>1, CloseType DEF TypeOK
  <2>q. QED BY <2>1, <2>2, RunType DEF TypeOK
<1>6. ASSUME NEW g \in Runs, Dial(g) PROVE TypeOK'
  <2>1. PICK c \in Conns :
           /\ conns' = [conns EXCEPT ![c] = [state |-> "open", host |-> runs[g].host]]
           /\ runs' = [runs EXCEPT ![g].pc = "handshake", ![g].conn = c]
      BY <1>6 DEF Dial
  <2>2. runs[g].host \in Hosts
      BY <1>6 DEF Dial, TypeOK
  <2>3. conns' \in [Conns -> Conn]
      BY <2>1, <2>2 DEF TypeOK, Conn
  <2>4. /\ runs' \in [Runs -> Run]
        /\ \A k \in Runs : /\ runs'[k].pc # "idle" => runs'[k].host \in Hosts
                           /\ runs'[k].pc \in Holding => runs'[k].conn \in Conns
      BY <2>1, <2>2 DEF TypeOK, Run, Holding
  <2>q. QED BY <1>6, <2>3, <2>4 DEF TypeOK, Dial
<1>7. ASSUME NEW g \in Runs, DialFailed(g) PROVE TypeOK'
    BY <1>7, RunType DEF TypeOK, DialFailed
<1>8. ASSUME NEW g \in Runs, Put(g) PROVE TypeOK'
  <2>1. runs[g].host \in Hosts /\ runs[g].conn \in Conns /\ Return(g) /\ runs[g].pc # "idle"
      BY <1>8 DEF TypeOK, Put, Holding
  <2>2. /\ runs' \in [Runs -> Run]
        /\ \A k \in Runs : /\ runs'[k].pc # "idle" => runs'[k].host \in Hosts
                           /\ runs'[k].pc \in Holding => runs'[k].conn \in Conns
      BY <2>1, RunType
  <2>3. CASE Len(pools[runs[g].host]) < MaxIdle
    <3>1. pools' = [pools EXCEPT ![runs[g].host] = Append(pools[runs[g].host], runs[g].conn)] /\ conns' = conns
        BY <1>8, <2>3 DEF Put
    <3>2. /\ Append(pools[runs[g].host], runs[g].conn) \in Seq(Conns)
          /\ Len(pools[runs[g].host]) \in Nat
          /\ Len(Append(pools[runs[g].host], runs[g].conn)) = Len(pools[runs[g].host]) + 1
        BY <2>1, PutLast DEF TypeOK
    <3>3. pools' \in [Hosts -> Seq(Conns)] /\ \A h \in Hosts : Len(pools'[h]) <= MaxIdle
        BY <3>1, <3>2, <2>1, <2>3 DEF TypeOK
    <3>q. QED BY <3>1, <3>3, <2>2 DEF TypeOK
  <2>4. CASE ~(Len(pools[runs[g].host]) < MaxIdle)
    <3>1. Close(runs[g].conn) /\ pools' = pools
        BY <1>8, <2>4 DEF Put
    <3>q. QED BY <3>1, <2>1, <2>2, CloseType DEF TypeOK
  <2>q. QED BY <2>3, <2>4
<1>9. CASE UNCHANGED vars
    BY <1>9 DEF TypeOK, vars
<1>q. QED BY <1>1, <1>2, <1>3, <1>4, <1>5, <1>6, <1>7, <1>8, <1>9 DEF Next, RunStep

\* Every variable keeps its type and every channel its capacity, however
\* many calls share the pools.
THEOREM TypeCorrect == Spec => []TypeOK
<1>1. Init => TypeOK
    BY InitType
<1>2. TypeOK /\ [Next]_vars => TypeOK'
    BY NextType
<1>q. QED BY <1>1, <1>2, PTL DEF Spec

-----------------------------------------------------------------------------
(* Ownership.  The three properties are proved together: that a connection *)
(* a call holds is in no pool is what keeps it from being taken while it   *)
(* is closed, and that closed connections have no owner is what lets Dial  *)
(* use one.                                                                *)

OwnInv == TypeOK /\ OneHolder /\ ClosedIffUnowned /\ RightHost

LEMMA InitOwn == Init => OneHolder /\ ClosedIffUnowned /\ RightHost
    BY DEF Init, OneHolder, ClosedIffUnowned, RightHost, Holds, Idle, Holding, IdleRun, Closed

\* A step that leaves pools and owners alone, and closes and opens nothing.
LEMMA Quiet ==
    ASSUME OwnInv, pools' = pools,
           \A k \in Runs, c \in Conns :
              Holds(k, c)' <=> Holds(k, c) /\ runs'[k].host = runs[k].host,
           \A k \in Runs, c \in Conns : Holds(k, c) => Holds(k, c)',
           \A c \in Conns : /\ conns'[c].host = conns[c].host
                            /\ conns'[c].state = "closed" <=> conns[c].state = "closed"
    PROVE  OneHolder' /\ ClosedIffUnowned' /\ RightHost'
<1>1. \A c \in Conns : Idle(c)' <=> Idle(c)
    BY DEF Idle
<1>2. OneHolder'
    BY <1>1 DEF OwnInv, OneHolder
<1>3. ClosedIffUnowned'
    BY <1>1 DEF OwnInv, ClosedIffUnowned
<1>4. \A h \in Hosts : \A i \in 1..Len(pools[h]) : pools[h][i] \in Conns
    BY ElementOfSeq DEF OwnInv, TypeOK
<1>5. RightHost'
    BY <1>4 DEF OwnInv, RightHost
<1>q. QED BY <1>2, <1>3, <1>5

\* The call g closes the connection it holds and holds none afterwards.
LEMMA Dropped ==
    ASSUME OwnInv, NEW g \in Runs, NEW d \in Conns, Holds(g, d), Close(d), pools' = pools,
           \A k \in Runs \ {g} : runs'[k] = runs[k],
           \A c \in Conns : ~Holds(g, c)'
    PROVE  OneHolder' /\ ClosedIffUnowned' /\ RightHost'
<1>1. \A c \in Conns : Idle(c)' <=> Idle(c)
    BY DEF Idle
<1>2. \A k \in Runs, c \in Conns : Holds(k, c)' <=> k # g /\ Holds(k, c)
    BY DEF Holds
<1>3. /\ conns'[d].state = "closed"
      /\ \A c \in Conns \ {d} : conns'[c] = conns[c]
    BY DEF OwnInv, TypeOK, Close, Closed
<1>4. ~Idle(d) /\ \A k \in Runs : Holds(k, d) => k = g
    BY DEF OwnInv, OneHolder
<1>5. OneHolder'
    BY <1>1, <1>2 DEF OwnInv, OneHolder
<1>6. ClosedIffUnowned'
  <2>1. ASSUME NEW c \in Conns
        PROVE  conns'[c].state = "closed" <=> ~Idle(c)' /\ \A k \in Runs : ~Holds(k, c)'
    <3>1. CASE c = d
        BY <3>1, <1>1, <1>2, <1>3, <1>4
    <3>2. CASE c # d
      <4>1. ~Holds(g, c)
          BY <3>2 DEF Holds
      <4>q. QED BY <3>2, <4>1, <1>1, <1>2, <1>3 DEF OwnInv, ClosedIffUnowned
    <3>q. QED BY <3>1, <3>2
  <2>q. QED BY <2>1 DEF ClosedIffUnowned
<1>7. \A h \in Hosts : \A i \in 1..Len(pools[h]) : pools[h][i] \in Conns \ {d}
    BY <1>4, ElementOfSeq DEF OwnInv, TypeOK, Idle
<1>8. RightHost'
  <2>1. \A k \in Runs, c \in Conns : Holds(k, c)' => conns'[c].host = runs'[k].host
      BY <1>2, <1>3, <1>4 DEF OwnInv, RightHost
  <2>2. \A h \in Hosts : \A i \in 1..Len(pools'[h]) : conns'[pools'[h][i]].host = h
      BY <1>3, <1>7 DEF OwnInv, RightHost
  <2>q. QED BY <2>1, <2>2 DEF RightHost
<1>q. QED BY <1>5, <1>6, <1>8

\* A connection that nobody owned is dialled for g.
LEMMA Dialled ==
    ASSUME OwnInv, NEW g \in Runs, Dial(g)
    PROVE  OneHolder' /\ ClosedIffUnowned' /\ RightHost'
<1>1. PICK d \in Conns :
         /\ conns[d].state = "closed"
         /\ conns' = [conns EXCEPT ![d] = [state |-> "open", host |-> runs[g].host]]
         /\ runs' = [runs EXCEPT ![g].pc = "handshake", ![g].conn = d]
    BY DEF Dial
<1>2. pools' = pools /\ runs[g].pc = "dial"
    BY DEF Dial
<1>3. \A c \in Conns : Idle(c)' <=> Idle(c)
    BY <1>2 DEF Idle
<1>4. /\ runs'[g].pc = "handshake" /\ runs'[g].conn = d /\ runs'[g].host = runs[g].host
      /\ \A k \in Runs \ {g} : runs'[k] = runs[k]
    BY <1>1 DEF OwnInv, TypeOK, Run
<1>5. \A k \in Runs, c \in Conns :
         Holds(k, c)' <=> (k = g /\ c = d) \/ (k # g /\ Holds(k, c))
    BY <1>4 DEF Holds, Holding
<1>6. ~Idle(d) /\ \A k \in Runs : ~Holds(k, d)
    BY <1>1 DEF OwnInv, ClosedIffUnowned
<1>7. \A c \in Conns : ~Holds(g, c)
    BY <1>2 DEF Holds, Holding
<1>8. /\ conns'[d].state = "open" /\ conns'[d].host = runs[g].host
      /\ \A c \in Conns \ {d} : conns'[c] = conns[c]
    BY <1>1 DEF OwnInv, TypeOK
<1>9. OneHolder'
    BY <1>2, <1>3, <1>5, <1>6 DEF OwnInv, OneHolder
<1>10. ClosedIffUnowned'
    BY <1>3, <1>5, <1>7, <1>8 DEF OwnInv, ClosedIffUnowned
<1>11. \A h \in Hosts : \A i \in 1..Len(pools[h]) : pools[h][i] \in Conns \ {d}
    BY <1>6, ElementOfSeq DEF OwnInv, TypeOK, Idle
<1>12. RightHost'
  <2>1. \A k \in Runs, c \in Conns : Holds(k, c)' => conns'[c].host = runs'[k].host
      BY <1>4, <1>5, <1>6, <1>8 DEF OwnInv, RightHost
  <2>2. \A h \in Hosts : \A i \in 1..Len(pools'[h]) : conns'[pools'[h][i]].host = h
      BY <1>2, <1>8, <1>11 DEF OwnInv, RightHost
  <2>q. QED BY <2>1, <2>2 DEF RightHost
<1>q. QED BY <1>9, <1>10, <1>12

\* The head of the host's pool passes from the pool to the call.
LEMMA Taken ==
    ASSUME OwnInv, NEW g \in Runs, TakeIdle(g), pools[runs[g].host] # <<>>
    PROVE  OneHolder' /\ ClosedIffUnowned' /\ RightHost'
<1> DEFINE host == runs[g].host
           d == Head(pools[host])
<1>1. host \in Hosts /\ runs[g].pc = "get"
    BY DEF OwnInv, TypeOK, TakeIdle
<1>2. /\ runs' = [runs EXCEPT ![g].pc = "probe", ![g].conn = d]
      /\ pools' = [pools EXCEPT ![host] = Tail(pools[host])]
      /\ conns' = conns
    BY DEF TakeIdle
<1>3. /\ d = pools[host][1] /\ d \in Conns /\ Len(pools[host]) \in Nat /\ Len(pools[host]) > 0
      /\ Len(Tail(pools[host])) = Len(pools[host]) - 1
      /\ \A i \in 1..Len(Tail(pools[host])) : Tail(pools[host])[i] = pools[host][i + 1]
    BY <1>1, TakeHead DEF OwnInv, TypeOK
<1>4. /\ Len(pools'[host]) = Len(pools[host]) - 1
      /\ \A i \in 1..Len(pools'[host]) : i + 1 \in 2..Len(pools[host]) /\ pools'[host][i] = pools[host][i + 1]
      /\ \A h \in Hosts \ {host} : pools'[h] = pools[h]
    BY <1>1, <1>2, <1>3 DEF OwnInv, TypeOK
<1>5. /\ runs'[g].pc = "probe" /\ runs'[g].conn = d /\ runs'[g].host = host
      /\ \A k \in Runs \ {g} : runs'[k] = runs[k]
    BY <1>2 DEF OwnInv, TypeOK, Run
<1>6. \A k \in Runs, c \in Conns :
         Holds(k, c)' <=> (k = g /\ c = d) \/ (k # g /\ Holds(k, c))
    BY <1>5 DEF Holds, Holding
<1>7. \A c \in Conns : ~Holds(g, c)
    BY <1>1 DEF Holds, Holding
<1>8. /\ Idle(d) /\ \A k \in Runs : ~Holds(k, d)
      /\ \A h \in Hosts : \A i \in 1..Len(pools[h]) : pools[h][i] = d => h = host /\ i = 1
  <2>1. 1 \in 1..Len(pools[host])
      BY <1>3
  <2>2. Idle(d)
      BY <1>1, <1>3, <2>1 DEF Idle
  <2>q. QED BY <1>1, <1>3, <2>1, <2>2 DEF OwnInv, OneHolder
<1>9. \A c \in Conns : Idle(c)' <=> Idle(c) /\ c # d
  <2>1. ASSUME NEW c \in Conns, Idle(c)' PROVE Idle(c) /\ c # d
    <3>1. PICK h \in Hosts : \E i \in 1..Len(pools'[h]) : pools'[h][i] = c
        BY <2>1 DEF Idle
    <3>2. CASE h = host
      <4>1. PICK i \in 1..Len(pools'[host]) : pools'[host][i] = c
          BY <3>1, <3>2
      <4>2. i + 1 \in 1..Len(pools[host]) /\ i + 1 # 1 /\ pools[host][i + 1] = c
          BY <4>1, <1>3, <1>4
      <4>q. QED BY <4>2, <1>1, <1>8 DEF Idle
    <3>3. CASE h # host
      <4>1. pools'[h] = pools[h]
          BY <3>3, <1>4
      <4>q. QED BY <3>1, <3>3, <4>1, <1>8 DEF Idle
    <3>q. QED BY <3>2, <3>3
  <2>2. ASSUME NEW c \in Conns, Idle(c), c # d PROVE Idle(c)'
    <3>1. PICK h \in Hosts : \E i \in 1..Len(pools[h]) : pools[h][i] = c
        BY <2>2 DEF Idle
    <3>2. CASE h = host
      <4>0. PICK i \in 1..Len(pools[host]) : pools[host][i] = c
          BY <3>1, <3>2
      <4>1. i # 1 /\ i - 1 \in 1..Len(pools'[host]) /\ (i - 1) + 1 = i
          BY <4>0, <2>2, <1>3, <1>4
      <4>2. pools'[host][i - 1] = c
          BY <4>0, <4>1, <1>4
      <4>q. QED BY <4>1, <4>2, <1>1 DEF Idle
    <3>3. CASE h # host
      <4>1. pools'[h] = pools[h]
          BY <3>3, <1>4
      <4>q. QED BY <3>1, <4>1 DEF Idle
    <3>q. QED BY <3>2, <3>3
  <2>q. QED BY <2>1, <2>2
<1>10. OneHolder'
  <2>1. \A c \in Conns, k1, k2 \in Runs : Holds(k1, c)' /\ Holds(k2, c)' => k1 = k2
      BY <1>6, <1>8 DEF OwnInv, OneHolder
  <2>2. \A k \in Runs, c \in Conns : Holds(k, c)' => ~Idle(c)'
      BY <1>6, <1>9 DEF OwnInv, OneHolder
  <2>3. ASSUME NEW h1 \in Hosts, NEW h2 \in Hosts, NEW i \in 1..Len(pools'[h1]),
               NEW j \in 1..Len(pools'[h2]), pools'[h1][i] = pools'[h2][j]
        PROVE  h1 = h2 /\ i = j
    <3>1. CASE h1 = host /\ h2 = host
      <4>1. /\ i + 1 \in 1..Len(pools[host]) /\ j + 1 \in 1..Len(pools[host])
            /\ pools[host][i + 1] = pools[host][j + 1] /\ i \in Int /\ j \in Int
          BY <2>3, <3>1, <1>3, <1>4
      <4>2. i + 1 = j + 1
          BY <4>1, <1>1 DEF OwnInv, OneHolder
      <4>q. QED BY <3>1, <4>1, <4>2
    <3>2. CASE h1 = host /\ h2 # host
      <4>1. i + 1 \in 1..Len(pools[host]) /\ pools'[h2] = pools[h2] /\ pools[host][i + 1] = pools[h2][j]
          BY <2>3, <3>2, <1>3, <1>4
      <4>q. QED BY <3>2, <4>1, <1>1 DEF OwnInv, OneHolder
    <3>3. CASE h1 # host /\ h2 = host
      <4>1. j + 1 \in 1..Len(pools[host]) /\ pools'[h1] = pools[h1] /\ pools[host][j + 1] = pools[h1][i]
          BY <2>3, <3>3, <1>3, <1>4
      <4>q. QED BY <3>3, <4>1, <1>1 DEF OwnInv, OneHolder
    <3>4. CASE h1 # host /\ h2 # host
      <4>1. pools'[h1] = pools[h1] /\ pools'[h2] = pools[h2]
          BY <3>4, <1>4
      <4>q. QED BY <2>3, <4>1 DEF OwnInv, OneHolder
    <3>q. QED BY <3>1, <3>2, <3>3, <3>4
  <2>q. QED BY <2>1, <2>2, <2>3 DEF OneHolder
<1>11. ClosedIffUnowned'
  <2>1. ASSUME NEW c \in Conns
        PROVE  conns[c].state = "closed" <=> ~Idle(c)' /\ \A k \in Runs : ~Holds(k, c)'
      BY <1>6, <1>7, <1>8, <1>9 DEF OwnInv, ClosedIffUnowned
  <2>q. QED BY <2>1, <1>2 DEF ClosedIffUnowned
<1>12. RightHost'
  <2>1. conns[d].host = host
      BY <1>1, <1>3 DEF OwnInv, RightHost
  <2>2. \A k \in Runs, c \in Conns : Holds(k, c)' => conns[c].host = runs'[k].host
      BY <2>1, <1>5, <1>6 DEF OwnInv, RightHost
  <2>3. ASSUME NEW h \in Hosts, NEW i \in 1..Len(pools'[h]) PROVE conns[pools'[h][i]].host = h
    <3>1. CASE h = host
      <4>1. i + 1 \in 1..Len(pools[host]) /\ pools'[host][i] = pools[host][i + 1]
          BY <3>1, <1>3, <1>4
      <4>q. QED BY <3>1, <4>1, <1>1 DEF OwnInv, RightHost
    <3>2. CASE h # host
      <4>1. pools'[h] = pools[h]
          BY <3>2, <1>4
      <4>q. QED BY <4>1 DEF OwnInv, RightHost
    <3>q. QED BY <3>1, <3>2
  <2>q. QED BY <2>2, <2>3, <1>2 DEF RightHost
<1>q. QED BY <1>10, <1>11, <1>12

\* The call gives its connection back: it goes from the call to the end of
\* the host's pool.
LEMMA Given ==
    ASSUME OwnInv, NEW g \in Runs, Put(g), Len(pools[runs[g].host]) < MaxIdle
    PROVE  OneHolder' /\ ClosedIffUnowned' /\ RightHost'
<1> DEFINE host == runs[g].host
           d == runs[g].conn
           last == Len(pools[host]) + 1
<1>1. host \in Hosts /\ d \in Conns /\ runs[g].pc = "put" /\ Holds(g, d)
    BY DEF OwnInv, TypeOK, Put, Holding, Holds
<1>2. /\ runs' = [runs EXCEPT ![g] = IdleRun]
      /\ pools' = [pools EXCEPT ![host] = Append(pools[host], d)]
      /\ conns' = conns
    BY DEF Put, Return
<1>3. /\ Len(pools[host]) \in Nat
      /\ Len(Append(pools[host], d)) = last /\ Append(pools[host], d)[last] = d
      /\ \A i \in 1..Len(pools[host]) : Append(pools[host], d)[i] = pools[host][i]
    BY <1>1, PutLast DEF OwnInv, TypeOK
<1>4. /\ Len(pools'[host]) = last /\ pools'[host][last] = d
      /\ \A i \in 1..Len(pools[host]) : i \in 1..last /\ pools'[host][i] = pools[host][i]
      /\ \A i \in 1..last : i = last \/ i \in 1..Len(pools[host])
      /\ \A h \in Hosts \ {host} : pools'[h] = pools[h]
  <2>1. pools'[host] = Append(pools[host], d) /\ \A h \in Hosts \ {host} : pools'[h] = pools[h]
      BY <1>1, <1>2 DEF OwnInv, TypeOK
  <2>2. \A i \in 1..Len(pools[host]) : i \in 1..last
      BY <1>3
  <2>3. \A i \in 1..last : i = last \/ i \in 1..Len(pools[host])
      BY <1>3
  <2>q. QED BY <2>1, <2>2, <2>3, <1>3
<1>5. /\ runs'[g].pc = "idle"
      /\ \A k \in Runs \ {g} : runs'[k] = runs[k]
    BY <1>2 DEF OwnInv, TypeOK, IdleRun
<1>6. \A k \in Runs, c \in Conns : Holds(k, c)' <=> k # g /\ Holds(k, c)
    BY <1>5 DEF Holds, Holding
<1>7. \A c \in Conns : Holds(g, c) => c = d
    BY DEF Holds
<1>8. /\ ~Idle(d) /\ \A k \in Runs : Holds(k, d) => k = g
      /\ \A h \in Hosts : \A i \in 1..Len(pools[h]) : pools[h][i] # d
    BY <1>1 DEF OwnInv, OneHolder, Idle
<1>9. \A c \in Conns : Idle(c)' <=> Idle(c) \/ c = d
  <2>1. ASSUME NEW c \in Conns, Idle(c)', c # d PROVE Idle(c)
    <3>1. PICK h \in Hosts : \E i \in 1..Len(pools'[h]) : pools'[h][i] = c
        BY <2>1 DEF Idle
    <3>2. CASE h = host
        BY <3>1, <3>2, <2>1, <1>1, <1>4 DEF Idle
    <3>3. CASE h # host
        BY <3>1, <3>3, <1>4 DEF Idle
    <3>q. QED BY <3>2, <3>3
  <2>2. ASSUME NEW c \in Conns, Idle(c) PROVE Idle(c)'
    <3>1. PICK h \in Hosts : \E i \in 1..Len(pools[h]) : pools[h][i] = c
        BY <2>2 DEF Idle
    <3>2. CASE h = host
        BY <3>1, <3>2, <1>1, <1>4 DEF Idle
    <3>3. CASE h # host
        BY <3>1, <3>3, <1>4 DEF Idle
    <3>q. QED BY <3>2, <3>3
  <2>3. ASSUME NEW c \in Conns, c = d PROVE Idle(c)'
    <3>1. last \in 1..Len(pools'[host]) /\ pools'[host][last] = c
        BY <1>3, <1>4, <2>3
    <3>q. QED BY <3>1, <1>1 DEF Idle
  <2>q. QED BY <2>1, <2>2, <2>3
<1>10. OneHolder'
  <2>1. \A c \in Conns, k1, k2 \in Runs : Holds(k1, c)' /\ Holds(k2, c)' => k1 = k2
      BY <1>6 DEF OwnInv, OneHolder
  <2>2. \A k \in Runs, c \in Conns : Holds(k, c)' => ~Idle(c)'
      BY <1>6, <1>8, <1>9 DEF OwnInv, OneHolder
  <2>3. ASSUME NEW h1 \in Hosts, NEW h2 \in Hosts, NEW i \in 1..Len(pools'[h1]),
               NEW j \in 1..Len(pools'[h2]), pools'[h1][i] = pools'[h2][j]
        PROVE  h1 = h2 /\ i = j
    <3>1. \A h \in Hosts : \A k \in 1..Len(pools'[h]) :
             IF h = host /\ k = last
             THEN pools'[h][k] = d
             ELSE k \in 1..Len(pools[h]) /\ pools'[h][k] = pools[h][k] /\ pools[h][k] # d
        BY <1>4, <1>8
    <3>2. CASE h1 = host /\ i = last
        BY <2>3, <3>1, <3>2
    <3>3. CASE h2 = host /\ j = last
        BY <2>3, <3>1, <3>3
    <3>4. CASE ~(h1 = host /\ i = last) /\ ~(h2 = host /\ j = last)
        BY <2>3, <3>1, <3>4 DEF OwnInv, OneHolder
    <3>q. QED BY <3>2, <3>3, <3>4
  <2>q. QED BY <2>1, <2>2, <2>3 DEF OneHolder
<1>11. ClosedIffUnowned'
  <2>1. ASSUME NEW c \in Conns
        PROVE  conns[c].state = "closed" <=> ~Idle(c)' /\ \A k \in Runs : ~Holds(k, c)'
      BY <1>1, <1>6, <1>7, <1>9 DEF OwnInv, ClosedIffUnowned
  <2>q. QED BY <2>1, <1>2 DEF ClosedIffUnowned
<1>12. RightHost'
  <2>1. conns[d].host = host
      BY <1>1 DEF OwnInv, RightHost
  <2>2. \A k \in Runs, c \in Conns : Holds(k, c)' => conns[c].host = runs'[k].host
      BY <1>5, <1>6 DEF OwnInv, RightHost
  <2>3. ASSUME NEW h \in Hosts, NEW i \in 1..Len(pools'[h]) PROVE conns[pools'[h][i]].host = h
    <3>1. CASE h = host
      <4>1. CASE i = last
          BY <2>1, <3>1, <4>1, <1>4
      <4>2. CASE i # last
        <5>1. i \in 1..Len(pools[host]) /\ pools'[host][i] = pools[host][i]
            BY <3>1, <4>2, <1>4
        <5>q. QED BY <3>1, <5>1, <1>1 DEF OwnInv, RightHost
      <4>q. QED BY <4>1, <4>2
    <3>2. CASE h # host
      <4>1. pools'[h] = pools[h]
          BY <3>2, <1>4
      <4>q. QED BY <4>1 DEF OwnInv, RightHost
    <3>q. QED BY <3>1, <3>2
  <2>q. QED BY <2>2, <2>3, <1>2 DEF RightHost
<1>q. QED BY <1>10, <1>11, <1>12

\* Every step keeps the ownership.
LEMMA NextOwn == OwnInv /\ [Next]_vars => OneHolder' /\ ClosedIffUnowned' /\ RightHost'
<1> SUFFICES ASSUME OwnInv, [Next]_vars PROVE OneHolder' /\ ClosedIffUnowned' /\ RightHost'
    OBVIOUS
<1>1. ASSUME NEW c \in Conns, Break(c) \/ FallSilent(c)
      PROVE  OneHolder' /\ ClosedIffUnowned' /\ RightHost'
  <2>1. \E state \in {"broken", "silent"} : conns' = [conns EXCEPT ![c].state = state]
      BY <1>1 DEF Break, FallSilent
  <2>2. conns[c].state # "closed" /\ pools' = pools /\ runs' = runs
      BY <1>1 DEF Break, FallSilent
  <2>3. \A b \in Conns : /\ conns'[b].host = conns[b].host
                         /\ conns'[b].state = "closed" <=> conns[b].state = "closed"
      BY <2>1, <2>2 DEF OwnInv, TypeOK, Conn
  <2>q. QED BY <2>2, <2>3, Quiet DEF Holds
<1>2. ASSUME NEW g \in Runs, Start(g) \/ DialFailed(g)
      PROVE  OneHolder' /\ ClosedIffUnowned' /\ RightHost'
  <2>1. /\ \E new \in {"get", "idle"} : runs'[g].pc = new
        /\ runs[g].pc \in {"idle", "dial"} /\ \A k \in Runs \ {g} : runs'[k] = runs[k]
      BY <1>2 DEF Start, DialFailed, Return, IdleRun, OwnInv, TypeOK, Run
  <2>2. \A c \in Conns : ~Holds(g, c) /\ ~Holds(g, c)'
      BY <2>1 DEF Holds, Holding
  <2>3. \A k \in Runs \ {g}, c \in Conns : Holds(k, c)' <=> Holds(k, c)
      BY <2>1 DEF Holds
  <2>q. QED BY <1>2, <2>1, <2>2, <2>3, Quiet DEF Start, DialFailed
<1>3. ASSUME NEW g \in Runs, TakeIdle(g) PROVE OneHolder' /\ ClosedIffUnowned' /\ RightHost'
  <2>1. CASE pools[runs[g].host] # <<>>
      BY <1>3, <2>1, Taken
  <2>2. CASE pools[runs[g].host] = <<>>
    <3>1. Redial(g) /\ UNCHANGED <<pools, conns>> /\ runs[g].pc = "get"
        BY <1>3, <2>2 DEF TakeIdle
    <3>2. runs'[g].pc = "dial" /\ \A k \in Runs \ {g} : runs'[k] = runs[k]
        BY <3>1 DEF Redial, OwnInv, TypeOK, Run
    <3>3. \A c \in Conns : ~Holds(g, c) /\ ~Holds(g, c)'
        BY <3>1, <3>2 DEF Holds, Holding
    <3>4. \A k \in Runs \ {g}, c \in Conns : Holds(k, c)' <=> Holds(k, c)
        BY <3>2 DEF Holds
    <3>q. QED BY <3>1, <3>2, <3>3, <3>4, Quiet
  <2>q. QED BY <2>1, <2>2
<1>4. ASSUME NEW g \in Runs, ProbeAnswered(g) \/ Handshake(g) \/ OpenSession(g) \/ EndCommand(g)
      PROVE  OneHolder' /\ ClosedIffUnowned' /\ RightHost'
  <2>1. /\ \E pc \in {"session", "command", "put"} : Goto(g, pc)
        /\ runs[g].pc \in Holding /\ UNCHANGED <<conns, pools>>
      BY <1>4 DEF ProbeAnswered, Handshake, OpenSession, EndCommand, Holding
  <2>2. /\ runs'[g].pc \in Holding /\ runs'[g].conn = runs[g].conn /\ runs'[g].host = runs[g].host
        /\ \A k \in Runs \ {g} : runs'[k] = runs[k]
      BY <2>1 DEF Goto, OwnInv, TypeOK, Run, Holding
  <2>3. \A k \in Runs, c \in Conns : Holds(k, c)' <=> Holds(k, c)
      BY <2>1, <2>2 DEF Holds
  <2>q. QED BY <2>1, <2>2, <2>3, Quiet
<1>5. ASSUME NEW g \in Runs, ProbeFailed(g) \/ HandshakeFailed(g) \/ SessionFailed(g)
      PROVE  OneHolder' /\ ClosedIffUnowned' /\ RightHost'
  <2>1. /\ Close(runs[g].conn) /\ (Redial(g) \/ Return(g)) /\ UNCHANGED pools
        /\ runs[g].pc \in Holding
      BY <1>5 DEF ProbeFailed, HandshakeFailed, SessionFailed, Holding
  <2>2. runs[g].conn \in Conns /\ Holds(g, runs[g].conn)
      BY <2>1 DEF OwnInv, TypeOK, Holds
  <2>3. runs'[g].pc \in {"dial", "idle"} /\ \A k \in Runs \ {g} : runs'[k] = runs[k]
      BY <2>1 DEF Redial, Return, IdleRun, OwnInv, TypeOK, Run
  <2>q. QED BY <2>1, <2>2, <2>3, Dropped DEF Holds, Holding
<1>6. ASSUME NEW g \in Runs, Dial(g) PROVE OneHolder' /\ ClosedIffUnowned' /\ RightHost'
    BY <1>6, Dialled
<1>7. ASSUME NEW g \in Runs, Put(g) PROVE OneHolder' /\ ClosedIffUnowned' /\ RightHost'
  <2>1. CASE Len(pools[runs[g].host]) < MaxIdle
      BY <1>7, <2>1, Given
  <2>2. CASE ~(Len(pools[runs[g].host]) < MaxIdle)
    <3>1. Close(runs[g].conn) /\ Return(g) /\ UNCHANGED pools /\ runs[g].pc \in Holding
        BY <1>7, <2>2 DEF Put, Holding
    <3>2. runs[g].conn \in Conns /\ Holds(g, runs[g].conn)
        BY <3>1 DEF OwnInv, TypeOK, Holds
    <3>3. runs'[g].pc = "idle" /\ \A k \in Runs \ {g} : runs'[k] = runs[k]
        BY <3>1 DEF Return, IdleRun, OwnInv, TypeOK
    <3>q. QED BY <3>1, <3>2, <3>3, Dropped DEF Holds, Holding
  <2>q. QED BY <2>1, <2>2
<1>8. CASE UNCHANGED vars
    BY <1>8, Quiet DEF vars, Holds
<1>q. QED BY <1>1, <1>2, <1>3, <1>4, <1>5, <1>6, <1>7, <1>8 DEF Next, RunStep

LEMMA OwnedAlways == Spec => []OwnInv
<1>1. Init => OwnInv
    BY InitType, InitOwn DEF OwnInv
<1>2. OwnInv /\ [Next]_vars => OwnInv'
    BY NextType, NextOwn DEF OwnInv
<1>q. QED BY <1>1, <1>2, PTL DEF Spec

\* No two calls ever work on one connection, and none works on a connection
\* that the pool could hand to another.
THEOREM OneOwner == Spec => []OneHolder
<1>1. OwnInv => OneHolder
    BY DEF OwnInv
<1>q. QED BY <1>1, OwnedAlways, PTL

\* No connection leaks and none is used after it was closed.
THEOREM NoLeak == Spec => []ClosedIffUnowned
<1>1. OwnInv => ClosedIffUnowned
    BY DEF OwnInv
<1>q. QED BY <1>1, OwnedAlways, PTL

\* Whatever the history of a connection, the command runs on the host it was
\* meant for.
THEOREM CommandsReachTheirHost == Spec => []RightHost
<1>1. OwnInv => RightHost
    BY DEF OwnInv
<1>q. QED BY <1>1, OwnedAlways, PTL

-----------------------------------------------------------------------------
(* Every connection open to a host is in the hands of one of the host's    *)
(* calls or in one of its channel's places, so there are no more of them   *)
(* than calls and places.                                                  *)

LEMMA OwnersCount ==
    ASSUME OwnInv, NEW h \in Hosts
    PROVE  Cardinality(OpenTo(h)) <=
               MaxIdle + Cardinality({g \in Runs : runs[g].host = h /\ runs[g].pc \in Holding})
<1> DEFINE G == {g \in Runs : runs[g].host = h /\ runs[g].pc \in Holding}
           P == 1..Len(pools[h])
           Held == {runs[g].conn : g \in G}
           InPool == {pools[h][i] : i \in P}
           hand == [g \in G |-> runs[g].conn]
           place == [i \in P |-> pools[h][i]]
<1>1. pools[h] \in Seq(Conns) /\ Len(pools[h]) \in Nat /\ Len(pools[h]) <= MaxIdle /\ MaxIdle \in Nat
    BY SSHPoolAssumption, LenProperties DEF OwnInv, TypeOK
<1>2. IsFiniteSet(G) /\ Cardinality(G) \in Nat
    BY SSHPoolAssumption, FS_Subset, FS_CardinalityType
<1>3. IsFiniteSet(P) /\ Cardinality(P) = Len(pools[h])
  <2>1. PICK n \in Nat : n = Len(pools[h])
      BY <1>1
  <2>2. IsFiniteSet(1..n) /\ Cardinality(1..n) = IF 1 > n THEN 0 ELSE n - 1 + 1
      BY FS_Interval
  <2>3. Cardinality(1..n) = n
      BY <2>2
  <2>q. QED BY <2>1, <2>2, <2>3
<1>4. IsFiniteSet(Held) /\ Cardinality(Held) <= Cardinality(G) /\ Cardinality(Held) \in Nat
    <2>1. hand \in Surjection(G, Held)
        BY DEF Surjection
    <2>q. QED BY <1>2, <2>1, FS_Surjection, FS_CardinalityType
<1>5. IsFiniteSet(InPool) /\ Cardinality(InPool) <= Cardinality(P) /\ Cardinality(InPool) \in Nat
    <2>1. place \in Surjection(P, InPool)
        BY DEF Surjection
    <2>q. QED BY <1>3, <2>1, FS_Surjection, FS_CardinalityType
<1>6. OpenTo(h) \subseteq Held \cup InPool
  <2> SUFFICES ASSUME NEW c \in Conns, conns[c].state # "closed", conns[c].host = h
               PROVE  c \in Held \cup InPool
      BY DEF OpenTo
  <2>1. Idle(c) \/ \E g \in Runs : Holds(g, c)
      BY DEF OwnInv, ClosedIffUnowned
  <2>2. ASSUME NEW g \in Runs, Holds(g, c) PROVE c \in Held
    <3>1. runs[g].host = h
        BY <2>2 DEF OwnInv, RightHost
    <3>q. QED BY <2>2, <3>1 DEF Holds
  <2>3. ASSUME NEW k \in Hosts, NEW i \in 1..Len(pools[k]), pools[k][i] = c PROVE c \in InPool
    <3>1. k = h
        BY <2>3 DEF OwnInv, RightHost
    <3>q. QED BY <2>3, <3>1
  <2>q. QED BY <2>1, <2>2, <2>3 DEF Idle
<1>7. /\ IsFiniteSet(Held \cup InPool)
      /\ Cardinality(Held \cup InPool) <= Cardinality(Held) + Cardinality(InPool)
      /\ Cardinality(Held \cup InPool) \in Nat
  <2>1. IsFiniteSet(Held \cap InPool)
      BY <1>4, FS_Subset
  <2>2. Cardinality(Held \cap InPool) \in Nat
      BY <2>1, FS_CardinalityType
  <2>3. /\ IsFiniteSet(Held \cup InPool)
        /\ Cardinality(Held \cup InPool)
             = Cardinality(Held) + Cardinality(InPool) - Cardinality(Held \cap InPool)
      BY <1>4, <1>5, FS_Union
  <2>4. Cardinality(Held \cup InPool) \in Nat
      BY <2>3, FS_CardinalityType
  <2> HIDE DEF Held, InPool
  <2>5. Cardinality(Held \cup InPool) <= Cardinality(Held) + Cardinality(InPool)
      BY <1>4, <1>5, <2>2, <2>3
  <2>q. QED BY <2>3, <2>4, <2>5
<1>8. Cardinality(OpenTo(h)) <= Cardinality(Held \cup InPool) /\ Cardinality(OpenTo(h)) \in Nat
    BY <1>6, <1>7, FS_Subset, FS_CardinalityType
<1> HIDE DEF G, P, Held, InPool
<1>9. Cardinality(OpenTo(h)) <= MaxIdle + Cardinality(G)
    BY <1>1, <1>2, <1>3, <1>4, <1>5, <1>7, <1>8
<1>q. QED BY <1>9 DEF G

\* However calls, failures and full channels interleave, a host carries at
\* most max_connections_per_host connections beside those in use.
THEOREM ConnectionsBounded == Spec => []OpenBounded
<1>1. OwnInv => OpenBounded
    BY OwnersCount DEF OpenBounded
<1>q. QED BY <1>1, OwnedAlways, PTL

-----------------------------------------------------------------------------
(* /health makes its calls as the pool allows, and learns of a server from *)
(* that server.                                                            *)

LEMMA StepOfPool == [DashboardNext]_allVars => [Next]_vars
<1> SUFFICES ASSUME DashboardNext \/ UNCHANGED allVars PROVE Next \/ UNCHANGED vars
    OBVIOUS
<1>1. CASE Ask \/ AnswerHealth
    BY <1>1 DEF Ask, AnswerHealth
<1>2. ASSUME NEW h \in Hosts, CollectNext(h) PROVE Next
  <2>1. Worker[h] \in Runs /\ Start(Worker[h])
      BY <1>2, DashboardAssumption DEF CollectNext, Start
  <2>q. QED BY <2>1 DEF Next
<1>3. ASSUME NEW g \in Runs, Proceed(g) \/ CallElsewhere(g) PROVE Next
    BY <1>3 DEF Proceed, CallElsewhere, Next
<1>4. ASSUME NEW c \in Conns, Trouble(c) PROVE Next
    BY <1>4 DEF Trouble, Next
<1>5. CASE UNCHANGED allVars
    BY <1>5 DEF allVars
<1>q. QED BY <1>1, <1>2, <1>3, <1>4, <1>5 DEF DashboardNext

\* /health uses the client as any caller may: it takes no step of its own on
\* connections, channels and calls, so that what holds of the client holds
\* beneath it.
THEOREM PoolInUse == DashboardSpec => Spec
<1>1. DashboardInit => Init
    BY DEF DashboardInit
<1>q. QED BY <1>1, StepOfPool, PTL DEF DashboardSpec, Spec

\* Every property of the client, with /health among its callers.
THEOREM PoolUnderHealth ==
    DashboardSpec => [](TypeOK /\ OneHolder /\ ClosedIffUnowned /\ RightHost /\ OpenBounded)
    BY PoolInUse, TypeCorrect, OneOwner, NoLeak, CommandsReachTheirHost, ConnectionsBounded, PTL

\* The call that a server's goroutine has in progress is a call to that
\* server.
CollectorsOK ==
    /\ health \in [pc : {"idle", "collect"}, left : [Hosts -> 0..Calls]]
    /\ \A h \in Hosts :
          health.left[h] > 0 /\ runs[Worker[h]].pc # "idle" => runs[Worker[h]].host = h

\* What /health shows of a server came over a connection that was dialled for
\* it.
FromItsServer ==
    \A h \in Hosts :
        health.left[h] > 0 /\ runs[Worker[h]].pc \in Holding => conns[runs[Worker[h]].conn].host = h

\* A step of a call changes no other call, and not the call's host unless it
\* ends the call.
LEMMA RunStepKeeps ==
    ASSUME TypeOK, NEW g \in Runs, RunStep(g)
    PROVE  /\ \A k \in Runs \ {g} : runs'[k] = runs[k]
           /\ runs[g].pc # "idle"
           /\ runs'[g].pc # "idle" => runs'[g].host = runs[g].host
<1>1. runs \in [Runs -> Run]
    BY DEF TypeOK
<1>2. CASE \/ ProbeAnswered(g) \/ Handshake(g) \/ OpenSession(g) \/ EndCommand(g)
    BY <1>1, <1>2 DEF ProbeAnswered, Handshake, OpenSession, EndCommand, Goto, Run
<1>3. CASE \/ DialFailed(g) \/ HandshakeFailed(g) \/ SessionFailed(g) \/ Put(g)
    BY <1>1, <1>3 DEF DialFailed, HandshakeFailed, SessionFailed, Put, Return, IdleRun
<1>4. CASE TakeIdle(g) \/ ProbeFailed(g) \/ Dial(g)
    BY <1>1, <1>4 DEF TakeIdle, ProbeFailed, Dial, Redial, Run
<1>q. QED BY <1>2, <1>3, <1>4 DEF RunStep

LEMMA DashboardInitOK == DashboardInit => CollectorsOK
    BY DashboardAssumption DEF DashboardInit, NoHealth, CollectorsOK

LEMMA DashboardNextOK == TypeOK /\ CollectorsOK /\ [DashboardNext]_allVars => CollectorsOK'
<1> SUFFICES ASSUME TypeOK, CollectorsOK, DashboardNext \/ UNCHANGED allVars PROVE CollectorsOK'
    OBVIOUS
<1>1. /\ runs \in [Runs -> Run] /\ Calls \in Nat /\ Calls > 0
      /\ health \in [pc : {"idle", "collect"}, left : [Hosts -> 0..Calls]]
      /\ health.left \in [Hosts -> 0..Calls]
    BY DashboardAssumption DEF TypeOK, CollectorsOK
<1>2. Worker \in [Hosts -> Runs] /\ \A h1, h2 \in Hosts : Worker[h1] = Worker[h2] => h1 = h2
    BY DashboardAssumption
<1>3. CASE Ask
    BY <1>1, <1>2, <1>3 DEF Ask, CollectorsOK, vars
<1>4. CASE AnswerHealth
    BY <1>1, <1>4 DEF AnswerHealth, NoHealth, CollectorsOK, vars
<1>5. ASSUME NEW h \in Hosts, CollectNext(h) PROVE CollectorsOK'
  <2>1. \A k \in Hosts : runs'[Worker[k]] = runs[Worker[k]] \/ (k = h /\ runs'[Worker[k]].host = h)
      BY <1>1, <1>2, <1>5 DEF CollectNext, Run
  <2>q. QED BY <1>1, <1>5, <2>1 DEF CollectNext, CollectorsOK
<1>6. ASSUME NEW g \in Runs, Proceed(g) PROVE CollectorsOK'
  <2>1. /\ \A k \in Runs \ {g} : runs'[k] = runs[k]
        /\ runs[g].pc # "idle"
        /\ runs'[g].pc # "idle" => runs'[g].host = runs[g].host
      BY <1>6, RunStepKeeps DEF Proceed
  <2>2. CASE UNCHANGED health
      BY <1>1, <1>2, <2>1, <2>2 DEF CollectorsOK
  <2>3. CASE ~(runs'[g].pc # "idle" \/ Collecting(g) = {})
    <3>1. PICK h \in Collecting(g), n \in 0..Calls : health' = [health EXCEPT !.left[h] = n]
      <4>1. PICK h \in Collecting(g), succeeded \in BOOLEAN :
                health' = [health EXCEPT !.left[h] = Collected(@, succeeded)]
          BY <1>6, <2>3, Zenon DEF Proceed
      <4>2. Collected(health.left[h], succeeded) \in 0..Calls
          BY <1>1 DEF Collected, Collecting
      <4>q. QED BY <4>1, <4>2
    <3>2. h \in Hosts /\ Worker[h] = g
        BY DEF Collecting
    <3>3. /\ health' \in [pc : {"idle", "collect"}, left : [Hosts -> 0..Calls]]
          /\ health'.left = [health.left EXCEPT ![h] = n]
        BY <1>1, <3>1, <3>2
    <3>q. QED BY <1>1, <1>2, <2>1, <2>3, <3>1, <3>2, <3>3 DEF CollectorsOK
  <2>q. QED BY <1>6, <2>2, <2>3 DEF Proceed
<1>7. ASSUME NEW g \in Runs, CallElsewhere(g) PROVE CollectorsOK'
  <2>1. \A k \in Runs \ {g} : runs'[k] = runs[k]
      BY <1>1, <1>7 DEF CallElsewhere, Start
  <2>2. \A h \in Hosts : Worker[h] = g => ~(health.left[h] > 0)
      BY <1>7 DEF CallElsewhere, Collecting
  <2>q. QED BY <1>1, <1>2, <1>7, <2>1, <2>2 DEF CallElsewhere, CollectorsOK
<1>8. ASSUME NEW c \in Conns, Trouble(c) PROVE CollectorsOK'
    BY <1>1, <1>8 DEF Trouble, Break, FallSilent, CollectorsOK
<1>9. CASE UNCHANGED allVars
    BY <1>1, <1>9 DEF allVars, vars, CollectorsOK
<1>q. QED BY <1>3, <1>4, <1>5, <1>6, <1>7, <1>8, <1>9 DEF DashboardNext

\* However other callers, broken connections and full pools mix the
\* connections up, no server's numbers in /health come from another server
\* (handleHealth, Collect).
THEOREM NumbersOfTheirServers == DashboardSpec => []FromItsServer
<1>1. TypeOK /\ RightHost /\ CollectorsOK => FromItsServer
  <2> SUFFICES ASSUME TypeOK, RightHost, CollectorsOK, NEW h \in Hosts,
                      health.left[h] > 0, runs[Worker[h]].pc \in Holding
               PROVE  conns[runs[Worker[h]].conn].host = h
      BY DEF FromItsServer
  <2>1. Worker[h] \in Runs /\ runs[Worker[h]].conn \in Conns
      BY DashboardAssumption DEF TypeOK
  <2>2. runs[Worker[h]].host = h
      BY DEF CollectorsOK, Holding
  <2>q. QED BY <2>1, <2>2 DEF RightHost, Holds
<1>q. QED BY <1>1, DashboardInitOK, DashboardNextOK, PoolUnderHealth, PTL DEF DashboardSpec

=============================================================================
