--------------------------- MODULE PeerPartsProofs --------------------------
(***************************************************************************)
(* Proofs about what finds and reaches peers, and about the load generator *)
(* (MCNet), for any connections, calls, addresses, peers, brokers, workers *)
(* and bounds.  Each part has an inductive invariant; the last theorem     *)
(* puts them together to ReachSafe of MCNet.                               *)
(***************************************************************************)
EXTENDS NatPartsProofs

-----------------------------------------------------------------------------
(* DualDial *)

\* The two ends of activate() judge a replacement alike, since each of them
\* measures both connections against the direction it expects.
THEOREM DecisionsAgree ==
  \A k, e \in Conn : NewWins(Low, k, e) <=> NewWins(High, k, e)
BY NodesDiffer, DialerIsNode DEF NewWins, Direction, Expected, Node

Inv == TypeOK /\ LiveIsRegistered

LEMMA InitInv == Init => Inv
<1> SUFFICES ASSUME Init PROVE Inv
  OBVIOUS
<1>1. \A n \in Node : end[n] = [k \in Conn |-> "none"] /\ table[n] = None
  BY DEF Init
<1>2. TypeOK
  BY <1>1, MaxFaultsNat DEF Init, TypeOK
<1>3. LiveIsRegistered
  BY <1>1, NoneIsNoConn DEF LiveIsRegistered
<1> QED
  BY <1>2, <1>3 DEF Inv

\* Closing a live end takes exactly its own entry out of the table.
LEMMA CloseKeeps ==
  ASSUME Inv, NEW n \in Node, NEW k \in Conn, Close(n, k)
  PROVE  /\ LiveIsRegistered'
         /\ end' \in [Node -> [Conn -> {"none", "handshake", "activate", "evict",
                                        "insert", "live", "shut"}]]
         /\ table' \in [Node -> Conn \cup {None}]
BY NoneIsNoConn DEF Inv, TypeOK, LiveIsRegistered, Close, Move

\* A step of an end that is not live, to a point where it is not live either.
LEMMA MoveKeeps ==
  ASSUME Inv, NEW n \in Node, NEW k \in Conn, end[n][k] # "live",
         NEW to \in {"handshake", "activate", "evict", "insert", "shut"},
         Move(n, k, to), UNCHANGED table
  PROVE  /\ LiveIsRegistered'
         /\ end' \in [Node -> [Conn -> {"none", "handshake", "activate", "evict",
                                        "insert", "live", "shut"}]]
BY DEF Inv, TypeOK, LiveIsRegistered, Move

LEMMA NextInv == Inv /\ [Next]_vars => Inv'
<1> SUFFICES ASSUME Inv, [Next]_vars PROVE Inv'
  OBVIOUS
<1>0. TypeOK /\ LiveIsRegistered
  BY DEF Inv
<1>1. ASSUME NEW k \in Conn, Dial(k) \/ Incoming(k)
      PROVE  Inv'
  <2>1. Dialer[k] \in Node /\ Other(Dialer[k]) \in Node
    BY DialerIsNode DEF Other, Node
  <2> QED
    BY <1>0, <1>1, <2>1, MoveKeeps DEF Dial, Incoming, Inv, TypeOK
<1>2. ASSUME NEW n \in Node, NEW k \in Conn, Authenticate(n, k) \/ HandshakeFails(n, k)
      PROVE  Inv'
  BY <1>0, <1>2, MoveKeeps, MaxFaultsNat DEF Authenticate, HandshakeFails, Inv, TypeOK
<1>3. ASSUME NEW n \in Node, NEW k \in Conn,
             ArbitrateFree(n, k) \/ ArbitrateLoses(n, k) \/ RegisterRefused(n, k)
      PROVE  Inv'
  BY <1>0, <1>3, MoveKeeps DEF ArbitrateFree, ArbitrateLoses, RegisterRefused, Inv, TypeOK
<1>4. ASSUME NEW n \in Node, NEW k \in Conn, ArbitrateWins(n, k)
      PROVE  Inv'
  BY <1>0, <1>4, MoveKeeps DEF ArbitrateWins, Inv, TypeOK
<1>5. ASSUME NEW n \in Node, NEW k \in Conn, Evict(n, k)
      PROVE  Inv'
  <2>1. PICK v \in Conn \cup {None} : v = victim[n][k]
    BY <1>0 DEF TypeOK
  <2> DEFINE ends == [j \in Conn |-> IF j = k THEN "insert"
                                    ELSE IF j = v /\ table[n] = v THEN "shut"
                                    ELSE end[n][j]]
  <2>3. end' = [end EXCEPT ![n] = ends] /\ end[n][k] = "evict"
    BY <1>5, <2>1 DEF Evict
  <2>4. /\ ends \in [Conn -> {"none", "handshake", "activate", "evict", "insert",
                             "live", "shut"}]
        /\ \A j \in Conn : ends[j] = IF j = k THEN "insert"
                                    ELSE IF j = v /\ table[n] = v THEN "shut"
                                    ELSE end[n][j]
    BY <1>0 DEF TypeOK
  <2> HIDE DEF ends
  <2>5. TypeOK'
    BY <1>0, <1>5, <2>3, <2>4 DEF Evict, TypeOK
  <2>6. table' = [table EXCEPT ![n] = IF @ = v THEN None ELSE @]
    BY <1>5, <2>1 DEF Evict
  <2>7. \A j \in Conn : ends[j] = "live" <=> end[n][j] = "live" /\ table[n] # v
    BY <1>0, <2>3, <2>4 DEF LiveIsRegistered
  <2>8. LiveIsRegistered'
    BY <1>0, <2>3, <2>6, <2>7, NoneIsNoConn DEF TypeOK, LiveIsRegistered
  <2> QED
    BY <2>5, <2>8 DEF Inv
<1>6. ASSUME NEW n \in Node, NEW k \in Conn, Register(n, k)
      PROVE  Inv'
  BY <1>0, <1>6, NoneIsNoConn DEF Register, Move, Inv, TypeOK, LiveIsRegistered
<1>7. ASSUME NEW n \in Node, NEW k \in Conn, LoopError(n, k) \/ Disconnect(n, k)
      PROVE  Inv'
  BY <1>0, <1>7, CloseKeeps, MaxFaultsNat DEF LoopError, Disconnect, Inv, TypeOK
<1>8. CASE UNCHANGED vars
  BY <1>0, <1>8 DEF vars, Inv, TypeOK, LiveIsRegistered
<1> QED
  BY <1>1, <1>2, <1>3, <1>4, <1>5, <1>6, <1>7, <1>8 DEF Next, ActivateStep

\* A session is live exactly while it is the registered one of its node.
THEOREM NeverForgotten == Spec => []LiveIsRegistered
<1>1. Inv => LiveIsRegistered
  BY DEF Inv
<1> QED
  BY <1>1, InitInv, NextInv, PTL DEF Spec

-----------------------------------------------------------------------------
(* Reach *)

\* The address was dialled often enough to give it up.
AllTried(w) == \A a \in Addrs : refused[w][a] >= DialRetries + (IF punchable[w] THEN 2 ELSE 1)

\* How often the TCP attempt has dialled the addresses, by where it stands.
Progress(w) ==
  LET t == tcp[w] IN
  /\ t.at = "dial" => /\ refused[w][t.addr] >= t.attempt
                      /\ \A a \in Addrs : a < t.addr => refused[w][a] >= DialRetries + 1
  /\ t.at \in {"punch", "upgrade"} =>
       \A a \in Addrs : refused[w][a] >= DialRetries + 1
                       /\ (a < t.addr => refused[w][a] >= DialRetries + 2)
  /\ t.at = "failed" => AllTried(w)

\* A call that failed, or went over to iroh, has been through all addresses before.
TriedInv ==
  \A w \in Way : /\ Progress(w)
                 /\ Mode # "iroh" /\ "tcp" \in fitted /\ way[w] \in {"iroh", "failed"} => AllTried(w)

\* An attempt of a transport that the router lacks never gets anywhere.
FitInv ==
  \A w \in Way : /\ tcp[w].at = "absent" => "tcp" \notin fitted
                 /\ tcp[w].at \notin {"off", "absent"} => "tcp" \in fitted
                 /\ iroh[w] \notin {"off", "absent"} => "iroh" \in fitted

LEMMA FitStep == RCTypeOK /\ FitInv /\ [RCNext]_rcvars => FitInv'
<1> SUFFICES ASSUME RCTypeOK, FitInv, [RCNext]_rcvars PROVE FitInv'
  OBVIOUS
<1> USE DEF FitInv
<1>0. /\ tcp \in [Way -> [at : {"off", "dial", "punch", "upgrade", "ok", "failed", "absent"},
                           addr : Addrs, attempt : 0..DialRetries]]
      /\ iroh \in [Way -> {"off", "run", "ok", "failed", "absent"}]
  BY DEF RCTypeOK
<1>1. CASE UNCHANGED <<fitted, tcp, iroh>>
  BY <1>1
<1>2. ASSUME NEW w \in Way, UNCHANGED fitted,
             \A v \in Way : v # w => tcp'[v] = tcp[v] /\ iroh'[v] = iroh[v],
             tcp'[w] = Off \/ tcp'[w] = Dialling,
             iroh'[w] = "off" \/ iroh'[w] = Calling
      PROVE  FitInv'
  <2>1. /\ tcp'[w].at = "absent" => "tcp" \notin fitted
        /\ tcp'[w].at \notin {"off", "absent"} => "tcp" \in fitted
    BY <1>2 DEF Off, Dialling
  <2>2. iroh'[w] \notin {"off", "absent"} => "iroh" \in fitted
    BY <1>2 DEF Calling
  <2> QED  BY <1>2, <2>1, <2>2
<1>3. ASSUME NEW w \in Way, StartWay(w) PROVE FitInv'
  BY <1>0, <1>2, <1>3 DEF StartWay
<1>4. ASSUME NEW w \in Way, NEW k \in Kinds, RaceWon(w, k) PROVE FitInv'
  BY <1>0, <1>2, <1>4 DEF RaceWon
<1>5. ASSUME NEW w \in Way, IrohEnds(w) PROVE FitInv'
  BY <1>0, <1>5 DEF IrohEnds
<1>6. ASSUME NEW w \in Way, TcpStep(w) PROVE FitInv'
  <2>1. UNCHANGED <<fitted, iroh>> /\ tcp[w].at \notin {"off", "absent"}
    BY <1>6 DEF TcpStep, Connected, DialRefused, Punched, UpgradeRefused
  <2>3. \E at \in {"dial", "punch", "upgrade", "ok", "failed"} : \E a, n : TcpAt(w, at, a, n)
    BY <1>6 DEF TcpStep, Connected, DialRefused, Punched, UpgradeRefused
  <2>4. PICK at \in {"dial", "punch", "upgrade", "ok", "failed"} : \E a, n : TcpAt(w, at, a, n)
    BY <2>3
  <2>5. tcp'[w].at = at /\ \A v \in Way : v # w => tcp'[v] = tcp[v]
    BY <1>0, <2>4 DEF TcpAt
  <2> QED  BY <2>1, <2>4, <2>5
<1> QED  BY <1>1, <1>3, <1>4, <1>5, <1>6 DEF RCNext, RouterStep, Single, Change, rcvars

\* The variables of the two transports and of the router stay in their types.
LEMMA ReachTypeStep == RCTypeOK /\ [RCNext]_rcvars => RCTypeOK'
<1> SUFFICES ASSUME RCTypeOK, [RCNext]_rcvars PROVE RCTypeOK'
  OBVIOUS
<1> USE DEF RCTypeOK
<1>0. /\ 1 \in Addrs /\ 0 \in 0..DialRetries /\ DialRetries \in Nat
      /\ \A a \in Addrs : a < NumAddrs => a + 1 \in Addrs
      /\ \A n \in 0..DialRetries : n < DialRetries => n + 1 \in 0..DialRetries
  BY ReachNat DEF Addrs
<1>1. ASSUME NEW a \in Addrs, Change(a) PROVE RCTypeOK'
  BY <1>1, ReachNat DEF Change
<1>2. ASSUME NEW w \in Way, StartWay(w) PROVE RCTypeOK'
  BY <1>0, <1>2, ModeIsMode DEF StartWay, Off, Dialling, Calling
<1>3. ASSUME NEW w \in Way, NEW k \in Kinds, Count(w, k)
      PROVE tried' \in [Kinds -> Nat] /\ wins' \in [Kinds -> Nat]
  BY <1>3 DEF Count
<1>4. ASSUME NEW w \in Way, NEW k \in Kinds, RaceWon(w, k) PROVE RCTypeOK'
  <2>1. TheOther(k) \in Kinds /\ TheOther(k) # k
    BY DEF TheOther, Kinds
  <2>2. tried' \in [Kinds -> Nat] /\ wins' \in [Kinds -> Nat]
    BY <1>3, <1>4 DEF RaceWon
  <2>3. way' \in [Way -> {"idle", "race", "tcp", "iroh", "ok", "failed"}]
    BY <1>4, <2>1 DEF RaceWon, Kinds
  <2>4. tcp' \in [Way -> [at : {"off", "dial", "punch", "upgrade", "ok", "failed", "absent"},
                          addr : Addrs, attempt : 0..DialRetries]]
    BY <1>0, <1>4 DEF RaceWon, Off, Dialling
  <2>5. dropped' \subseteq Way \X Kinds /\ iroh' \in [Way -> {"off", "run", "ok", "failed", "absent"}]
    BY <1>4, <2>1 DEF RaceWon, Calling
  <2> QED  BY <1>4, <2>2, <2>3, <2>4, <2>5 DEF RaceWon
<1>5. ASSUME NEW w \in Way, NEW k \in Kinds, Single(w, k) PROVE RCTypeOK'
  <2>1. tried' \in [Kinds -> Nat] /\ wins' \in [Kinds -> Nat]
    BY <1>3, <1>5 DEF Single
  <2>2. way' \in [Way -> {"idle", "race", "tcp", "iroh", "ok", "failed"}]
    BY <1>5 DEF Single, WayResult
  <2> QED  BY <1>5, <2>1, <2>2 DEF Single
<1>6. ASSUME NEW w \in Way, IrohEnds(w) PROVE RCTypeOK'
  BY <1>6 DEF IrohEnds
<1>7. ASSUME NEW w \in Way, Refuse(w) PROVE refused' \in [Way -> [Addrs -> Nat]]
  BY <1>7 DEF Refuse
<1>8. ASSUME NEW w \in Way, TcpStep(w) PROVE RCTypeOK'
  <2>5. ASSUME NEW at \in {"dial", "punch", "upgrade", "ok", "failed"}, NEW a \in Addrs,
               NEW n \in 0..DialRetries, TcpAt(w, at, a, n)
        PROVE  tcp' \in [Way -> [at : {"off", "dial", "punch", "upgrade", "ok", "failed", "absent"},
                                 addr : Addrs, attempt : 0..DialRetries]]
    BY <2>5 DEF TcpAt
  <2>1. CASE Connected(w)
    BY <1>0, <2>1 DEF Connected, TcpAt
  <2>2. CASE DialRefused(w)
    <3>1. tcp[w].addr \in Addrs /\ tcp[w].attempt \in 0..DialRetries
      OBVIOUS
    <3>2. CASE tcp[w].attempt < DialRetries /\ TcpAt(w, "dial", tcp[w].addr, tcp[w].attempt + 1)
      BY <1>0, <1>7, <2>2, <2>5, <3>1, <3>2 DEF DialRefused
    <3>3. CASE tcp[w].addr < NumAddrs /\ TcpAt(w, "dial", tcp[w].addr + 1, 0)
      BY <1>0, <1>7, <2>2, <2>5, <3>1, <3>3 DEF DialRefused
    <3>4. CASE TcpAt(w, IF punchable[w] THEN "punch" ELSE "failed", 1, 0)
      BY <1>0, <1>7, <2>2, <2>5, <3>4 DEF DialRefused
    <3> QED  BY <2>2, <3>2, <3>3, <3>4 DEF DialRefused
  <2>3. CASE Punched(w)
    BY <1>0, <2>3 DEF Punched, TcpAt
  <2>4. CASE UpgradeRefused(w)
    <3>1. tcp[w].addr \in Addrs
      OBVIOUS
    <3>2. CASE tcp[w].addr < NumAddrs /\ TcpAt(w, "punch", tcp[w].addr + 1, 0)
      BY <1>0, <1>7, <2>4, <2>5, <3>1, <3>2 DEF UpgradeRefused
    <3>3. CASE TcpAt(w, "failed", tcp[w].addr, 0)
      BY <1>0, <1>7, <2>4, <2>5, <3>1, <3>3 DEF UpgradeRefused
    <3> QED  BY <2>4, <3>2, <3>3 DEF UpgradeRefused
  <2> QED  BY <1>8, <2>1, <2>2, <2>3, <2>4 DEF TcpStep
<1>9. CASE UNCHANGED rcvars
  BY <1>9 DEF rcvars
<1> QED  BY <1>1, <1>2, <1>4, <1>5, <1>6, <1>8, <1>9 DEF RCNext, RouterStep

\* A refusal moves the attempt on by one dial, and no count goes down.
LEMMA RefusalStep ==
  ASSUME RCTypeOK, NEW w \in Way, Refuse(w)
  PROVE  /\ \A v \in Way, a \in Addrs : refused'[v][a] >= refused[v][a]
         /\ refused'[w][tcp[w].addr] = refused[w][tcp[w].addr] + 1
         /\ \A v \in Way : v # w => refused'[v] = refused[v]
<1>1. tcp[w].addr \in Addrs /\ refused \in [Way -> [Addrs -> Nat]]
  BY DEF RCTypeOK
<1> QED  BY <1>1 DEF Refuse

\* What was true of the dials stays true when there are more of them.
LEMMA TriedGrows ==
  ASSUME RCTypeOK, RCTypeOK', NEW w \in Way, UNCHANGED punchable,
         \A a \in Addrs : refused'[w][a] >= refused[w][a]
  PROVE  /\ AllTried(w) => AllTried(w)'
         /\ Progress(w) /\ tcp'[w] = tcp[w] => Progress(w)'
<1>1. /\ \A a \in Addrs : refused[w][a] \in Nat /\ refused'[w][a] \in Nat
      /\ DialRetries \in Nat
      /\ tcp[w].addr \in Addrs /\ tcp[w].attempt \in Nat
  BY ReachNat DEF RCTypeOK
<1>2. \A a \in Addrs, n \in Nat : refused[w][a] >= n => refused'[w][a] >= n
  BY <1>1
<1>3. AllTried(w) => AllTried(w)'
  BY <1>1, <1>2 DEF AllTried
<1>4. Progress(w) /\ tcp'[w] = tcp[w] => Progress(w)'
  BY <1>1, <1>2, <1>3 DEF Progress
<1> QED  BY <1>3, <1>4

LEMMA TriedStep == ASSUME RCTypeOK, RCTypeOK', FitInv, TriedInv, [RCNext]_rcvars PROVE TriedInv'
<1> USE DEF TriedInv
<1>0. /\ 1 \in Addrs /\ DialRetries \in Nat /\ NumAddrs \in Nat \ {0}
      /\ \A a \in Addrs : 1 <= a /\ a <= NumAddrs /\ a \in Nat
  BY ReachNat DEF Addrs
<1>1. ASSUME UNCHANGED <<punchable, refused>>, NEW w \in Way
      PROVE  /\ AllTried(w) => AllTried(w)'
             /\ Progress(w) /\ tcp'[w] = tcp[w] => Progress(w)'
  <2>1. \A a \in Addrs : refused'[w][a] >= refused[w][a]
    BY <1>1 DEF RCTypeOK
  <2> QED  BY <1>1, <2>1, TriedGrows
<1>2. ASSUME NEW w \in Way, tcp'[w] = Off \/ tcp'[w] = Dialling PROVE Progress(w)'
  <2>1. 0 \in Nat /\ refused'[w][1] \in Nat
    BY <1>0 DEF RCTypeOK
  <2> QED  BY <1>0, <1>2, <2>1 DEF Progress, Off, Dialling
<1>3. ASSUME NEW a \in Addrs, Change(a) PROVE TriedInv'
  BY <1>1, <1>3 DEF Change
<1>4. ASSUME NEW w \in Way, StartWay(w) PROVE TriedInv'
  <2>1. tcp'[w] = Off \/ tcp'[w] = Dialling
    BY <1>4 DEF StartWay, RCTypeOK
  <2>2. Mode # "iroh" => way'[w] \in {"race", "tcp"}
    BY <1>4, ModeIsMode DEF StartWay, RCTypeOK
  <2>3. ASSUME NEW v \in Way, v # w
        PROVE  /\ tcp'[v] = tcp[v] /\ way'[v] = way[v]
               /\ punchable'[v] = punchable[v] /\ refused' = refused
    BY <1>4, <2>3 DEF StartWay, RCTypeOK
  <2>4. ASSUME NEW v \in Way, v # w PROVE (Progress(v) => Progress(v)') /\ (AllTried(v) => AllTried(v)')
    BY <2>3, <2>4 DEF Progress, AllTried
  <2>5. fitted' = fitted
    BY <1>4 DEF StartWay
  <2> QED  BY <1>2, <2>1, <2>2, <2>3, <2>4, <2>5
<1>5. ASSUME NEW w \in Way, NEW k \in Kinds, RaceWon(w, k) PROVE TriedInv'
  <2>1. UNCHANGED <<punchable, refused>> /\ way[w] = "race"
    BY <1>5 DEF RaceWon
  <2>2. tcp'[w] = Off \/ tcp'[w] = Dialling
    BY <1>5 DEF RaceWon, RCTypeOK
  <2>3. \A v \in Way : v # w => tcp'[v] = tcp[v] /\ way'[v] = way[v]
    BY <1>5 DEF RaceWon, RCTypeOK
  <2>4. k = "tcp" => TheOther(k) = "iroh"
    BY DEF TheOther, Kinds
  <2>5. k = "iroh" => TheOther(k) = "tcp"
    BY DEF TheOther, Kinds
  <2>6. "tcp" \in fitted /\ way'[w] \in {"iroh", "failed"} => k = "tcp" /\ tcp[w].at = "failed"
    <3>1. way'[w] = (IF Result(w, k) = "ok" THEN "ok" ELSE TheOther(k)) /\ HasEnded(w, k)
      BY <1>5 DEF RaceWon, RCTypeOK
    <3>2. k \in {"tcp", "iroh"}
      BY DEF Kinds
    <3>3. k = "iroh" => way'[w] \in {"ok", "tcp"}
      BY <2>5, <3>1
    <3>4. k = "tcp" /\ way'[w] # "ok" => tcp[w].at \in {"failed", "absent"}
      BY <3>1 DEF HasEnded, Result
    <3> QED  BY <3>2, <3>3, <3>4 DEF FitInv
  <2>7. "tcp" \in fitted /\ way'[w] \in {"iroh", "failed"} => AllTried(w)
    BY <2>6 DEF Progress
  <2>8. fitted' = fitted
    BY <1>5 DEF RaceWon
  <2> QED  BY <1>1, <1>2, <2>1, <2>2, <2>3, <2>7, <2>8
<1>6. ASSUME NEW w \in Way, NEW k \in Kinds, Single(w, k) PROVE TriedInv'
  <2>1. UNCHANGED <<punchable, refused, tcp>> /\ way[w] = k
    BY <1>6 DEF Single
  <2>2. \A v \in Way : v # w => way'[v] = way[v]
    BY <1>6 DEF Single, RCTypeOK
  <2>3. "tcp" \in fitted /\ way'[w] \in {"iroh", "failed"} => k = "iroh" \/ tcp[w].at = "failed"
    <3>1. way'[w] = WayResult(w, k) /\ HasEnded(w, k)
      BY <1>6 DEF Single, RCTypeOK
    <3>2. k \in {"tcp", "iroh"}
      BY DEF Kinds
    <3>3. k = "tcp" /\ way'[w] # "ok" => tcp[w].at \in {"failed", "absent"}
      BY <3>1 DEF WayResult, HasEnded, Result
    <3> QED  BY <3>2, <3>3 DEF FitInv
  <2>4. "tcp" \in fitted /\ way'[w] \in {"iroh", "failed"} /\ Mode # "iroh" => AllTried(w)
    BY <2>1, <2>3 DEF Progress
  <2>5. fitted' = fitted
    BY <1>6 DEF Single
  <2> QED  BY <1>1, <2>1, <2>2, <2>4, <2>5
<1>7. ASSUME NEW w \in Way, IrohEnds(w) PROVE TriedInv'
  BY <1>1, <1>7 DEF IrohEnds
<1>8. ASSUME NEW w \in Way, NEW at \in {"dial", "punch", "upgrade", "ok", "failed"}, NEW a, NEW n,
             TcpAt(w, at, a, n), UNCHANGED <<fitted, way, punchable>>,
             \A v \in Way, b \in Addrs : refused'[v][b] >= refused[v][b],
             Progress(w)'
      PROVE  TriedInv'
  <2>1. \A v \in Way : v # w => tcp'[v] = tcp[v]
    BY <1>8 DEF TcpAt, RCTypeOK
  <2>2. \A v \in Way : (AllTried(v) => AllTried(v)') /\ (v # w => Progress(v)')
    BY <1>8, <2>1, TriedGrows
  <2> QED  BY <1>8, <2>2
<1>9. ASSUME NEW w \in Way, TcpStep(w) PROVE TriedInv'
  <2> DEFINE t == tcp[w]
  <2>1. /\ t.addr \in Addrs /\ t.attempt \in 0..DialRetries /\ Progress(w)
        /\ tcp \in [Way -> [at : {"off", "dial", "punch", "upgrade", "ok", "failed", "absent"},
                             addr : Addrs, attempt : 0..DialRetries]]
    BY DEF RCTypeOK
  <2>2. \A b \in Addrs : refused[w][b] \in Nat /\ refused'[w][b] \in Nat
    BY DEF RCTypeOK
  <2>3. ASSUME NEW at, NEW a, NEW n, TcpAt(w, at, a, n)
        PROVE  tcp'[w] = [at |-> at, addr |-> a, attempt |-> n]
    BY <2>1, <2>3 DEF TcpAt
  <2>4. CASE Connected(w)
    <3>1. TcpAt(w, "ok", t.addr, t.attempt) /\ UNCHANGED <<fitted, way, punchable, refused>>
      BY <2>4 DEF Connected
    <3>2. tcp'[w] = [at |-> "ok", addr |-> t.addr, attempt |-> t.attempt]
      BY <2>3, <3>1
    <3>3. \A v \in Way, b \in Addrs : refused'[v][b] >= refused[v][b]
      BY <3>1 DEF RCTypeOK
    <3>4. Progress(w)'
      BY <3>2 DEF Progress
    <3> QED  BY <1>8, <3>1, <3>3, <3>4
  <2>5. CASE DialRefused(w)
    <3>1. UNCHANGED <<fitted, way, punchable>> /\ Refuse(w) /\ t.at = "dial"
      BY <2>5 DEF DialRefused
    <3>2. /\ \A v \in Way, b \in Addrs : refused'[v][b] >= refused[v][b]
          /\ refused'[w][t.addr] = refused[w][t.addr] + 1
      BY <3>1, RefusalStep
    <3>3. /\ refused[w][t.addr] >= t.attempt
          /\ \A b \in Addrs : b < t.addr => refused'[w][b] >= DialRetries + 1
      <4>1. \A b \in Addrs : b < t.addr => refused[w][b] >= DialRetries + 1
        BY <2>1, <3>1 DEF Progress
      <4>2. \A b \in Addrs : refused'[w][b] >= refused[w][b]
        BY <3>2
      <4> QED  BY <1>0, <2>1, <2>2, <3>1, <4>1, <4>2 DEF Progress
    <3>4. CASE t.attempt < DialRetries /\ TcpAt(w, "dial", t.addr, t.attempt + 1)
      <4>1. tcp'[w] = [at |-> "dial", addr |-> t.addr, attempt |-> t.attempt + 1]
        BY <2>3, <3>4
      <4>2. refused'[w][t.addr] >= t.attempt + 1
        BY <2>1, <2>2, <3>2, <3>3
      <4>3. Progress(w)'
        BY <3>3, <4>1, <4>2 DEF Progress
      <4> QED  BY <1>8, <3>1, <3>2, <3>4, <4>3
    <3>5. t.attempt = DialRetries => \A b \in Addrs : b <= t.addr => refused'[w][b] >= DialRetries + 1
      <4>1. t.attempt = DialRetries => refused'[w][t.addr] >= DialRetries + 1
        BY <1>0, <2>1, <2>2, <3>2, <3>3
      <4>2. \A b \in Addrs : b <= t.addr => b = t.addr \/ b < t.addr
        BY <1>0, <2>1
      <4> QED  BY <3>3, <4>1, <4>2
    <3>6. CASE t.attempt = DialRetries /\ t.addr < NumAddrs /\ TcpAt(w, "dial", t.addr + 1, 0)
      <4>1. tcp'[w] = [at |-> "dial", addr |-> t.addr + 1, attempt |-> 0] /\ t.addr + 1 \in Addrs
        BY <1>0, <2>1, <2>3, <3>6 DEF Addrs
      <4>2. \A b \in Addrs : b < t.addr + 1 => b <= t.addr
        BY <1>0, <2>1
      <4>3. refused'[w][t.addr + 1] >= 0
        BY <2>2, <4>1
      <4>4. Progress(w)'
        BY <3>5, <3>6, <4>1, <4>2, <4>3 DEF Progress
      <4> QED  BY <1>8, <3>1, <3>2, <3>6, <4>4
    <3>7. CASE t.attempt = DialRetries /\ t.addr = NumAddrs
               /\ TcpAt(w, IF punchable[w] THEN "punch" ELSE "failed", 1, 0)
      <4>1. \A b \in Addrs : refused'[w][b] >= DialRetries + 1
        BY <1>0, <3>5, <3>7
      <4>2. \A b \in Addrs : ~ b < 1
        BY <1>0
      <4>3. CASE punchable[w]
        <5>1. tcp'[w] = [at |-> "punch", addr |-> 1, attempt |-> 0] /\ TcpAt(w, "punch", 1, 0)
          BY <2>3, <3>7, <4>3
        <5>2. Progress(w)'
          BY <4>1, <4>2, <5>1 DEF Progress
        <5> QED  BY <1>8, <3>1, <3>2, <5>1, <5>2
      <4>4. CASE ~ punchable[w]
        <5>1. tcp'[w] = [at |-> "failed", addr |-> 1, attempt |-> 0] /\ TcpAt(w, "failed", 1, 0)
          BY <2>3, <3>7, <4>4
        <5>2. ~ punchable'[w]
          BY <3>1, <4>4
        <5>3. AllTried(w)'
          BY <4>1, <5>2 DEF AllTried
        <5>4. Progress(w)'
          BY <5>1, <5>3 DEF Progress
        <5> QED  BY <1>8, <3>1, <3>2, <5>1, <5>4
      <4> QED  BY <4>3, <4>4
    <3> QED  BY <2>5, <3>4, <3>6, <3>7 DEF DialRefused
  <2>6. CASE Punched(w)
    <3>1. /\ TcpAt(w, "upgrade", t.addr, 0) /\ UNCHANGED <<fitted, way, punchable, refused>>
          /\ t.at = "punch"
      BY <2>6 DEF Punched
    <3>2. tcp'[w] = [at |-> "upgrade", addr |-> t.addr, attempt |-> 0]
      BY <2>3, <3>1
    <3>3. \A v \in Way, b \in Addrs : refused'[v][b] >= refused[v][b]
      BY <3>1 DEF RCTypeOK
    <3>4. Progress(w)'
      BY <2>1, <3>1, <3>2 DEF Progress
    <3> QED  BY <1>8, <3>1, <3>3, <3>4
  <2>7. CASE UpgradeRefused(w)
    <3>1. UNCHANGED <<fitted, way, punchable>> /\ Refuse(w) /\ t.at = "upgrade"
      BY <2>7 DEF UpgradeRefused
    <3>2. /\ \A v \in Way, b \in Addrs : refused'[v][b] >= refused[v][b]
          /\ refused'[w][t.addr] = refused[w][t.addr] + 1
      BY <3>1, RefusalStep
    <3>3. \A b \in Addrs : refused[w][b] >= DialRetries + 1
                          /\ (b < t.addr => refused[w][b] >= DialRetries + 2)
      BY <2>1, <3>1 DEF Progress
    <3>4. \A b \in Addrs : refused'[w][b] >= refused[w][b]
      BY <3>2
    <3>5. \A b \in Addrs : refused'[w][b] >= DialRetries + 1
                          /\ (b <= t.addr => refused'[w][b] >= DialRetries + 2)
      <4>1. refused'[w][t.addr] >= DialRetries + 2
        BY <1>0, <2>1, <2>2, <3>2, <3>3
      <4>2. \A b \in Addrs : b < t.addr => refused'[w][b] >= DialRetries + 2
        BY <1>0, <2>2, <3>3, <3>4
      <4>3. \A b \in Addrs : b <= t.addr => b = t.addr \/ b < t.addr
        BY <1>0, <2>1
      <4>4. \A b \in Addrs : refused'[w][b] >= DialRetries + 1
        BY <1>0, <2>2, <3>3, <3>4
      <4> QED  BY <4>1, <4>2, <4>3, <4>4
    <3>6. CASE t.addr < NumAddrs /\ TcpAt(w, "punch", t.addr + 1, 0)
      <4>1. tcp'[w] = [at |-> "punch", addr |-> t.addr + 1, attempt |-> 0]
        BY <2>3, <3>6
      <4>2. \A b \in Addrs : b < t.addr + 1 => b <= t.addr
        BY <1>0, <2>1
      <4>3. Progress(w)'
        BY <3>5, <4>1, <4>2 DEF Progress
      <4> QED  BY <1>8, <3>1, <3>2, <3>6, <4>3
    <3>7. CASE t.addr = NumAddrs /\ TcpAt(w, "failed", t.addr, 0)
      <4>1. tcp'[w] = [at |-> "failed", addr |-> t.addr, attempt |-> 0]
        BY <2>3, <3>7
      <4>2. \A b \in Addrs : refused'[w][b] >= DialRetries + 2
        BY <1>0, <3>5, <3>7
      <4>3. AllTried(w)'
        BY <1>0, <2>2, <4>2 DEF AllTried
      <4>4. Progress(w)'
        BY <4>1, <4>3 DEF Progress
      <4> QED  BY <1>8, <3>1, <3>2, <3>7, <4>4
    <3> QED  BY <2>7, <3>6, <3>7 DEF UpgradeRefused
  <2> QED  BY <1>9, <2>4, <2>5, <2>6, <2>7 DEF TcpStep
<1>10. CASE UNCHANGED rcvars
  BY <1>1, <1>10 DEF rcvars
<1> QED  BY <1>3, <1>4, <1>5, <1>6, <1>7, <1>9, <1>10 DEF RCNext, RouterStep

\* The calls that have handed out a connection.
Served == {w \in Way : way[w] = "ok"}

StatsInv ==
  /\ wins["tcp"] + wins["iroh"] = Cardinality(Served)
  /\ \A k \in Kinds : wins[k] <= tried[k]

LEMMA StatsStep == ASSUME RCTypeOK, FitInv, StatsInv, [RCNext]_rcvars PROVE StatsInv'
<1>0. /\ wins \in [Kinds -> Nat] /\ tried \in [Kinds -> Nat] /\ "tcp" \in Kinds /\ "iroh" \in Kinds
      /\ way \in [Way -> {"idle", "race", "tcp", "iroh", "ok", "failed"}]
  BY DEF RCTypeOK, Kinds
<1>1. CASE UNCHANGED <<way, wins, tried>>
  BY <1>1 DEF StatsInv, Served
<1>2. ASSUME NEW w \in Way, StartWay(w) PROVE StatsInv'
  <2>1. UNCHANGED <<wins, tried>>
    BY <1>2 DEF StartWay
  <2>2. Served' = Served
    BY <1>0, <1>2, ModeIsMode DEF StartWay, Served
  <2> QED  BY <2>1, <2>2 DEF StatsInv
<1>3. ASSUME NEW w \in Way, NEW k \in Kinds, Count(w, k), way[w] # "ok",
             NEW st \in {"idle", "race", "tcp", "iroh", "ok", "failed"},
             way' = [way EXCEPT ![w] = st], Result(w, k) = "ok" <=> st = "ok"
      PROVE  StatsInv'
  <2>0. Result(w, k) = "ok" => k \in fitted
    BY DEF FitInv, Result, Kinds
  <2>1. \A x \in Kinds : wins'[x] <= tried'[x]
    <3>1. \A x \in Kinds : x # k => wins'[x] = wins[x] /\ tried'[x] = tried[x]
      BY <1>0, <1>3 DEF Count
    <3>2. \A x \in Kinds : wins[x] <= tried[x] /\ wins[x] \in Nat /\ tried[x] \in Nat
      BY <1>0 DEF StatsInv
    <3>3. tried'[k] = IF k \in fitted THEN tried[k] + 1 ELSE tried[k]
      BY <1>0, <1>3 DEF Count
    <3>4. wins'[k] = IF Result(w, k) = "ok" THEN wins[k] + 1 ELSE wins[k]
      BY <1>0, <1>3 DEF Count
    <3>5. wins'[k] <= tried'[k]
      BY <2>0, <3>2, <3>3, <3>4
    <3> QED  BY <3>1, <3>2, <3>5
  <2>2. CASE st # "ok"
    <3>1. Served' = Served /\ wins' = wins
      BY <1>0, <1>3, <2>2 DEF Served, Count
    <3> QED  BY <2>1, <3>1 DEF StatsInv
  <2>3. CASE st = "ok"
    <3>1. Served' = Served \cup {w} /\ w \notin Served
      BY <1>0, <1>3, <2>3 DEF Served
    <3>2. IsFiniteSet(Served)
      BY WaysFinite, FS_Subset DEF Served
    <3>3. Cardinality(Served') = Cardinality(Served) + 1
      BY <3>1, <3>2, FS_AddElement
    <3>4. wins' = [wins EXCEPT ![k] = @ + 1]
      BY <1>3, <2>3 DEF Count
    <3>5. PICK m \in Nat, n \in Nat : m = wins["tcp"] /\ n = wins["iroh"]
      BY <1>0
    <3>6. wins'["tcp"] = (IF k = "tcp" THEN m + 1 ELSE m) /\ wins'["iroh"] = (IF k = "tcp" THEN n ELSE n + 1)
      BY <1>0, <3>4, <3>5 DEF Kinds
    <3>7. m + n = Cardinality(Served)
      BY <3>5 DEF StatsInv
    <3>8. Cardinality(Served) \in Nat
      BY <3>2, FS_CardinalityType
    <3>9. wins'["tcp"] + wins'["iroh"] = Cardinality(Served')
      <4>1. CASE k = "tcp"
        <5>1. wins'["tcp"] = m + 1 /\ wins'["iroh"] = n
          BY <3>6, <4>1
        <5> QED  BY <3>3, <3>5, <3>7, <3>8, <5>1
      <4>2. CASE k # "tcp"
        <5>1. wins'["tcp"] = m /\ wins'["iroh"] = n + 1
          BY <3>6, <4>2
        <5> QED  BY <3>3, <3>5, <3>7, <3>8, <5>1
      <4> QED  BY <4>1, <4>2
    <3> QED  BY <2>1, <3>9 DEF StatsInv
  <2> QED  BY <2>2, <2>3
<1>4. ASSUME NEW w \in Way, NEW k \in Kinds, RaceWon(w, k) PROVE StatsInv'
  <2>3. Count(w, k)
    BY <1>4 DEF RaceWon
  <2>4. TheOther(k) \in Kinds
    BY DEF TheOther, Kinds
  <2>5. PICK st \in {"idle", "race", "tcp", "iroh", "ok", "failed"} :
          st = IF Result(w, k) = "ok" THEN "ok" ELSE TheOther(k)
    BY <2>4 DEF Kinds
  <2>6. way' = [way EXCEPT ![w] = st] /\ way[w] # "ok"
    BY <1>4, <2>5 DEF RaceWon
  <2>7. Result(w, k) = "ok" <=> st = "ok"
    BY <2>4, <2>5 DEF Kinds
  <2> QED  BY <1>3, <2>3, <2>6, <2>7
<1>5. ASSUME NEW w \in Way, NEW k \in Kinds, Single(w, k) PROVE StatsInv'
  <2>3. Count(w, k)
    BY <1>5 DEF Single
  <2>4. PICK st \in {"idle", "race", "tcp", "iroh", "ok", "failed"} : st = WayResult(w, k)
    BY DEF WayResult
  <2>5. way' = [way EXCEPT ![w] = st] /\ way[w] # "ok"
    BY <1>5, <2>4 DEF Single, Kinds
  <2>6. Result(w, k) = "ok" <=> st = "ok"
    BY <2>4 DEF WayResult
  <2> QED  BY <1>3, <2>3, <2>5, <2>6
<1>6. ASSUME NEW w \in Way, TcpStep(w) \/ IrohEnds(w) PROVE UNCHANGED <<way, wins, tried>>
  BY <1>6 DEF TcpStep, Connected, DialRefused, Punched, UpgradeRefused, IrohEnds
<1>7. ASSUME NEW a \in Addrs, Change(a) PROVE UNCHANGED <<way, wins, tried>>
  BY <1>7 DEF Change
<1> QED  BY <1>1, <1>2, <1>4, <1>5, <1>6, <1>7 DEF RCNext, RouterStep, rcvars

ReachInv == RCTypeOK /\ FitInv /\ TriedInv /\ StatsInv

LEMMA ReachInit == RCInit => ReachInv
<1> SUFFICES ASSUME RCInit PROVE ReachInv
  OBVIOUS
<1>1. 1 \in Addrs /\ 0 \in 0..DialRetries /\ 0 \in 0..MaxChanges
  BY ReachNat DEF Addrs
<1>2. RCTypeOK
  BY <1>1 DEF RCInit, RCTypeOK, Off
<1>3. TriedInv
  BY DEF RCInit, TriedInv, Progress, Off
<1>4. Served = {} /\ Cardinality(Served) = 0
  <2>1. Served = {}
    BY DEF RCInit, Served
  <2> QED  BY <2>1, FS_EmptySet
<1>5. StatsInv
  BY <1>4 DEF RCInit, StatsInv, Kinds
<1>6. FitInv
  BY DEF RCInit, FitInv, Off
<1> QED  BY <1>2, <1>3, <1>5, <1>6 DEF ReachInv

LEMMA ReachStep == ReachInv /\ [RCNext]_rcvars => ReachInv'
  BY ReachTypeStep, FitStep, TriedStep, StatsStep DEF ReachInv

\* A connect() that failed has dialled every address as often as it should, also when a
\* race dropped the dials midway (router.rs:206), and the successes counted are the
\* connections handed out.
THEOREM FailuresAreEarned == RCSpec => [](FailsOnlyAfterAll /\ StatsTellResults)
<1>1. ReachInv => FailsOnlyAfterAll /\ StatsTellResults
  BY DEF ReachInv, TriedInv, StatsInv, AllTried, Served, FailsOnlyAfterAll, StatsTellResults
<1> QED  BY <1>1, ReachInit, ReachStep, PTL DEF RCSpec

-----------------------------------------------------------------------------
(* NodeDiscovery *)

\* The last report of a peer is still within the window.
Within(p) == lastTold[p] # Never /\ clock - lastTold[p] < LpdWindow

\* The table may forget a peer, but never one that was reported within the window.
WindowInv ==
  /\ lastTold \in [Peer -> 0..clock \cup {Never}] /\ tooSoon = FALSE
  /\ \A p \in Peer : Within(p) => p \in DOMAIN recentAt /\ recentAt[p] = lastTold[p]

\* Until the task runs it is the route that the socket follows.
FaceInv ==
  /\ missed \in BOOLEAN
  /\ lpd = "bound" /\ ~missed => sockIface = route
  /\ IfaceFollows

\* A task counts its own failures, and gives up exactly when there are enough of them.
BrokerInv ==
  /\ \A b \in Broker : failed[b] = failures[b]
  /\ \A b \in Broker : broker[b] = "ended" <=> failures[b] = MaxTries

DiscoveryInv == NDTypeOK /\ WindowInv /\ FaceInv /\ BrokerInv

BrokerStates == {"off", "resolve", "poll", "run", "signalled", "pause", "ended", "stopped"}

\* The MQTT tasks.
LEMMA MqttStep ==
  ASSUME DiscoveryInv, NEW b \in Broker,
         \/ MqttSpawn(b) \/ MqttResolved(b) \/ MqttRun(b) \/ MqttBeat(b)
         \/ MqttFails(b) \/ MqttAgain(b) \/ MqttStop(b)
         \/ \E p \in Peer : OtherBeats(b, p)
  PROVE  DiscoveryInv'
<1>0. /\ MaxTries \in Nat \ {0}
      /\ broker \in [Broker -> BrokerStates]
      /\ failures \in [Broker -> 0..MaxTries] /\ failed \in [Broker -> Nat]
      /\ retained \in [Broker -> SUBSET (Peer \cup {Me})]
      /\ \A c \in Broker : failed[c] = failures[c]
      /\ \A c \in Broker : broker[c] = "ended" <=> failures[c] = MaxTries
  BY MqttNat DEF DiscoveryInv, NDTypeOK, BrokerInv, BrokerStates
<1>1. UNCHANGED <<clock, lpdVars>>
  BY DEF MqttSpawn, MqttResolved, MqttRun, MqttBeat, MqttFails, MqttAgain, MqttStop, OtherBeats
<1>2. WindowInv' /\ FaceInv'
  BY <1>1 DEF DiscoveryInv, WindowInv, FaceInv, IfaceFollows, Within, lpdVars
<1>3. ASSUME broker' \in [Broker -> BrokerStates], failures' \in [Broker -> 0..MaxTries],
             failed' \in [Broker -> Nat], retained' \in [Broker -> SUBSET (Peer \cup {Me})]
      PROVE  NDTypeOK'
  BY <1>1, <1>3 DEF DiscoveryInv, NDTypeOK, lpdVars, BrokerStates
<1>4. CASE ~ MqttFails(b)
  <2>1. UNCHANGED <<failures, failed>>
    BY <1>4 DEF MqttSpawn, MqttResolved, MqttRun, MqttBeat, MqttAgain, MqttStop, OtherBeats
  <2>2. retained' \in [Broker -> SUBSET (Peer \cup {Me})]
    <3>1. retained' = retained \/ \E p \in Peer \cup {Me} : retained' = [retained EXCEPT ![b] = {p}]
      BY <1>4 DEF MqttSpawn, MqttResolved, MqttRun, MqttBeat, MqttAgain, MqttStop, OtherBeats, Retain
    <3> QED  BY <1>0, <3>1
  <2>3. broker' = broker \/ (broker[b] # "ended" /\ \E s \in BrokerStates \ {"ended"} :
                                                      broker' = [broker EXCEPT ![b] = s])
    BY <1>4 DEF MqttSpawn, MqttResolved, MqttRun, MqttBeat, MqttAgain, MqttStop, OtherBeats,
                BrokerTo, BrokerStates
  <2>4. broker' \in [Broker -> BrokerStates] /\ \A c \in Broker : broker'[c] = "ended" <=> broker[c] = "ended"
    BY <1>0, <2>3
  <2>5. NDTypeOK'
    BY <1>0, <1>3, <2>1, <2>2, <2>4
  <2>6. BrokerInv'
    BY <1>0, <2>1, <2>4 DEF BrokerInv
  <2> QED  BY <1>2, <2>5, <2>6 DEF DiscoveryInv
<1>5. CASE MqttFails(b)
  <2>1. /\ broker[b] # "ended"
        /\ failures' = [failures EXCEPT ![b] = @ + 1] /\ failed' = [failed EXCEPT ![b] = @ + 1]
        /\ broker' = [broker EXCEPT ![b] = IF failures'[b] >= MaxTries THEN "ended" ELSE "pause"]
        /\ UNCHANGED retained
    BY <1>5 DEF MqttFails, BrokerTo, Trying
  <2>2. PICK k \in 0..MaxTries : k = failures[b]
    BY <1>0
  <2>3. k + 1 \in 0..MaxTries /\ k + 1 \in Nat /\ k < MaxTries
    BY <1>0, <2>1, <2>2
  <2>4. failures'[b] = k + 1 /\ failed'[b] = k + 1
    BY <1>0, <2>1, <2>2
  <2>5. failures' \in [Broker -> 0..MaxTries] /\ failed' \in [Broker -> Nat]
    BY <1>0, <2>1, <2>2, <2>3
  <2>6. broker' \in [Broker -> BrokerStates]
    BY <1>0, <2>1 DEF BrokerStates
  <2>7. broker'[b] = "ended" <=> failures'[b] = MaxTries
    BY <1>0, <2>1, <2>3, <2>4
  <2>8. \A c \in Broker : c # b => /\ broker'[c] = broker[c]
                                   /\ failures'[c] = failures[c] /\ failed'[c] = failed[c]
    BY <1>0, <2>1
  <2>9. NDTypeOK'
    BY <1>0, <1>3, <2>1, <2>5, <2>6
  <2>10. BrokerInv'
    BY <1>0, <2>4, <2>7, <2>8 DEF BrokerInv
  <2> QED  BY <1>2, <2>9, <2>10 DEF DiscoveryInv
<1> QED  BY <1>4, <1>5

\* An announcement that is read.
LEMMA ReceiveStep == ASSUME DiscoveryInv, NEW p \in Peer, LpdReceive(p) PROVE DiscoveryInv'
<1> DEFINE known == p \in Pruned /\ Fresh(p)
<1>0. /\ clock \in Nat /\ clock \in 0..MaxNow /\ clock \in 0..clock /\ LpdWindow \in Nat \ {0} /\ MaxNow \in Nat
      /\ Never = MaxNow + 1 /\ Never \notin 0..clock
      /\ DOMAIN recentAt \subseteq Peer /\ \A q \in DOMAIN recentAt : recentAt[q] \in 0..clock
      /\ lastTold \in [Peer -> 0..clock \cup {Never}] /\ tooSoon = FALSE
      /\ \A q \in Peer : Within(q) => q \in DOMAIN recentAt /\ recentAt[q] = lastTold[q]
  BY LpdNat DEF DiscoveryInv, NDTypeOK, WindowInv, Never
<1>1. /\ UNCHANGED <<clock, route, lpd, curIface, sockIface, missed, mqttVars>> /\ air' \subseteq Peer
      /\ recentAt' = [q \in Pruned \cup {p} |-> IF q = p /\ ~known THEN clock ELSE recentAt[q]]
      /\ lastTold' = IF known THEN lastTold ELSE [lastTold EXCEPT ![p] = clock]
      /\ tooSoon' = (tooSoon \/ (~known /\ lastTold[p] # Never /\ clock - lastTold[p] < LpdWindow))
  BY DEF LpdReceive, DiscoveryInv, NDTypeOK
<1>2. \A q \in Peer : Within(q) => q \in Pruned /\ Fresh(q)
  BY <1>0 DEF Pruned, Fresh, Within
<1>3. Pruned \subseteq DOMAIN recentAt
  BY DEF Pruned
<1> HIDE DEF known
<1>4. Within(p) => known
  BY <1>2 DEF known
<1>5. tooSoon' = FALSE
  BY <1>0, <1>1, <1>4 DEF Within
<1>6. known => p \in Pruned
  BY DEF known
<1>7. DOMAIN recentAt' \subseteq Peer /\ \A q \in DOMAIN recentAt' : recentAt'[q] \in 0..clock
  BY <1>0, <1>1, <1>3, <1>6
<1>8. lastTold' \in [Peer -> 0..clock \cup {Never}]
  BY <1>0, <1>1
<1>9. \A q \in Peer : Within(q)' => q \in DOMAIN recentAt' /\ recentAt'[q] = lastTold'[q]
  <2>1. CASE known
    <3>1. lastTold' = lastTold /\ clock' = clock
      BY <1>1, <2>1
    <3>2. \A q \in Peer : Within(q)' => Within(q)
      BY <3>1 DEF Within, Never
    <3> QED  BY <1>0, <1>1, <1>2, <2>1, <3>1, <3>2
  <2>2. CASE ~known
    <3>1. lastTold' = [lastTold EXCEPT ![p] = clock] /\ clock' = clock
      BY <1>1, <2>2
    <3>2. \A q \in Peer : q # p /\ Within(q)' => Within(q) /\ lastTold'[q] = lastTold[q]
      BY <1>0, <3>1 DEF Within, Never
    <3>3. recentAt'[p] = lastTold'[p] /\ p \in DOMAIN recentAt'
      BY <1>0, <1>1, <2>2, <3>1
    <3>4. \A q \in Peer : q # p /\ q \in Pruned => q \in DOMAIN recentAt' /\ recentAt'[q] = recentAt[q]
      BY <1>1
    <3> QED  BY <1>0, <1>2, <3>2, <3>3, <3>4
  <2> QED  BY <2>1, <2>2
<1>10. NDTypeOK'
  BY <1>1, <1>7 DEF DiscoveryInv, NDTypeOK, mqttVars
<1>11. WindowInv'
  <2>1. clock' = clock /\ Never' = Never
    BY <1>1 DEF Never
  <2> QED  BY <1>5, <1>8, <1>9, <2>1 DEF WindowInv
<1>12. FaceInv' /\ BrokerInv'
  BY <1>1 DEF DiscoveryInv, FaceInv, IfaceFollows, BrokerInv, mqttVars
<1> QED  BY <1>10, <1>11, <1>12 DEF DiscoveryInv

LEMMA DiscoveryStep == DiscoveryInv /\ [NDNext]_ndvars => DiscoveryInv'
<1> SUFFICES ASSUME DiscoveryInv, [NDNext]_ndvars PROVE DiscoveryInv'
  OBVIOUS
<1>0. /\ clock \in Nat /\ LpdWindow \in Nat \ {0} /\ MaxNow \in Nat /\ Never = MaxNow + 1
      /\ {route, curIface, sockIface} \subseteq Iface \cup {NoIface} /\ missed \in BOOLEAN
      /\ NDTypeOK /\ WindowInv /\ FaceInv /\ BrokerInv
  BY LpdNat DEF DiscoveryInv, NDTypeOK, FaceInv, Never
<1>1. CASE Tick
  <2>1. clock' = clock + 1 /\ clock' \in 0..MaxNow /\ UNCHANGED <<lpdVars, mqttVars>> /\ clock < MaxNow
    BY <1>0, <1>1 DEF Tick
  <2>2. NDTypeOK'
    <3>1. \A t \in 0..clock : t \in 0..clock'
      BY <1>0, <2>1
    <3>3. \A p \in DOMAIN recentAt : recentAt[p] \in 0..clock'
      BY <1>0, <3>1 DEF NDTypeOK
    <3> QED  BY <1>0, <2>1, <3>3 DEF NDTypeOK, lpdVars, mqttVars
  <2>3. WindowInv'
    <3>1. lastTold \in [Peer -> 0..clock \cup {Never}]
      BY <1>0 DEF WindowInv
    <3>2. Never' = Never /\ lastTold' = lastTold
      BY <2>1 DEF Never, lpdVars
    <3>3. lastTold' \in [Peer -> 0..clock' \cup {Never'}]
      <4>1. \A t \in 0..clock : t \in 0..clock'
        BY <1>0, <2>1
      <4> QED  BY <3>1, <3>2, <4>1
    <3>4. \A p \in Peer : Within(p)' => Within(p)
      <4> SUFFICES ASSUME NEW p \in Peer, Within(p)' PROVE Within(p)
        OBVIOUS
      <4>1. PICK t \in 0..clock : t = lastTold[p]
        BY <3>1, <3>2 DEF Within
      <4>2. clock' - t < LpdWindow /\ t # Never
        BY <3>2, <4>1 DEF Within
      <4>3. clock - t < LpdWindow
        BY <1>0, <2>1, <4>2
      <4> QED  BY <4>1, <4>2, <4>3 DEF Within
    <3> QED  BY <1>0, <2>1, <3>3, <3>4 DEF WindowInv, lpdVars
  <2>4. FaceInv' /\ BrokerInv'
    BY <1>0, <2>1 DEF FaceInv, IfaceFollows, BrokerInv, lpdVars, mqttVars
  <2> QED  BY <2>2, <2>3, <2>4 DEF DiscoveryInv
<1>2. CASE LpdBind \/ LpdFails \/ LpdRun \/ RouteChanges \/ IfaceTick
  <2>1. UNCHANGED <<clock, air, recentAt, lastTold, tooSoon, mqttVars>>
    BY <1>2 DEF LpdBind, LpdFails, LpdRun, RouteChanges, IfaceTick
  <2>2. WindowInv' /\ BrokerInv'
    BY <1>0, <2>1 DEF WindowInv, Within, Never, BrokerInv, mqttVars
  <2>3. /\ lpd' \in {"off", "bound", "running", "failed", "stopped"}
        /\ {route', curIface', sockIface'} \subseteq Iface \cup {NoIface}
    BY <1>0, <1>2 DEF NDTypeOK, LpdBind, LpdFails, LpdRun, RouteChanges, IfaceTick
  <2>4. NDTypeOK'
    BY <1>0, <2>1, <2>3 DEF NDTypeOK, mqttVars
  <2>5. FaceInv'
    <3>1. CASE LpdBind
      BY <1>0, <3>1 DEF FaceInv, IfaceFollows, LpdBind
    <3>2. CASE LpdFails
      BY <1>0, <3>2 DEF FaceInv, IfaceFollows, LpdFails
    <3>3. CASE LpdRun
      BY <1>0, <3>3 DEF FaceInv, IfaceFollows, LpdRun
    <3>4. CASE RouteChanges
      <4>1. (lpd = "bound" => missed') /\ (lpd = "running" => missed' = missed) /\ missed' \in BOOLEAN
        BY <1>0, <3>4 DEF RouteChanges
      <4> QED  BY <1>0, <3>4, <4>1 DEF FaceInv, IfaceFollows, RouteChanges
    <3>5. CASE IfaceTick
      BY <1>0, <3>5 DEF FaceInv, IfaceFollows, IfaceTick
    <3> QED  BY <1>2, <3>1, <3>2, <3>3, <3>4, <3>5
  <2> QED  BY <2>2, <2>4, <2>5 DEF DiscoveryInv
<1>3. ASSUME NEW p \in Peer, PeerAnnounces(p) PROVE DiscoveryInv'
  BY <1>0, <1>3 DEF PeerAnnounces, DiscoveryInv, NDTypeOK, WindowInv, Within, Never, FaceInv, IfaceFollows,
                    BrokerInv, mqttVars
<1>4. CASE DiscoveryShutdown
  <2>1. UNCHANGED <<clock, air, recentAt, lastTold, tooSoon, route, curIface, sockIface, missed,
                    failures, failed, retained>>
        /\ broker' = [b \in Broker |-> IF Listening(b) THEN "signalled" ELSE broker[b]]
        /\ lpd' = IF lpd \in {"bound", "running"} THEN "stopped" ELSE lpd
    BY <1>4 DEF DiscoveryShutdown
  <2>2. NDTypeOK'
    BY <1>0, <2>1 DEF NDTypeOK, Listening
  <2>3. WindowInv' /\ FaceInv'
    BY <1>0, <2>1 DEF WindowInv, Within, Never, FaceInv, IfaceFollows
  <2>4. BrokerInv'
    BY <1>0, <2>1 DEF BrokerInv, NDTypeOK, Listening
  <2> QED  BY <2>2, <2>3, <2>4 DEF DiscoveryInv
<1>5. CASE UNCHANGED ndvars
  BY <1>0, <1>5 DEF ndvars, lpdVars, mqttVars, DiscoveryInv, NDTypeOK, WindowInv, Within, Never, FaceInv,
                    IfaceFollows, BrokerInv
<1> QED  BY <1>1, <1>2, <1>3, <1>4, <1>5, MqttStep, ReceiveStep DEF NDNext, LpdNext, MqttNext

LEMMA DiscoveryInit == NDInit => DiscoveryInv
<1> SUFFICES ASSUME NDInit PROVE DiscoveryInv
  OBVIOUS
<1>1. NDTypeOK
  BY LpdNat, MqttNat DEF NDInit, NDTypeOK
<1>2. WindowInv
  BY DEF NDInit, WindowInv, Within
<1>3. FaceInv
  BY DEF NDInit, FaceInv, IfaceFollows
<1>4. BrokerInv
  BY MqttNat DEF NDInit, BrokerInv
<1> QED  BY <1>1, <1>2, <1>3, <1>4 DEF DiscoveryInv

\* A peer is reported once in the window, although the table of reports is cut down when it
\* is full (lpd.rs:34-39); the socket is on the interface the task believes; and a broker
\* is given up only by a task that has failed with it MaxTries times itself.
THEOREM ReportedOnce == NDSpec => [](OncePerWindow /\ IfaceFollows /\ BrokersAreTried)
<1>1. DiscoveryInv => OncePerWindow /\ IfaceFollows /\ BrokersAreTried
  BY MqttNat DEF DiscoveryInv, WindowInv, FaceInv, BrokerInv, OncePerWindow, BrokersAreTried
<1> QED  BY <1>1, DiscoveryInit, DiscoveryStep, PTL DEF NDSpec

-----------------------------------------------------------------------------
(* Bench *)

\* How many workers are at one of some points of their loop.
Standing(S) == {w \in Worker : worker[w] \in S}
Count1(S) == Cardinality(Standing(S))

Under == {"send", "connect", "ask", "total"}
Answered == tally["ok"] + tally["failure"] + tally["timeout"]

\* Every request begun is in the sum or at a worker, and every one in the sum is under an
\* outcome or at a worker between its two counters.  A socket has at most as many
\* connects to answer as requests that are past their start, and asks likewise, but for
\* what setup() left behind.
Counted ==
  /\ begun = sum + Count1(Under)
  /\ sum = Answered + Count1({"count"})
  /\ \A s \in Sockets : /\ asked[<<s, "connect">>] + Count1({"send"}) <= begun + MaxLate
                        /\ asked[<<s, "ask">>] + Count1({"send", "connect"}) <= begun + MaxLate

LoadInv ==
  /\ Counted
  /\ bench \in {"setup", "failed"} => \A w \in Worker : worker[w] = "off"
  /\ bench = "done" => (\A w \in Worker : worker[w] = "exit") /\ ledger = [total |-> sum, parts |-> tally]

BenchInv == BNTypeOK /\ box \in [Sockets -> Seq(Datagrams)] /\ LoadInv

\* One worker moves: how the numbers of workers change.
LEMMA StandingMoves ==
  ASSUME worker \in [Worker -> {"off", "top", "send", "connect", "ask", "total", "count", "exit"}],
         NEW w \in Worker, NEW at, WorkerTo(w, at), NEW S
  PROVE  /\ Count1(S) \in Nat /\ Count1(S)' \in Nat
         /\ (at \in S <=> worker[w] \in S) => Count1(S)' = Count1(S)
         /\ at \in S /\ worker[w] \notin S => Count1(S)' = Count1(S) + 1
         /\ at \notin S /\ worker[w] \in S => Count1(S)' + 1 = Count1(S)
<1>1. \A v \in Worker : worker'[v] = IF v = w THEN at ELSE worker[v]
  BY DEF WorkerTo
<1>2. IsFiniteSet(Standing(S)) /\ IsFiniteSet(Standing(S)')
  BY WorkersFinite, FS_Subset DEF Standing
<1>3. Count1(S) \in Nat /\ Count1(S)' \in Nat
  BY <1>2, FS_CardinalityType DEF Count1
<1>4. CASE at \in S <=> worker[w] \in S
  <2>1. Standing(S)' = Standing(S)
    BY <1>1, <1>4 DEF Standing
  <2> QED  BY <1>3, <1>4, <2>1 DEF Count1
<1>5. CASE at \in S /\ worker[w] \notin S
  <2>1. Standing(S)' = Standing(S) \cup {w} /\ w \notin Standing(S)
    BY <1>1, <1>5 DEF Standing
  <2>2. Cardinality(Standing(S)') = Cardinality(Standing(S)) + 1
    BY <1>2, <2>1, FS_AddElement
  <2> QED  BY <1>3, <1>5, <2>2 DEF Count1
<1>6. CASE at \notin S /\ worker[w] \in S
  <2>1. Standing(S) = Standing(S)' \cup {w} /\ w \notin Standing(S)'
    BY <1>1, <1>6 DEF Standing
  <2>2. Cardinality(Standing(S)) = Cardinality(Standing(S)') + 1
    BY <1>2, <2>1, FS_AddElement
  <2> QED  BY <1>3, <1>6, <2>2 DEF Count1
<1> QED  BY <1>3, <1>4, <1>5, <1>6

\* The types, given that there is room for one more in what is counted.
LEMMA BenchTypes ==
  ASSUME BenchInv
  PROVE  /\ begun \in Nat /\ sum \in Nat /\ MaxRequests \in Nat /\ begun <= MaxRequests /\ MaxLate \in Nat
         /\ tally \in [Outcomes -> Nat] /\ Answered \in Nat /\ Count1({"count"}) \in Nat
         /\ Count1(Under) \in Nat /\ Count1({"send"}) \in Nat /\ Count1({"send", "connect"}) \in Nat
         /\ \A d \in Sockets \X Datagrams : asked[d] \in Nat
         /\ asked \in [Sockets \X Datagrams -> Nat]
<1>1. \A S : IsFiniteSet(Standing(S))
  BY WorkersFinite, FS_Subset DEF Standing
<1>2. \A S : Count1(S) \in Nat
  BY <1>1, FS_CardinalityType DEF Count1
<1>3. tally \in [Outcomes -> Nat] /\ begun \in Nat /\ sum \in Nat /\ MaxRequests \in Nat /\ begun <= MaxRequests
      /\ MaxLate \in Nat
  BY BenchNat DEF BenchInv, BNTypeOK
<1>4. Answered \in Nat
  BY <1>3 DEF Answered, Outcomes
<1>5. asked \in [Sockets \X Datagrams -> Nat]
  <2>1. 0..(2 * MaxRequests + MaxLate) \subseteq Nat
    BY <1>3
  <2> QED  BY <2>1 DEF BenchInv, BNTypeOK
<1> QED  BY <1>2, <1>3, <1>4, <1>5

\* A step that posts nothing new and counts nothing keeps the counts if the workers do.
LEMMA LoadKept ==
  ASSUME BenchInv, UNCHANGED <<begun, sum, tally>>, asked' \in [Sockets \X Datagrams -> Nat],
         \A d \in Sockets \X Datagrams : asked'[d] <= asked[d],
         Count1(Under)' = Count1(Under), Count1({"count"})' = Count1({"count"}),
         Count1({"send"})' <= Count1({"send"}), Count1({"send", "connect"})' <= Count1({"send", "connect"}),
         Count1({"send"})' \in Nat, Count1({"send", "connect"})' \in Nat
  PROVE  Counted'
<1>1. Answered' = Answered
  BY DEF Answered
<1>2. begun' = sum' + Count1(Under)' /\ sum' = Answered' + Count1({"count"})'
  BY <1>1 DEF BenchInv, LoadInv, Counted
<1>3. ASSUME NEW s \in Sockets
      PROVE  /\ asked'[<<s, "connect">>] + Count1({"send"})' <= begun' + MaxLate
             /\ asked'[<<s, "ask">>] + Count1({"send", "connect"})' <= begun' + MaxLate
  <2>1. <<s, "connect">> \in Sockets \X Datagrams /\ <<s, "ask">> \in Sockets \X Datagrams
    BY DEF Datagrams
  <2>2. PICK i \in Nat, j \in Nat, c \in Nat, d \in Nat :
           asked'[<<s, "connect">>] = i /\ asked'[<<s, "ask">>] = j
           /\ Count1({"send"})' = c /\ Count1({"send", "connect"})' = d
    BY <2>1
  <2> DEFINE most == begun + MaxLate
  <2>3. i <= asked[<<s, "connect">>] /\ j <= asked[<<s, "ask">>] /\ c <= Count1({"send"})
        /\ d <= Count1({"send", "connect"})
    BY <2>1, <2>2
  <2>4. asked[<<s, "connect">>] + Count1({"send"}) <= most
        /\ asked[<<s, "ask">>] + Count1({"send", "connect"}) <= most
    BY DEF BenchInv, LoadInv, Counted
  <2>5. asked[<<s, "connect">>] \in Nat /\ asked[<<s, "ask">>] \in Nat /\ most \in Nat
        /\ Count1({"send"}) \in Nat /\ Count1({"send", "connect"}) \in Nat
    BY <2>1, BenchTypes
  <2>6. begun' + MaxLate = most
    OBVIOUS
  <2> HIDE DEF most
  <2>7. i + c <= most /\ j + d <= most
    BY <2>3, <2>4, <2>5
  <2> QED  BY <2>2, <2>6, <2>7
<1> QED  BY <1>2, <1>3 DEF Counted

\* What the counts say of the types: no counter is above MaxRequests.
LEMMA CountedTypes ==
  ASSUME Counted', begun' \in 0..MaxRequests, sum' \in Nat, tally' \in [Outcomes -> Nat],
         asked' \in [Sockets \X Datagrams -> Nat]
  PROVE  /\ sum' \in 0..MaxRequests /\ tally' \in [Outcomes -> 0..MaxRequests]
         /\ asked' \in [Sockets \X Datagrams -> 0..(2 * MaxRequests + MaxLate)]
<1>1. \A S : IsFiniteSet(Standing(S)')
  BY WorkersFinite, FS_Subset DEF Standing
<1>2. \A S : Count1(S)' \in Nat
  BY <1>1, FS_CardinalityType DEF Count1
<1>3. PICK b \in Nat, t \in Nat, u \in Nat, c \in Nat, o1 \in Nat, o2 \in Nat, o3 \in Nat :
        /\ begun' = b /\ sum' = t /\ Count1(Under)' = u /\ Count1({"count"})' = c
        /\ tally'["ok"] = o1 /\ tally'["failure"] = o2 /\ tally'["timeout"] = o3
  <2>1. /\ begun' \in Nat /\ sum' \in Nat /\ Count1(Under)' \in Nat /\ Count1({"count"})' \in Nat
        /\ tally'["ok"] \in Nat /\ tally'["failure"] \in Nat /\ tally'["timeout"] \in Nat
    BY <1>2, BenchNat DEF Outcomes
  <2> QED  BY <2>1, Zenon
<1>4. b <= MaxRequests /\ MaxRequests \in Nat /\ MaxLate \in Nat
  BY <1>3, BenchNat
<1>5. b = t + u /\ t = o1 + o2 + o3 + c
  BY <1>3 DEF Counted, Answered
<1>6. t <= MaxRequests /\ o1 <= MaxRequests /\ o2 <= MaxRequests /\ o3 <= MaxRequests
  BY <1>4, <1>5
<1>7. tally' \in [Outcomes -> 0..MaxRequests]
  <2>1. \A o \in Outcomes : tally'[o] \in 0..MaxRequests
    BY <1>3, <1>4, <1>6 DEF Outcomes
  <2> QED  BY <2>1
<1>8. \A d \in Sockets \X Datagrams : asked'[d] \in 0..(2 * MaxRequests + MaxLate)
  <2> SUFFICES ASSUME NEW s \in Sockets, NEW kind \in Datagrams
               PROVE  asked'[<<s, kind>>] \in 0..(2 * MaxRequests + MaxLate)
    OBVIOUS
  <2>1. PICK i \in Nat, x \in Nat, y \in Nat :
          asked'[<<s, kind>>] = i /\ Count1({"send"})' = x /\ Count1({"send", "connect"})' = y
    BY <1>2
  <2>2. i + x <= b + MaxLate \/ i + y <= b + MaxLate
    <3>1. CASE kind = "connect"
      <4>1. asked'[<<s, "connect">>] + Count1({"send"})' <= begun' + MaxLate
        BY DEF Counted
      <4> QED  BY <1>3, <2>1, <3>1, <4>1
    <3>2. CASE kind = "ask"
      <4>1. asked'[<<s, "ask">>] + Count1({"send", "connect"})' <= begun' + MaxLate
        BY DEF Counted
      <4> QED  BY <1>3, <2>1, <3>2, <4>1
    <3> QED  BY <3>1, <3>2 DEF Datagrams
  <2> QED  BY <1>4, <2>1, <2>2
<1> QED  BY <1>3, <1>4, <1>6, <1>7, <1>8

\* The engine leaves the workers where they are.
LEMMA EngineStepInv == BenchInv /\ (BenchSetupFails \/ EngineStep) => BenchInv'
<1> SUFFICES ASSUME BenchInv, BenchSetupFails \/ EngineStep PROVE BenchInv'
  OBVIOUS
<1>0. BNTypeOK /\ LoadInv /\ box \in [Sockets -> Seq(Datagrams)]
  BY DEF BenchInv
<1>1. UNCHANGED <<asked, box, begun, sum, tally, udp, outcome, socketOf, turn>>
  BY DEF BenchSetupFails, EngineStep, BenchProgress, BenchStopSeen, BenchReport
<1>2. worker' = worker
  BY DEF BenchSetupFails, EngineStep, BenchProgress, BenchStopSeen, BenchReport
<1>3. \A S : Count1(S)' = Count1(S)
  BY <1>2 DEF Count1, Standing
<1>4. Counted'
  BY <1>0, <1>1, <1>3 DEF LoadInv, Counted, Answered, Under
<1>5. CASE BenchSetupFails
  <2>1. bench = "setup" /\ bench' = "failed" /\ UNCHANGED <<halt, lap, worker, linked, ledger>>
    BY <1>5 DEF BenchSetupFails
  <2>2. BNTypeOK'
    BY <1>0, <1>1, <2>1 DEF BNTypeOK
  <2> QED  BY <1>0, <1>1, <1>4, <2>1, <2>2 DEF BenchInv, LoadInv
<1>6. CASE BenchProgress
  <2>1. lap' \in 0..Duration /\ halt' \in BOOLEAN /\ UNCHANGED <<bench, worker, linked, ledger>>
    BY <1>0, <1>6, BenchNat DEF BenchProgress, BNTypeOK
  <2>2. BNTypeOK'
    BY <1>0, <1>1, <2>1 DEF BNTypeOK
  <2> QED  BY <1>0, <1>1, <1>4, <2>1, <2>2 DEF BenchInv, LoadInv
<1>7. CASE BenchStopSeen
  <2>1. bench' = "join" /\ UNCHANGED <<halt, lap, worker, linked, ledger>>
    BY <1>7 DEF BenchStopSeen
  <2>2. BNTypeOK'
    BY <1>0, <1>1, <2>1 DEF BNTypeOK
  <2> QED  BY <1>0, <1>1, <1>4, <2>1, <2>2 DEF BenchInv, LoadInv
<1>8. CASE BenchReport
  <2>1. /\ bench' = "done" /\ UNCHANGED <<halt, lap, worker, linked>>
        /\ ledger' = [total |-> sum, parts |-> tally] /\ \A w \in Worker : worker[w] = "exit"
    BY <1>8 DEF BenchReport
  <2>2. sum \in Nat /\ tally \in [Outcomes -> Nat]
    BY BenchTypes
  <2>3. BNTypeOK'
    BY <1>0, <1>1, <2>1, <2>2 DEF BNTypeOK
  <2> QED  BY <1>0, <1>1, <1>4, <2>1, <2>3 DEF BenchInv, LoadInv
<1> QED  BY <1>5, <1>6, <1>7, <1>8 DEF EngineStep

\* The workers start with none of them in a request; socket 0 may owe answers to setup().
LEMMA SetupStep == BenchInv /\ BenchSetup => BenchInv'
<1> SUFFICES ASSUME BenchInv, BenchSetup PROVE BenchInv'
  OBVIOUS
<1>0. BNTypeOK /\ LoadInv /\ box \in [Sockets -> Seq(Datagrams)] /\ MaxLate \in Nat /\ MaxRequests \in Nat
  BY BenchNat DEF BenchInv
<1>1. /\ UNCHANGED <<box, begun, sum, tally, udp, outcome, socketOf, turn, halt, lap, ledger>>
      /\ bench' = "run" /\ worker' = [w \in Worker |-> "top"] /\ linked' \in BOOLEAN
  BY DEF BenchSetup
<1>2. PICK n \in 0..MaxLate : asked' = [asked EXCEPT ![<<0, "connect">>] = n]
  <2>1. PICK n \in (IF udp THEN 0..MaxLate ELSE {0}) : asked' = [asked EXCEPT ![<<0, "connect">>] = n]
    BY Zenon DEF BenchSetup
  <2>2. n \in 0..MaxLate
    BY <1>0, <2>1
  <2> QED  BY <2>1, <2>2
<1>3. ASSUME NEW S, "off" \notin S, "top" \notin S PROVE Count1(S)' = Count1(S) /\ Count1(S) = 0
  <2>1. Standing(S) = {} /\ Standing(S)' = {}
    BY <1>0, <1>1, <1>3 DEF BenchSetup, LoadInv, Standing
  <2> QED  BY <2>1, FS_EmptySet DEF Count1
<1>4. /\ Count1(Under)' = Count1(Under) /\ Count1({"count"})' = Count1({"count"})
      /\ Count1({"send"})' = 0 /\ Count1({"send", "connect"})' = 0
      /\ Count1({"send"}) = 0 /\ Count1({"send", "connect"}) = 0
  BY <1>3 DEF Under
<1>5. begun \in Nat /\ asked \in [Sockets \X Datagrams -> Nat]
  BY BenchTypes
<1>6. \A d \in Sockets \X Datagrams : asked'[d] = asked[d] \/ asked'[d] = n
  BY <1>2, <1>5
<1>7. asked' \in [Sockets \X Datagrams -> 0..(2 * MaxRequests + MaxLate)]
  <2>1. n \in 0..(2 * MaxRequests + MaxLate)
    BY <1>0
  <2> QED  BY <1>0, <1>2, <2>1 DEF BNTypeOK
<1>8. ASSUME NEW s \in Sockets
      PROVE  /\ asked'[<<s, "connect">>] + Count1({"send"})' <= begun' + MaxLate
             /\ asked'[<<s, "ask">>] + Count1({"send", "connect"})' <= begun' + MaxLate
  <2>1. <<s, "connect">> \in Sockets \X Datagrams /\ <<s, "ask">> \in Sockets \X Datagrams
    BY DEF Datagrams
  <2>2. PICK i \in Nat, j \in Nat : i = asked[<<s, "connect">>] /\ j = asked[<<s, "ask">>]
    BY <1>5, <2>1
  <2>3. i + 0 <= begun + MaxLate /\ j + 0 <= begun + MaxLate
    BY <1>0, <1>4, <2>2 DEF LoadInv, Counted
  <2>4. (asked'[<<s, "connect">>] = i \/ asked'[<<s, "connect">>] = n)
        /\ (asked'[<<s, "ask">>] = j \/ asked'[<<s, "ask">>] = n)
    BY <1>6, <2>1, <2>2
  <2>5. PICK k \in Nat, l \in Nat : k = asked'[<<s, "connect">>] /\ l = asked'[<<s, "ask">>]
    BY <2>4
  <2>6. k + 0 <= begun + MaxLate /\ l + 0 <= begun + MaxLate
    BY <1>0, <1>5, <2>3, <2>4, <2>5
  <2>7. begun' = begun
    BY <1>1
  <2> QED  BY <1>4, <2>5, <2>6, <2>7
<1>9. Counted'
  BY <1>0, <1>1, <1>4, <1>8 DEF LoadInv, Counted, Answered
<1>10. BNTypeOK'
  BY <1>0, <1>1, <1>7 DEF BNTypeOK
<1> QED  BY <1>0, <1>1, <1>9, <1>10 DEF BenchInv, LoadInv

\* A worker that moves is in its loop.
LEMMA InTheLoop ==
  ASSUME BenchInv, NEW w \in Worker, worker[w] \notin {"off", "exit"},
         UNCHANGED <<bench, ledger>>, Counted'
  PROVE  LoadInv'
<1>1. bench \notin {"setup", "failed", "done"}
  BY DEF BenchInv, LoadInv
<1> QED  BY <1>1 DEF LoadInv

\* A request begins, or the worker ends.
LEMMA TopStep == ASSUME BenchInv, NEW w \in Worker, WorkerTop(w) PROVE BenchInv'
<1>0. /\ BNTypeOK /\ LoadInv /\ box \in [Sockets -> Seq(Datagrams)]
      /\ worker \in [Worker -> {"off", "top", "send", "connect", "ask", "total", "count", "exit"}]
      /\ worker[w] = "top"
  BY DEF BenchInv, BNTypeOK, WorkerTop
<1>1. /\ begun \in Nat /\ sum \in Nat /\ Answered \in Nat /\ MaxRequests \in Nat
      /\ tally \in [Outcomes -> Nat] /\ asked \in [Sockets \X Datagrams -> Nat]
  BY BenchTypes
<1>2. UNCHANGED <<udp, bench, halt, lap, outcome, socketOf, turn, linked, asked, box, sum, tally, ledger>>
  BY DEF WorkerTop
<1>3. CASE halt
  <2>1. WorkerTo(w, "exit") /\ begun' = begun
    BY <1>3 DEF WorkerTop
  <2>2. \A S : worker[w] \notin S /\ "exit" \notin S => Count1(S)' = Count1(S)
    BY <1>0, <2>1, StandingMoves
  <2>3. Counted'
    BY <1>0, <1>2, <2>1, <2>2 DEF Counted, LoadInv, Under, Answered
  <2>4. LoadInv'
    BY <1>0, <1>2, <2>3, InTheLoop
  <2>5. BNTypeOK'
    BY <1>0, <1>2, <2>1 DEF BNTypeOK, WorkerTo
  <2> QED  BY <1>0, <1>2, <2>4, <2>5 DEF BenchInv
<1>4. CASE ~halt
  <2>1. WorkerTo(w, "send") /\ begun' = begun + 1 /\ begun < MaxRequests
    BY <1>4 DEF WorkerTop
  <2>2. /\ Count1(Under)' = Count1(Under) + 1 /\ Count1({"count"})' = Count1({"count"})
        /\ Count1({"send"})' = Count1({"send"}) + 1
        /\ Count1({"send", "connect"})' = Count1({"send", "connect"}) + 1
        /\ Count1(Under) \in Nat /\ Count1({"send"}) \in Nat /\ Count1({"send", "connect"}) \in Nat
    BY <1>0, <2>1, StandingMoves DEF Under
  <2>3. PICK b \in Nat, u \in Nat, x \in Nat, y \in Nat :
          b = begun /\ u = Count1(Under) /\ x = Count1({"send"}) /\ y = Count1({"send", "connect"})
    BY <1>1, <2>2
  <2>4. begun' = b + 1 /\ Count1(Under)' = u + 1 /\ Count1({"send"})' = x + 1
        /\ Count1({"send", "connect"})' = y + 1 /\ sum' = sum /\ asked' = asked
    BY <1>2, <2>1, <2>2, <2>3
  <2>5. b = sum + u /\ sum = Answered + Count1({"count"})
        /\ \A s \in Sockets : asked[<<s, "connect">>] + x <= b + MaxLate
                              /\ asked[<<s, "ask">>] + y <= b + MaxLate
    BY <1>0, <2>3 DEF LoadInv, Counted
  <2>6. Counted'
    <3>1. begun' = sum' + Count1(Under)'
      BY <1>1, <2>3, <2>4, <2>5
    <3>2. sum' = Answered' + Count1({"count"})'
      BY <1>2, <2>2, <2>5 DEF Answered
    <3>3. ASSUME NEW s \in Sockets
          PROVE  /\ asked'[<<s, "connect">>] + Count1({"send"})' <= begun' + MaxLate
                 /\ asked'[<<s, "ask">>] + Count1({"send", "connect"})' <= begun' + MaxLate
      <4>1. PICK i \in Nat, j \in Nat : i = asked[<<s, "connect">>] /\ j = asked[<<s, "ask">>]
        BY <1>1 DEF Datagrams
      <4>2. i + x <= b + MaxLate /\ j + y <= b + MaxLate
        BY <2>5, <4>1
      <4>3. i + (x + 1) <= b + 1 + MaxLate /\ j + (y + 1) <= b + 1 + MaxLate
        BY <4>2, BenchNat
      <4>4. asked'[<<s, "connect">>] = i /\ asked'[<<s, "ask">>] = j
        BY <2>4, <4>1
      <4> QED  BY <2>4, <4>3, <4>4
    <3> QED  BY <3>1, <3>2, <3>3 DEF Counted
  <2>7. LoadInv'
    BY <1>0, <1>2, <2>6, InTheLoop
  <2>8. begun' \in 0..MaxRequests
    BY <1>1, <2>1
  <2>9. BNTypeOK'
    BY <1>0, <1>2, <2>1, <2>8 DEF BNTypeOK, WorkerTo
  <2> QED  BY <1>0, <1>2, <2>7, <2>9 DEF BenchInv
<1> QED  BY <1>3, <1>4

\* A datagram is posted on behalf of a worker: the first one of its request, or the ask
\* that follows a connect.
LEMMA PostStep ==
  ASSUME BenchInv, NEW w \in Worker, NEW s \in Sockets, NEW kind \in Datagrams, Post(w, s, kind),
         worker[w] = "send" \/ (worker[w] = "connect" /\ kind = "ask"),
         UNCHANGED <<begun, sum, tally>>
  PROVE  /\ Counted' /\ asked' \in [Sockets \X Datagrams -> Nat]
         /\ worker' \in [Worker -> {"off", "top", "send", "connect", "ask", "total", "count", "exit"}]
<1>0. /\ worker \in [Worker -> {"off", "top", "send", "connect", "ask", "total", "count", "exit"}]
      /\ LoadInv /\ WorkerTo(w, kind) /\ kind \in {"connect", "ask"}
  BY DEF BenchInv, BNTypeOK, Post, Datagrams
<1>1. /\ begun \in Nat /\ sum \in Nat /\ asked \in [Sockets \X Datagrams -> Nat]
  BY BenchTypes
<1>2. /\ Count1(Under)' = Count1(Under) /\ Count1({"count"})' = Count1({"count"})
      /\ Count1({"send"}) \in Nat /\ Count1({"send", "connect"}) \in Nat
      /\ Count1({"send"})' \in Nat /\ Count1({"send", "connect"})' \in Nat
  BY <1>0, StandingMoves DEF Under
<1>3. /\ kind = "connect" => Count1({"send"})' + 1 = Count1({"send"})
      /\ kind = "connect" => Count1({"send", "connect"})' = Count1({"send", "connect"})
      /\ kind = "ask" => Count1({"send", "connect"})' + 1 = Count1({"send", "connect"})
  BY <1>0, StandingMoves
<1>4. Count1({"send"})' <= Count1({"send"})
  <2>1. CASE worker[w] = "send"
    <3>1. Count1({"send"})' + 1 = Count1({"send"})
      BY <1>0, <2>1, StandingMoves
    <3> QED  BY <1>2, <3>1
  <2>2. CASE worker[w] # "send"
    <3>1. Count1({"send"})' = Count1({"send"})
      BY <1>0, <2>2, StandingMoves
    <3> QED  BY <1>2, <3>1
  <2> QED  BY <2>1, <2>2
<1>5. asked' = [asked EXCEPT ![<<s, kind>>] = @ + 1] /\ <<s, kind>> \in Sockets \X Datagrams
  BY DEF Post
<1>6. asked' \in [Sockets \X Datagrams -> Nat]
  BY <1>1, <1>5
<1>7. ASSUME NEW z \in Sockets
      PROVE  /\ asked'[<<z, "connect">>] + Count1({"send"})' <= begun' + MaxLate
             /\ asked'[<<z, "ask">>] + Count1({"send", "connect"})' <= begun' + MaxLate
  <2>1. <<z, "connect">> \in Sockets \X Datagrams /\ <<z, "ask">> \in Sockets \X Datagrams
    BY DEF Datagrams
  <2>2. PICK i \in Nat, j \in Nat, x \in Nat, y \in Nat, i1 \in Nat, j1 \in Nat, x1 \in Nat, y1 \in Nat,
             b \in Nat, q \in Nat :
          /\ asked[<<z, "connect">>] = i /\ asked[<<z, "ask">>] = j
          /\ asked'[<<z, "connect">>] = i1 /\ asked'[<<z, "ask">>] = j1
          /\ Count1({"send"}) = x /\ Count1({"send", "connect"}) = y
          /\ Count1({"send"})' = x1 /\ Count1({"send", "connect"})' = y1 /\ begun' = b
          /\ begun' + MaxLate = q
    <3>1. /\ asked[<<z, "connect">>] \in Nat /\ asked[<<z, "ask">>] \in Nat
          /\ asked'[<<z, "connect">>] \in Nat /\ asked'[<<z, "ask">>] \in Nat /\ begun' \in Nat
          /\ begun' + MaxLate \in Nat
      BY <1>1, <1>6, <2>1, BenchNat
    <3> QED  BY <1>2, <3>1, Zenon
  <2>3. i + x <= q /\ j + y <= q
    <3>1. asked[<<z, "connect">>] + Count1({"send"}) <= begun + MaxLate
          /\ asked[<<z, "ask">>] + Count1({"send", "connect"}) <= begun + MaxLate
      BY <1>0 DEF LoadInv, Counted
    <3> QED  BY <2>2, <3>1
  <2>4. CASE kind = "connect"
    <3>1. i1 <= i + 1 /\ j1 = j
      BY <1>1, <1>5, <2>1, <2>2, <2>4
    <3>2. x1 + 1 = x /\ y1 = y
      BY <1>3, <2>2, <2>4
    <3>3. i1 + x1 <= q /\ j1 + y1 <= q
      BY <2>3, <3>1, <3>2
    <3> QED  BY <2>2, <3>3
  <2>5. CASE kind = "ask"
    <3>1. i1 = i /\ j1 <= j + 1
      BY <1>1, <1>5, <2>1, <2>2, <2>5
    <3>2. x1 <= x /\ y1 + 1 = y
      BY <1>3, <1>4, <2>2, <2>5
    <3>3. i1 + x1 <= q /\ j1 + y1 <= q
      BY <2>3, <3>1, <3>2
    <3> QED  BY <2>2, <3>3
  <2> QED  BY <1>0, <2>4, <2>5
<1>8. begun' = sum' + Count1(Under)' /\ sum' = Answered' + Count1({"count"})'
  BY <1>0, <1>2 DEF LoadInv, Counted, Answered
<1>9. Counted'
  BY <1>7, <1>8 DEF Counted
<1> QED  BY <1>0, <1>6, <1>9 DEF WorkerTo

LEMMA SendStep == ASSUME BenchInv, NEW w \in Worker, WorkerSend(w) PROVE BenchInv'
<1>0. /\ BNTypeOK /\ LoadInv /\ box \in [Sockets -> Seq(Datagrams)] /\ worker[w] = "send"
      /\ turn \in Sockets /\ begun \in 0..MaxRequests
  BY DEF BenchInv, BNTypeOK, WorkerSend
<1>1. PICK kind \in Datagrams : Post(w, turn, kind)
  BY DEF WorkerSend, Datagrams
<1>2. UNCHANGED <<udp, bench, halt, lap, outcome, linked, box, begun, sum, tally, ledger>>
      /\ socketOf' = [socketOf EXCEPT ![w] = turn] /\ turn' = (turn + 1) % Pool
  BY DEF WorkerSend
<1>3. /\ Counted' /\ asked' \in [Sockets \X Datagrams -> Nat]
      /\ worker' \in [Worker -> {"off", "top", "send", "connect", "ask", "total", "count", "exit"}]
  BY <1>0, <1>1, <1>2, PostStep
<1>4. begun' \in 0..MaxRequests /\ sum' \in Nat /\ tally' \in [Outcomes -> Nat]
  BY <1>0, <1>2, BenchTypes
<1>5. /\ sum' \in 0..MaxRequests /\ tally' \in [Outcomes -> 0..MaxRequests]
      /\ asked' \in [Sockets \X Datagrams -> 0..(2 * MaxRequests + MaxLate)]
  BY <1>3, <1>4, CountedTypes
<1>6. turn' \in Sockets
  <2>1. turn + 1 \in Nat /\ Pool \in Nat \ {0}
    BY <1>0, BenchNat DEF Sockets
  <2>2. \A t \in Nat, q \in Nat \ {0} : (t % q) \in 0..(q - 1)
    OBVIOUS
  <2> QED  BY <1>2, <2>1, <2>2 DEF Sockets
<1>7. socketOf' \in [Worker -> Sockets]
  BY <1>0, <1>2 DEF BNTypeOK
<1>8. BNTypeOK'
  BY <1>0, <1>2, <1>3, <1>4, <1>5, <1>6, <1>7 DEF BNTypeOK
<1>9. LoadInv'
  BY <1>0, <1>2, <1>3, InTheLoop
<1> QED  BY <1>0, <1>2, <1>8, <1>9 DEF BenchInv

\* A request has its outcome.
LEMMA EndStep ==
  ASSUME BenchInv, NEW w \in Worker, NEW o \in Outcomes, EndAs(w, o),
         worker[w] \in {"send", "connect", "ask"}, linked' \in BOOLEAN, box' \in [Sockets -> Seq(Datagrams)],
         UNCHANGED <<udp, bench, halt, lap, socketOf, turn, asked, begun, sum, tally, ledger>>
  PROVE  BenchInv'
<1>0. /\ BNTypeOK /\ LoadInv /\ WorkerTo(w, "total")
      /\ worker \in [Worker -> {"off", "top", "send", "connect", "ask", "total", "count", "exit"}]
  BY DEF BenchInv, BNTypeOK, EndAs
<1>1. /\ Count1(Under)' = Count1(Under) /\ Count1({"count"})' = Count1({"count"})
      /\ Count1({"send"}) \in Nat /\ Count1({"send", "connect"}) \in Nat
      /\ Count1({"send"})' \in Nat /\ Count1({"send", "connect"})' \in Nat
  BY <1>0, StandingMoves DEF Under
<1>2. Count1({"send"})' <= Count1({"send"})
  <2>1. Count1({"send"})' = Count1({"send"}) \/ Count1({"send"})' + 1 = Count1({"send"})
    BY <1>0, StandingMoves
  <2> QED  BY <1>1, <2>1
<1>3. Count1({"send", "connect"})' <= Count1({"send", "connect"})
  <2>1. Count1({"send", "connect"})' = Count1({"send", "connect"})
        \/ Count1({"send", "connect"})' + 1 = Count1({"send", "connect"})
    BY <1>0, StandingMoves
  <2> QED  BY <1>1, <2>1
<1>4. asked' \in [Sockets \X Datagrams -> Nat] /\ \A d \in Sockets \X Datagrams : asked'[d] <= asked[d]
  BY BenchTypes
<1>5. Counted'
  BY <1>1, <1>2, <1>3, <1>4, LoadKept
<1>6. LoadInv'
  BY <1>5, InTheLoop
<1>7. outcome' \in [Worker -> Outcomes]
      /\ worker' \in [Worker -> {"off", "top", "send", "connect", "ask", "total", "count", "exit"}]
  BY <1>0 DEF EndAs, WorkerTo, BNTypeOK
<1>8. BNTypeOK'
  BY <1>0, <1>7 DEF BNTypeOK
<1> QED  BY <1>6, <1>8 DEF BenchInv

\* The first datagram of the socket ends the wait of a worker.
LEMMA AnswerStep == ASSUME BenchInv, NEW w \in Worker, Answer(w) PROVE BenchInv'
<1>0. /\ BNTypeOK /\ LoadInv /\ box \in [Sockets -> Seq(Datagrams)] /\ socketOf[w] \in Sockets
      /\ begun \in 0..MaxRequests
  BY DEF BenchInv, BNTypeOK
<1>1. UNCHANGED <<udp, bench, halt, lap, socketOf, turn, begun, sum, tally, ledger>>
      /\ box[socketOf[w]] # <<>> /\ box' = [box EXCEPT ![socketOf[w]] = Tail(@)]
  BY DEF Answer
<1>2. box' \in [Sockets -> Seq(Datagrams)]
  <2>1. Tail(box[socketOf[w]]) \in Seq(Datagrams)
    BY <1>0, <1>1, HeadTailProperties
  <2> QED  BY <1>0, <1>1, <2>1
<1>3. CASE worker[w] = "connect" /\ linked' = TRUE /\ Post(w, socketOf[w], "ask") /\ UNCHANGED outcome
  <2>1. "ask" \in Datagrams
    BY DEF Datagrams
  <2>2. /\ Counted' /\ asked' \in [Sockets \X Datagrams -> Nat]
        /\ worker' \in [Worker -> {"off", "top", "send", "connect", "ask", "total", "count", "exit"}]
    BY <1>0, <1>1, <1>3, <2>1, PostStep
  <2>3. begun' \in 0..MaxRequests /\ sum' \in Nat /\ tally' \in [Outcomes -> Nat]
    BY <1>0, <1>1, BenchTypes
  <2>4. asked' \in [Sockets \X Datagrams -> 0..(2 * MaxRequests + MaxLate)]
    BY <2>2, <2>3, CountedTypes
  <2>5. BNTypeOK'
    BY <1>0, <1>1, <1>2, <1>3, <2>2, <2>4 DEF BNTypeOK
  <2>6. LoadInv'
    BY <1>1, <1>3, <2>2, InTheLoop
  <2> QED  BY <1>2, <2>5, <2>6 DEF BenchInv
<1>4. CASE worker[w] = "ask" /\ EndAs(w, IF Head(box[socketOf[w]]) = "ask" THEN "ok" ELSE "failure")
           /\ UNCHANGED <<linked, asked>>
  <2>1. PICK o \in Outcomes : o = IF Head(box[socketOf[w]]) = "ask" THEN "ok" ELSE "failure"
    BY DEF Outcomes
  <2>2. EndAs(w, o)
    BY <1>4, <2>1
  <2>3. linked' \in BOOLEAN
    BY <1>0, <1>4 DEF BNTypeOK
  <2> QED  BY <1>1, <1>2, <1>4, <2>2, <2>3, EndStep
<1> QED  BY <1>3, <1>4 DEF Answer

LEMMA NoAnswerEnds == ASSUME BenchInv, NEW w \in Worker, AnswerLate(w) \/ HttpEnds(w) PROVE BenchInv'
<1>1. PICK o \in Outcomes : EndAs(w, o)
  BY DEF AnswerLate, HttpEnds, Outcomes
<1>2. UNCHANGED <<udp, bench, halt, lap, socketOf, turn, linked, asked, box, begun, sum, tally, ledger>>
      /\ worker[w] \in {"send", "connect", "ask"}
  BY DEF AnswerLate, HttpEnds, Datagrams
<1>3. linked' \in BOOLEAN /\ box' \in [Sockets -> Seq(Datagrams)]
  BY <1>2 DEF BenchInv, BNTypeOK
<1> QED  BY <1>1, <1>2, <1>3, EndStep

\* The two counters of a request, one after the other.
LEMMA CounterStep == ASSUME BenchInv, NEW w \in Worker, CountTotal(w) \/ CountOutcome(w) PROVE BenchInv'
<1>0. /\ BNTypeOK /\ LoadInv /\ box \in [Sockets -> Seq(Datagrams)]
      /\ worker \in [Worker -> {"off", "top", "send", "connect", "ask", "total", "count", "exit"}]
      /\ outcome[w] \in Outcomes /\ begun \in 0..MaxRequests
  BY DEF BenchInv, BNTypeOK
<1>1. UNCHANGED <<udp, bench, halt, lap, outcome, socketOf, turn, linked, asked, box, begun, ledger>>
      /\ worker[w] \in {"total", "count"}
  BY DEF CountTotal, CountOutcome
<1>2. PICK at \in {"count", "top"} : WorkerTo(w, at)
  BY DEF CountTotal, CountOutcome
<1>3. /\ Count1({"send"})' = Count1({"send"}) /\ Count1({"send", "connect"})' = Count1({"send", "connect"})
      /\ Count1(Under) \in Nat /\ Count1({"count"}) \in Nat
      /\ Count1(Under)' \in Nat /\ Count1({"count"})' \in Nat
  BY <1>0, <1>1, <1>2, StandingMoves
<1>4. /\ sum \in Nat /\ tally \in [Outcomes -> Nat] /\ asked \in [Sockets \X Datagrams -> Nat]
      /\ Answered \in Nat
  BY BenchTypes
<1>5. \A s \in Sockets : /\ asked'[<<s, "connect">>] + Count1({"send"})' <= begun' + MaxLate
                        /\ asked'[<<s, "ask">>] + Count1({"send", "connect"})' <= begun' + MaxLate
  BY <1>0, <1>1, <1>3 DEF LoadInv, Counted
<1>6. begun = sum + Count1(Under) /\ sum = Answered + Count1({"count"})
  BY <1>0 DEF LoadInv, Counted
<1>7. PICK u \in Nat, c \in Nat, u1 \in Nat, c1 \in Nat :
         u = Count1(Under) /\ c = Count1({"count"}) /\ Count1(Under)' = u1 /\ Count1({"count"})' = c1
  BY <1>3
<1>8. sum' \in Nat /\ tally' \in [Outcomes -> Nat] /\ Counted'
  <2>1. CASE CountTotal(w)
    <3>1. sum' = sum + 1 /\ tally' = tally /\ WorkerTo(w, "count") /\ worker[w] = "total"
      BY <2>1 DEF CountTotal
    <3>2. Count1(Under)' + 1 = Count1(Under) /\ Count1({"count"})' = Count1({"count"}) + 1
      BY <1>0, <3>1, StandingMoves DEF Under
    <3>3. u1 + 1 = u /\ c1 = c + 1
      BY <1>7, <3>2
    <3>4. begun' = sum' + Count1(Under)'
      BY <1>1, <1>4, <1>6, <1>7, <3>1, <3>3
    <3>5. Answered' = Answered
      BY <3>1 DEF Answered
    <3>6. sum' = Answered' + Count1({"count"})'
      BY <1>4, <1>6, <1>7, <3>1, <3>3, <3>5
    <3> QED  BY <1>4, <1>5, <3>1, <3>4, <3>6 DEF Counted
  <2>2. CASE CountOutcome(w)
    <3>1. sum' = sum /\ tally' = [tally EXCEPT ![outcome[w]] = @ + 1] /\ WorkerTo(w, "top") /\ worker[w] = "count"
      BY <2>2 DEF CountOutcome
    <3>2. Count1(Under)' = Count1(Under) /\ Count1({"count"})' + 1 = Count1({"count"})
      BY <1>0, <3>1, StandingMoves DEF Under
    <3>3. u1 = u /\ c1 + 1 = c
      BY <1>7, <3>2
    <3>4. begun' = sum' + Count1(Under)'
      BY <1>1, <1>4, <1>6, <1>7, <3>1, <3>3
    <3>5. tally' \in [Outcomes -> Nat]
      BY <1>0, <1>4, <3>1
    <3>6. PICK o1 \in Nat, o2 \in Nat, o3 \in Nat :
             o1 = tally["ok"] /\ o2 = tally["failure"] /\ o3 = tally["timeout"]
      BY <1>4 DEF Outcomes
    <3>7. /\ tally'["ok"] = IF outcome[w] = "ok" THEN o1 + 1 ELSE o1
          /\ tally'["failure"] = IF outcome[w] = "failure" THEN o2 + 1 ELSE o2
          /\ tally'["timeout"] = IF outcome[w] = "timeout" THEN o3 + 1 ELSE o3
      BY <1>0, <1>4, <3>1, <3>6 DEF Outcomes
    <3>8. PICK p1 \in Nat, p2 \in Nat, p3 \in Nat :
             tally'["ok"] = p1 /\ tally'["failure"] = p2 /\ tally'["timeout"] = p3
      BY <3>5 DEF Outcomes
    <3>9. p1 + p2 + p3 = o1 + o2 + o3 + 1
      BY <1>0, <3>7, <3>8 DEF Outcomes
    <3>10. Answered = o1 + o2 + o3 /\ Answered' = p1 + p2 + p3
      BY <3>6, <3>8 DEF Answered
    <3>11. sum' = Answered' + Count1({"count"})'
      BY <1>4, <1>6, <1>7, <3>1, <3>3, <3>9, <3>10
    <3> QED  BY <1>4, <1>5, <3>1, <3>4, <3>5, <3>11 DEF Counted
  <2> QED  BY <2>1, <2>2
<1>9. sum' \in 0..MaxRequests /\ tally' \in [Outcomes -> 0..MaxRequests]
  BY <1>0, <1>1, <1>4, <1>8, CountedTypes
<1>10. worker' \in [Worker -> {"off", "top", "send", "connect", "ask", "total", "count", "exit"}]
  BY <1>0, <1>2 DEF WorkerTo
<1>11. BNTypeOK'
  BY <1>0, <1>1, <1>9, <1>10 DEF BNTypeOK
<1>12. LoadInv'
  BY <1>1, <1>8, InTheLoop
<1> QED  BY <1>0, <1>1, <1>11, <1>12 DEF BenchInv

LEMMA AnsweringStep == ASSUME BenchInv, NEW d \in Sockets \X Datagrams, ServerStep(d) PROVE BenchInv'
<1>0. /\ BNTypeOK /\ LoadInv /\ box \in [Sockets -> Seq(Datagrams)] /\ begun \in 0..MaxRequests
  BY DEF BenchInv, BNTypeOK
<1>1. UNCHANGED <<udp, bench, halt, lap, worker, outcome, socketOf, turn, linked, begun, sum, tally, ledger>>
      /\ asked[d] > 0 /\ asked' = [asked EXCEPT ![d] = @ - 1]
      /\ box' = [box EXCEPT ![d[1]] = Append(@, d[2])]
  BY DEF ServerStep
<1>2. box' \in [Sockets -> Seq(Datagrams)]
  <2>1. d[1] \in Sockets /\ d[2] \in Datagrams
    OBVIOUS
  <2>2. Append(box[d[1]], d[2]) \in Seq(Datagrams)
    BY <1>0, <2>1, AppendProperties
  <2> QED  BY <1>0, <1>1, <2>1, <2>2
<1>3. asked \in [Sockets \X Datagrams -> Nat]
  BY BenchTypes
<1>4. asked' \in [Sockets \X Datagrams -> Nat] /\ \A x \in Sockets \X Datagrams : asked'[x] <= asked[x]
  BY <1>1, <1>3
<1>5. \A S : Standing(S)' = Standing(S)
  BY <1>1 DEF Standing
<1>6. \A S : Count1(S)' = Count1(S)
  BY <1>5 DEF Count1
<1>7. Count1({"send"}) \in Nat /\ Count1({"send", "connect"}) \in Nat
  BY BenchTypes
<1>8. Counted'
  <2>1. Count1(Under)' = Count1(Under) /\ Count1({"count"})' = Count1({"count"})
        /\ Count1({"send"})' = Count1({"send"}) /\ Count1({"send", "connect"})' = Count1({"send", "connect"})
    BY <1>6 DEF Under
  <2> QED  BY <1>1, <1>4, <1>7, <2>1, LoadKept
<1>9. asked' \in [Sockets \X Datagrams -> 0..(2 * MaxRequests + MaxLate)]
  <2>1. sum' \in Nat /\ tally' \in [Outcomes -> Nat]
    BY <1>1, BenchTypes
  <2> QED  BY <1>0, <1>1, <1>4, <1>8, <2>1, CountedTypes
<1>10. BNTypeOK'
  BY <1>0, <1>1, <1>2, <1>9 DEF BNTypeOK
<1>11. LoadInv'
  BY <1>0, <1>1, <1>8 DEF LoadInv
<1> QED  BY <1>2, <1>10, <1>11 DEF BenchInv

LEMMA BenchStep == BenchInv /\ [BNNext]_bnvars => BenchInv'
<1> SUFFICES ASSUME BenchInv, [BNNext]_bnvars PROVE BenchInv'
  OBVIOUS
<1>1. CASE UNCHANGED bnvars
  <2>1. \A S : Standing(S)' = Standing(S)
    BY <1>1 DEF bnvars, Standing
  <2>2. \A S : Count1(S)' = Count1(S)
    BY <2>1 DEF Count1
  <2>3. Counted'
    BY <1>1, <2>2 DEF bnvars, BenchInv, LoadInv, Counted, Answered, Under
  <2>4. BNTypeOK'
    BY <1>1 DEF bnvars, BenchInv, BNTypeOK
  <2> QED  BY <1>1, <2>3, <2>4 DEF bnvars, BenchInv, LoadInv
<1>2. ASSUME NEW w \in Worker, WorkerStep(w) PROVE BenchInv'
  BY <1>2, TopStep, SendStep, AnswerStep, NoAnswerEnds, CounterStep DEF WorkerStep
<1> QED  BY <1>1, <1>2, SetupStep, EngineStepInv, AnsweringStep DEF BNNext

LEMMA BenchInit == BNInit => BenchInv
<1> SUFFICES ASSUME BNInit PROVE BenchInv
  OBVIOUS
<1>1. \A S : "off" \notin S => Count1(S) = 0
  <2>1. \A S : "off" \notin S => Standing(S) = {}
    BY DEF BNInit, Standing
  <2> QED  BY <2>1, FS_EmptySet DEF Count1
<1>2. /\ Count1(Under) = 0 /\ Count1({"count"}) = 0 /\ Count1({"send"}) = 0 /\ Count1({"send", "connect"}) = 0
  BY <1>1 DEF Under
<1>3. \A d \in Sockets \X Datagrams : asked[d] = 0
  BY DEF BNInit
<1>4. Answered = 0 /\ begun = 0 /\ sum = 0
  BY DEF BNInit, Answered, NoTally, Outcomes
<1>5. Counted
  BY <1>2, <1>3, <1>4, BenchNat DEF Counted, Datagrams
<1>6. BNTypeOK
  <2>1. 0 \in Sockets /\ 0 \in 0..Duration /\ 0 \in 0..MaxRequests /\ 0 \in 0..(2 * MaxRequests + MaxLate)
    BY BenchNat DEF Sockets
  <2>2. <<>> \in Seq(Datagrams)
    BY EmptySeq
  <2>3. NoTally \in [Outcomes -> 0..MaxRequests] /\ NoTally \in [Outcomes -> Nat]
    BY <2>1 DEF NoTally
  <2> QED  BY <2>1, <2>2, <2>3 DEF BNInit, BNTypeOK, Outcomes
<1>7. box \in [Sockets -> Seq(Datagrams)]
  <2>1. <<>> \in Seq(Datagrams)
    BY EmptySeq
  <2> QED  BY <2>1 DEF BNInit
<1>8. LoadInv
  BY <1>5 DEF BNInit, LoadInv
<1> QED  BY <1>6, <1>7, <1>8 DEF BenchInv

\* When all workers have been joined nothing is between two counters, so the report has
\* every request begun, and each under one outcome.
LEMMA ReportIsExact == BenchInv => ReportAddsUp
<1> SUFFICES ASSUME BenchInv, bench = "done"
             PROVE  /\ ledger.total = begun
                    /\ ledger.total = ledger.parts["ok"] + ledger.parts["failure"] + ledger.parts["timeout"]
  BY DEF ReportAddsUp
<1>1. Standing(Under) = {} /\ Standing({"count"}) = {}
  BY DEF BenchInv, LoadInv, Standing, Under
<1>2. Count1(Under) = 0 /\ Count1({"count"}) = 0
  BY <1>1, FS_EmptySet DEF Count1
<1>3. ledger = [total |-> sum, parts |-> tally]
  BY DEF BenchInv, LoadInv
<1>4. begun = sum + 0 /\ sum = Answered + 0 /\ sum \in Nat /\ Answered \in Nat
  BY <1>2, BenchTypes DEF BenchInv, LoadInv, Counted
<1> QED  BY <1>3, <1>4 DEF Answered

\* The report accounts for every request that was begun, although each is counted by two
\* counters and read without a lock.
THEOREM ReportAlwaysAddsUp == BNSpec => []ReportAddsUp
BY ReportIsExact, BenchInit, BenchStep, PTL DEF BNSpec

-----------------------------------------------------------------------------
(* PeerCache: the lists it is built from *)

EpRec == [addr : PeerAddr, last_success : Nat, success_count : 0..MaxCount, fail_count : 0..MaxCount]
PeerNode == [id : PeerId, endpoints : Seq(EpRec), last_seen : Nat]

\* f tells which of the positions I each entry comes from: none comes twice, none is left out.
Places(f, q, I) ==
  /\ f \in [1..Cardinality(I) -> I]
  /\ \A k \in 1..Cardinality(I) : Only(q, I)[k] = q[f[k]]
  /\ \A k, l \in 1..Cardinality(I) : f[k] = f[l] => k = l
  /\ \A i \in I : \E k \in 1..Cardinality(I) : f[k] = i

LEMMA OnlyShape ==
  ASSUME NEW T, NEW q \in Seq(T), NEW I \in SUBSET DOMAIN q
  PROVE  /\ Cardinality(I) \in Nat /\ Only(q, I) \in Seq(T) /\ Len(Only(q, I)) = Cardinality(I)
         /\ \E f : Places(f, q, I)
<1> DEFINE R == {r \in I \X I : r[1] < r[2]}
           N == Cardinality(I)
           rank == RankIn(I, R)
           f == [k \in 1..N |-> CHOOSE i \in I : rank[i] = k]
<1>0. Len(q) \in Nat /\ DOMAIN q = 1..Len(q) /\ \A i \in I : i \in Nat /\ i \in DOMAIN q /\ q[i] \in T
  OBVIOUS
<1>1. IsFiniteSet(I) /\ N \in Nat
  <2>1. IsFiniteSet(1..Len(q))
    BY <1>0, FS_Interval
  <2>2. IsFiniteSet(I)
    BY <1>0, <2>1, FS_Subset
  <2> QED  BY <2>2, FS_CardinalityType
<1>2. \A i, j \in I : <<i, j>> \in R <=> i < j
  OBVIOUS
<1>3. R \in SUBSET (I \X I)
  OBVIOUS
<1> HIDE DEF R
<1>a. \A i \in I : <<i, i>> \notin R
  BY <1>0, <1>2
<1>b. \A i, j, m \in I : <<i, j>> \in R /\ <<j, m>> \in R => <<i, m>> \in R
  <2>1. \A i, j, m \in I : i < j /\ j < m => i < m
    BY <1>0
  <2> QED  BY <1>2, <2>1, Zenon
<1>c. \A i, j \in I : i = j \/ <<i, j>> \in R \/ <<j, i>> \in R
  <2>1. \A i, j \in I : i = j \/ i < j \/ j < i
    BY <1>0
  <2> QED  BY <1>2, <2>1, Zenon
<1>4. /\ rank \in [I -> 1..N]
      /\ \A i, j \in I : <<i, j>> \in R <=> rank[i] < rank[j]
      /\ \A k \in 1..N : \E i \in I : rank[i] = k
  BY <1>1, <1>3, <1>a, <1>b, <1>c, Enumerated
<1>5. rank \in [I -> 1..N] /\ \A k \in 1..N : \E i \in I : rank[i] = k
  BY <1>4
<1>6. \A i \in I : Cardinality({j \in I : j <= i}) = rank[i]
  <2> SUFFICES ASSUME NEW i \in I PROVE Cardinality({j \in I : j <= i}) = rank[i]
    OBVIOUS
  <2>1. {j \in I : j <= i} = {j \in I : j = i \/ <<j, i>> \in R}
    BY <1>0, <1>2
  <2> QED  BY <2>1 DEF RankIn
<1> HIDE DEF rank
<1>7. f \in [1..N -> I] /\ \A k \in 1..N : rank[f[k]] = k
  BY <1>5
<1>8. \A k \in 1..N : Only(q, I)[k] = q[f[k]]
  <2> SUFFICES ASSUME NEW k \in 1..N PROVE Only(q, I)[k] = q[f[k]]
    OBVIOUS
  <2>1. \A i \in I : Cardinality({j \in I : j <= i}) = k <=> rank[i] = k
    BY <1>6
  <2>2. (CHOOSE i \in I : Cardinality({j \in I : j <= i}) = k) = (CHOOSE i \in I : rank[i] = k)
    BY <2>1
  <2>3. f[k] = CHOOSE i \in I : rank[i] = k
    OBVIOUS
  <2>4. Only(q, I)[k] = q[CHOOSE i \in I : Cardinality({j \in I : j <= i}) = k]
    BY DEF Only
  <2> QED  BY <2>2, <2>3, <2>4
<1>9. Only(q, I) = [k \in 1..N |-> q[f[k]]]
  <2>1. DOMAIN Only(q, I) = 1..N
    BY DEF Only
  <2>2. Only(q, I) = [k \in 1..N |-> Only(q, I)[k]]
    BY DEF Only
  <2> QED  BY <1>8, <2>2
<1> HIDE DEF f
<1>10. Only(q, I) \in Seq(T) /\ Len(Only(q, I)) = N
  <2>1. \A k \in 1..N : q[f[k]] \in T
    BY <1>0, <1>7
  <2>2. Only(q, I) \in Seq(T)
    BY <1>1, <1>9, <2>1
  <2> QED  BY <1>1, <1>9, <2>2
<1>11. \A k, l \in 1..N : f[k] = f[l] => k = l
  BY <1>7
<1>12. \A i \in I : \E k \in 1..N : f[k] = i
  <2> SUFFICES ASSUME NEW i \in I PROVE f[rank[i]] = i /\ rank[i] \in 1..N
    OBVIOUS
  <2>1. rank[i] \in 1..N /\ rank[f[rank[i]]] = rank[i]
    BY <1>5, <1>7
  <2>2. \A x, y \in I : rank[x] = rank[y] => x = y
    <3> SUFFICES ASSUME NEW x \in I, NEW y \in I, rank[x] = rank[y], x # y PROVE FALSE
      OBVIOUS
    <3>1. ~ rank[x] < rank[y] /\ ~ rank[y] < rank[x]
      BY <1>1, <1>5
    <3>2. <<x, y>> \in R \/ <<y, x>> \in R
      BY <1>c
    <3> QED  BY <1>4, <3>1, <3>2
  <2> QED  BY <1>7, <2>1, <2>2
<1>13. Places(f, q, I)
  BY <1>7, <1>8, <1>11, <1>12 DEF Places
<1> QED  BY <1>1, <1>10, <1>13

LEMMA TotalNat ==
  ASSUME NEW x \in PeerNode
  PROVE  Total(x) \in Nat
<1> DEFINE E == x.endpoints
           All == (1..Len(E)) \X (1..MaxCount)
           Wins == UNION {{i} \X (1..E[i].success_count) : i \in DOMAIN E}
<1>1. E \in Seq(EpRec) /\ Len(E) \in Nat /\ DOMAIN E = 1..Len(E) /\ MaxCount \in Nat
  BY CacheNat DEF PeerNode
<1>2. \A i \in DOMAIN E : E[i].success_count \in 0..MaxCount
  <2>1. \A i \in DOMAIN E : E[i] \in EpRec
    BY <1>1
  <2>2. \A e \in EpRec : e.success_count \in 0..MaxCount
    BY DEF EpRec
  <2> QED  BY <2>1, <2>2
<1>3. Wins \subseteq All
  BY <1>1, <1>2
<1>4. IsFiniteSet(1..Len(E)) /\ IsFiniteSet(1..MaxCount)
  BY <1>1, FS_Interval
<1>5. IsFiniteSet(All)
  BY <1>4, FS_Product
<1> HIDE DEF All
<1>6. Cardinality(Wins) \in Nat
  BY <1>3, <1>5, FS_Subset, FS_CardinalityType
<1> QED  BY <1>6 DEF Total

\* Every list has a stable ranking, and a ranking leaves no position out.
LEMMA RankingExists ==
  ASSUME NEW q \in Seq(PeerNode)
  PROVE  Rankings(q) # {}
<1>1. PICK n \in Nat : n = Len(q)
  OBVIOUS
<1>2. DOMAIN q = 1..n /\ \A i \in 1..n : q[i] \in PeerNode
  BY <1>1
<1>3. \A i \in 1..n : Total(q[i]) \in Nat
  BY <1>2, TotalNat
<1> DEFINE v == [i \in 1..n |-> 0 - Total(q[i])]
<1>4. v \in [1..n -> Int] /\ \A i \in 1..n : v[i] = 0 - Total(q[i])
  BY <1>3
<1> HIDE DEF v
<1>5. PICK p \in Injection(1..n, 1..n) : \A k, l \in 1..n : k < l =>
           v[p[k]] < v[p[l]] \/ (v[p[k]] = v[p[l]] /\ p[k] < p[l])
  BY <1>4, Sortable
<1>6. \A k \in 1..n : p[k] \in 1..n
  BY <1>5, RankingOnto
<1>7. \A k \in 1..n : Total(q[p[k]]) \in Nat /\ v[p[k]] = 0 - Total(q[p[k]])
  BY <1>3, <1>4, <1>6
<1>8. \A k, l \in 1..n : k < l =>
          (Total(q[p[k]]) > Total(q[p[l]]) \/ (Total(q[p[k]]) = Total(q[p[l]]) /\ p[k] < p[l]))
  BY <1>5, <1>7
<1>9. p \in Rankings(q)
  BY <1>2, <1>5, <1>8 DEF Rankings
<1> QED  BY <1>9

LEMMA RankingShape ==
  ASSUME NEW q \in Seq(PeerNode), NEW p \in Rankings(q)
  PROVE  /\ p \in [1..Len(q) -> 1..Len(q)]
         /\ \A k, l \in 1..Len(q) : p[k] = p[l] => k = l
         /\ \A i \in 1..Len(q) : \E k \in 1..Len(q) : p[k] = i
         /\ \A k, l \in 1..Len(q) : k < l => Total(q[p[k]]) >= Total(q[p[l]])
<1>1. Len(q) \in Nat /\ DOMAIN q = 1..Len(q)
  OBVIOUS
<1>2. p \in Injection(1..Len(q), 1..Len(q))
  BY <1>1 DEF Rankings
<1>3. /\ p \in [1..Len(q) -> 1..Len(q)]
      /\ \A k, l \in 1..Len(q) : p[k] = p[l] => k = l
      /\ \A i \in 1..Len(q) : \E k \in 1..Len(q) : p[k] = i
  BY <1>1, <1>2, RankingOnto
<1>4. \A k, l \in 1..Len(q) : k < l => Total(q[p[k]]) >= Total(q[p[l]])
  <2> SUFFICES ASSUME NEW k \in 1..Len(q), NEW l \in 1..Len(q), k < l
               PROVE  Total(q[p[k]]) >= Total(q[p[l]])
    OBVIOUS
  <2>0. p[k] \in 1..Len(q) /\ p[l] \in 1..Len(q)
    BY <1>3
  <2>1. q[p[k]] \in PeerNode /\ q[p[l]] \in PeerNode
    BY <1>1, <2>0
  <2>2. Total(q[p[k]]) \in Nat /\ Total(q[p[l]]) \in Nat
    BY <2>1, TotalNat
  <2>3. Total(q[p[k]]) > Total(q[p[l]]) \/ Total(q[p[k]]) = Total(q[p[l]])
    BY <1>1 DEF Rankings
  <2> QED  BY <2>2, <2>3
<1> QED  BY <1>3, <1>4

LEMMA UsableShape ==
  ASSUME NEW list \in Seq(EpRec)
  PROVE  /\ Usable(list) \in Seq(EpRec)
         /\ \E f \in [DOMAIN Usable(list) -> DOMAIN list] :
              /\ \A k \in DOMAIN Usable(list) : Usable(list)[k] = list[f[k]]
              /\ \A k, l \in DOMAIN Usable(list) : f[k] = f[l] => k = l
<1> DEFINE I == {i \in DOMAIN list : list[i].fail_count < FailLimit}
<1>1. I \in SUBSET DOMAIN list
  OBVIOUS
<1>2. Usable(list) = Only(list, I)
  BY DEF Usable
<1> HIDE DEF I
<1>3. Only(list, I) \in Seq(EpRec) /\ Len(Only(list, I)) = Cardinality(I) /\ Cardinality(I) \in Nat
  BY <1>1, OnlyShape
<1>4. DOMAIN Only(list, I) = 1..Cardinality(I)
  BY <1>3
<1>5. PICK f : Places(f, list, I)
  BY <1>1, OnlyShape
<1>6. f \in [1..Cardinality(I) -> DOMAIN list]
  BY <1>1, <1>5 DEF Places
<1> QED  BY <1>2, <1>3, <1>4, <1>5, <1>6 DEF Places

\* best_addr() names one address as soon as one is usable, and none before.
LEMMA BestShape ==
  ASSUME NEW x \in PeerNode
  PROVE  Cardinality(BestAddr(x)) = IF Usable(x.endpoints) # <<>> THEN 1 ELSE 0
<1> DEFINE u == Usable(x.endpoints)
           S == DOMAIN u
           w == [i \in S |-> KindWeight(KindOf[u[i].addr])]
           c == [i \in S |-> u[i].success_count]
           R == {r \in S \X S : \/ w[r[1]] < w[r[2]]
                                \/ w[r[1]] = w[r[2]] /\ c[r[1]] > c[r[2]]
                                \/ w[r[1]] = w[r[2]] /\ c[r[1]] = c[r[2]] /\ r[1] < r[2]}
           rank == RankIn(S, R)
           best == {i \in S : \A j \in S : ~Better(u[j], u[i]) /\ (Better(u[i], u[j]) \/ i <= j)}
<1>1. u \in Seq(EpRec)
  <2>1. x.endpoints \in Seq(EpRec)
    BY DEF PeerNode
  <2> QED  BY <2>1, UsableShape
<1>2. BestAddr(x) = {u[i].addr : i \in best}
  BY DEF BestAddr
<1> HIDE DEF u
<1>3. Len(u) \in Nat /\ S = 1..Len(u) /\ \A i \in S : u[i] \in EpRec /\ i \in Nat
  BY <1>1
<1>4. w \in [S -> Nat] /\ c \in [S -> Nat]
  <2>1. \A i \in S : u[i].addr \in PeerAddr /\ u[i].success_count \in 0..MaxCount
    BY <1>3 DEF EpRec
  <2>2. \A i \in S : KindOf[u[i].addr] \in {"Lan", "Loopback", "Public", "Ipv6"}
    BY <2>1, KindsKnown
  <2>3. \A k \in {"Lan", "Loopback", "Public", "Ipv6"} : KindWeight(k) \in Nat
    BY DEF KindWeight
  <2>4. \A i \in S : KindWeight(KindOf[u[i].addr]) \in Nat /\ u[i].success_count \in Nat
    BY <2>1, <2>2, <2>3, CacheNat
  <2> QED  BY <2>4
<1>5. \A i, j \in S : Better(u[i], u[j]) <=> (w[i] < w[j] \/ (w[i] = w[j] /\ c[i] > c[j]))
  BY DEF Better
<1>6. \A i \in S : w[i] \in Nat /\ c[i] \in Nat /\ i \in Nat
  BY <1>3, <1>4
<1> HIDE DEF w, c, S
<1>7. \A i, j \in S : <<i, j>> \in R <=> \/ w[i] < w[j]
                                         \/ w[i] = w[j] /\ c[i] > c[j]
                                         \/ w[i] = w[j] /\ c[i] = c[j] /\ i < j
  OBVIOUS
<1>8. R \in SUBSET (S \X S)
  OBVIOUS
<1> HIDE DEF R
<1>9. \A i \in S : <<i, i>> \notin R
  BY <1>6, <1>7
<1>10. \A i, j, m \in S : <<i, j>> \in R /\ <<j, m>> \in R => <<i, m>> \in R
  <2> SUFFICES ASSUME NEW i \in S, NEW j \in S, NEW m \in S, <<i, j>> \in R, <<j, m>> \in R
               PROVE  <<i, m>> \in R
    OBVIOUS
  <2>1. \/ w[i] < w[j]
        \/ w[i] = w[j] /\ c[i] > c[j]
        \/ w[i] = w[j] /\ c[i] = c[j] /\ i < j
    BY <1>7
  <2>2. \/ w[j] < w[m]
        \/ w[j] = w[m] /\ c[j] > c[m]
        \/ w[j] = w[m] /\ c[j] = c[m] /\ j < m
    BY <1>7
  <2>3. \/ w[i] < w[m]
        \/ w[i] = w[m] /\ c[i] > c[m]
        \/ w[i] = w[m] /\ c[i] = c[m] /\ i < m
    BY <1>6, <2>1, <2>2
  <2> QED  BY <1>7, <2>3
<1>11. \A i, j \in S : i = j \/ <<i, j>> \in R \/ <<j, i>> \in R
  <2> SUFFICES ASSUME NEW i \in S, NEW j \in S, i # j, <<i, j>> \notin R
               PROVE  <<j, i>> \in R
    OBVIOUS
  <2>1. ~(\/ w[i] < w[j]
          \/ w[i] = w[j] /\ c[i] > c[j]
          \/ w[i] = w[j] /\ c[i] = c[j] /\ i < j)
    BY <1>7
  <2>2. \/ w[j] < w[i]
        \/ w[j] = w[i] /\ c[j] > c[i]
        \/ w[j] = w[i] /\ c[j] = c[i] /\ j < i
    BY <1>6, <2>1
  <2> QED  BY <1>7, <2>2
<1>12. IsFiniteSet(S) /\ Cardinality(S) = Len(u)
  BY <1>3, FS_Interval
<1>13. /\ rank \in [S -> 1..Cardinality(S)]
       /\ \A i, j \in S : <<i, j>> \in R <=> rank[i] < rank[j]
       /\ \A k \in 1..Cardinality(S) : \E i \in S : rank[i] = k
  BY <1>8, <1>9, <1>10, <1>11, <1>12, Enumerated
<1> HIDE DEF rank
<1>14. \A i, j \in best : i = j
  <2> SUFFICES ASSUME NEW i \in best, NEW j \in best PROVE i = j
    OBVIOUS
  <2>1. i <= j /\ j <= i /\ i \in S /\ j \in S
    OBVIOUS
  <2> QED  BY <1>6, <2>1
<1>15. CASE u = <<>>
  <2>1. S = {}
    BY <1>3, <1>15
  <2>2. BestAddr(x) = {}
    BY <1>2, <2>1
  <2> QED  BY <1>15, <2>2, FS_EmptySet DEF u
<1>16. CASE u # <<>>
  <2>1. Len(u) # 0 /\ 1 \in 1..Cardinality(S)
    BY <1>1, <1>3, <1>12, <1>16, EmptySeq
  <2>2. PICK b \in S : rank[b] = 1
    BY <1>13, <2>1
  <2>3. ASSUME NEW j \in S PROVE ~Better(u[j], u[b]) /\ (Better(u[b], u[j]) \/ b <= j)
    <3>1. rank[j] \in 1..Cardinality(S)
      BY <1>13
    <3>2. ~ rank[j] < rank[b]
      BY <1>3, <1>12, <2>2, <3>1
    <3>3. <<j, b>> \notin R
      BY <1>13, <3>2
    <3>4. ~(\/ w[j] < w[b]
            \/ w[j] = w[b] /\ c[j] > c[b]
            \/ w[j] = w[b] /\ c[j] = c[b] /\ j < b)
      BY <1>7, <3>3
    <3>5. ~(w[j] < w[b] \/ (w[j] = w[b] /\ c[j] > c[b]))
      BY <3>4
    <3>6. (w[b] < w[j] \/ (w[b] = w[j] /\ c[b] > c[j])) \/ b <= j
      BY <1>6, <3>4
    <3> QED  BY <1>5, <3>5, <3>6
  <2>4. b \in best
    BY <2>3
  <2>5. best = {b}
    BY <1>14, <2>4
  <2>6. BestAddr(x) = {u[b].addr}
    BY <1>2, <2>5
  <2> QED  BY <1>16, <2>6, FS_Singleton DEF u
<1> QED  BY <1>15, <1>16

\* The entries of a node count the failures in a row of its addresses, and an address
\* without an entry has none.
Tells(list, r) ==
  /\ \A k, l \in DOMAIN list : list[k].addr = list[l].addr => k = l
  /\ \A k \in DOMAIN list : list[k].fail_count = r[list[k].addr]
  /\ \A a \in PeerAddr : r[a] = 0 \/ (\E k \in DOMAIN list : list[k].addr = a)

CacheInv ==
  /\ PKTypeOK
  /\ nodes \in Seq(PeerNode)
  /\ row \in [PeerId -> [PeerAddr -> 0..MaxCount]]
  /\ \A i, j \in DOMAIN nodes : nodes[i].id = nodes[j].id => i = j
  /\ \A i \in DOMAIN nodes : Tells(nodes[i].endpoints, row[nodes[i].id])
  /\ \A n \in PeerId : (\A i \in DOMAIN nodes : nodes[i].id # n) => \A a \in PeerAddr : row[n][a] = 0

LEMMA MoreShape == \A k \in 0..MaxCount : More(k) \in 0..MaxCount
BY CacheNat DEF More, Least

LEMMA NewEndpointShape ==
  ASSUME now \in Nat, NEW a \in PeerAddr, NEW ok \in BOOLEAN
  PROVE  /\ NewEndpoint(a, ok) \in EpRec
         /\ NewEndpoint(a, ok).addr = a
         /\ NewEndpoint(a, ok).fail_count = IF ok THEN 0 ELSE More(0)
<1>1. MaxCount \in Nat /\ MaxCount # 0 /\ More(0) = 1
  BY CacheNat DEF More, Least
<1> QED  BY <1>1 DEF NewEndpoint, EpRec

LEMMA UpdatedShape ==
  ASSUME now \in Nat, NEW e \in EpRec, NEW ok \in BOOLEAN
  PROVE  /\ Updated(e, ok) \in EpRec
         /\ Updated(e, ok).addr = e.addr
         /\ Updated(e, ok).fail_count = IF ok THEN 0 ELSE More(e.fail_count)
<1>1. e.success_count \in 0..MaxCount /\ e.fail_count \in 0..MaxCount /\ 0 \in 0..MaxCount
  BY CacheNat DEF EpRec
<1>2. More(e.success_count) \in 0..MaxCount /\ More(e.fail_count) \in 0..MaxCount
  BY <1>1, MoreShape
<1> QED  BY <1>1, <1>2 DEF Updated, EpRec

\* What upsert() does to the entries of a node, against the failures in a row.
LEMMA WithAddrTells ==
  ASSUME now \in Nat, NEW list \in Seq(EpRec), NEW r \in [PeerAddr -> 0..MaxCount],
         Tells(list, r), NEW a \in PeerAddr, NEW ok \in BOOLEAN
  PROVE  /\ WithAddr(list, a, ok) \in Seq(EpRec)
         /\ Tells(WithAddr(list, a, ok), [r EXCEPT ![a] = IF ok THEN 0 ELSE More(@)])
<1> DEFINE r2 == [r EXCEPT ![a] = IF ok THEN 0 ELSE More(@)]
<1>0. Len(list) \in Nat /\ DOMAIN list = 1..Len(list) /\ \A k \in DOMAIN list : list[k] \in EpRec
  OBVIOUS
<1>1. r2[a] = (IF ok THEN 0 ELSE More(r[a])) /\ \A b \in PeerAddr : b # a => r2[b] = r[b]
  OBVIOUS
<1>2. \A e \in EpRec : e.addr \in PeerAddr
  BY DEF EpRec
<1> HIDE DEF r2
<1>3. CASE \E i \in DOMAIN list : list[i].addr = a
  <2> DEFINE new == [i \in DOMAIN list |-> IF list[i].addr = a THEN Updated(list[i], ok) ELSE list[i]]
  <2>1. WithAddr(list, a, ok) = new
    BY <1>3 DEF WithAddr
  <2>2. \A k \in DOMAIN list : /\ new[k] \in EpRec /\ new[k].addr = list[k].addr
                               /\ new[k].fail_count = IF list[k].addr = a
                                    THEN IF ok THEN 0 ELSE More(list[k].fail_count)
                                    ELSE list[k].fail_count
    BY <1>0, UpdatedShape
  <2>3. DOMAIN new = DOMAIN list /\ new = [k \in 1..Len(list) |-> new[k]]
    BY <1>0
  <2> HIDE DEF new
  <2>4. new \in Seq(EpRec)
    BY <1>0, <2>2, <2>3
  <2>5. \A k \in DOMAIN list : new[k].fail_count = r2[new[k].addr]
    <3> SUFFICES ASSUME NEW k \in DOMAIN list PROVE new[k].fail_count = r2[new[k].addr]
      OBVIOUS
    <3>1. list[k].fail_count = r[list[k].addr] /\ list[k].addr \in PeerAddr
      BY <1>0, <1>2 DEF Tells
    <3> QED  BY <1>1, <2>2, <3>1
  <2>6. \A b \in PeerAddr : r2[b] = 0 \/ (\E k \in DOMAIN list : new[k].addr = b)
    <3> SUFFICES ASSUME NEW b \in PeerAddr PROVE r2[b] = 0 \/ (\E k \in DOMAIN list : new[k].addr = b)
      OBVIOUS
    <3>1. CASE b = a
      BY <1>3, <2>2, <3>1
    <3>2. CASE b # a
      BY <1>1, <2>2, <3>2 DEF Tells
    <3> QED  BY <3>1, <3>2
  <2>7. \A k, l \in DOMAIN list : new[k].addr = new[l].addr => k = l
    BY <2>2 DEF Tells
  <2>8. Tells(new, r2)
    BY <2>3, <2>5, <2>6, <2>7 DEF Tells
  <2> QED  BY <2>1, <2>4, <2>8 DEF r2
<1>4. CASE ~ \E i \in DOMAIN list : list[i].addr = a
  <2> DEFINE e == NewEndpoint(a, ok)
             new == Append(list, e)
  <2>1. WithAddr(list, a, ok) = new
    BY <1>4 DEF WithAddr
  <2>2. e \in EpRec /\ e.addr = a /\ e.fail_count = IF ok THEN 0 ELSE More(0)
    BY NewEndpointShape
  <2> HIDE DEF e
  <2>3. /\ new \in Seq(EpRec) /\ DOMAIN new = 1..(Len(list) + 1)
        /\ new[Len(list) + 1] = e /\ \A k \in DOMAIN list : new[k] = list[k]
    BY <1>0, <2>2, AppendProperties
  <2> HIDE DEF new
  <2>4. \A k \in DOMAIN new : k \in DOMAIN list \/ k = Len(list) + 1
    BY <1>0, <2>3
  <2>5. r[a] = 0
    BY <1>4 DEF Tells
  <2>6. \A k, l \in DOMAIN new : new[k].addr = new[l].addr => k = l
    <3> SUFFICES ASSUME NEW k \in DOMAIN new, NEW l \in DOMAIN new, new[k].addr = new[l].addr
                 PROVE  k = l
      OBVIOUS
    <3>1. CASE k \in DOMAIN list /\ l \in DOMAIN list
      BY <2>3, <3>1 DEF Tells
    <3>2. CASE ~(k \in DOMAIN list /\ l \in DOMAIN list)
      BY <1>4, <2>2, <2>3, <2>4, <3>2
    <3> QED  BY <3>1, <3>2
  <2>7. \A k \in DOMAIN new : new[k].fail_count = r2[new[k].addr]
    <3> SUFFICES ASSUME NEW k \in DOMAIN new PROVE new[k].fail_count = r2[new[k].addr]
      OBVIOUS
    <3>1. CASE k \in DOMAIN list
      <4>1. list[k].addr # a /\ list[k].addr \in PeerAddr /\ list[k].fail_count = r[list[k].addr]
        BY <1>0, <1>2, <1>4, <3>1 DEF Tells
      <4> QED  BY <1>1, <2>3, <3>1, <4>1
    <3>2. CASE k = Len(list) + 1
      BY <1>1, <2>2, <2>3, <2>5, <3>2
    <3> QED  BY <2>4, <3>1, <3>2
  <2>8. \A b \in PeerAddr : r2[b] = 0 \/ (\E k \in DOMAIN new : new[k].addr = b)
    <3> SUFFICES ASSUME NEW b \in PeerAddr PROVE r2[b] = 0 \/ (\E k \in DOMAIN new : new[k].addr = b)
      OBVIOUS
    <3>1. CASE b = a
      <4>1. Len(list) + 1 \in DOMAIN new
        BY <1>0, <2>3
      <4> QED  BY <2>2, <2>3, <3>1, <4>1
    <3>2. CASE b # a
      <4>1. \A k \in DOMAIN list : k \in DOMAIN new
        BY <1>0, <2>3
      <4> QED  BY <1>1, <2>3, <3>2, <4>1 DEF Tells
    <3> QED  BY <3>1, <3>2
  <2>9. Tells(new, r2)
    BY <2>6, <2>7, <2>8 DEF Tells
  <2> QED  BY <2>1, <2>3, <2>9 DEF r2
<1> QED  BY <1>3, <1>4

\* What prune() does to the entries of a node: a dropped address counts from nought again.
LEMMA UsableTells ==
  ASSUME NEW list \in Seq(EpRec), NEW r \in [PeerAddr -> 0..MaxCount], Tells(list, r),
         NEW r2 \in [PeerAddr -> 0..MaxCount],
         \A a \in PeerAddr : r2[a] = IF \E k \in DOMAIN Usable(list) : Usable(list)[k].addr = a
                                     THEN r[a] ELSE 0
  PROVE  Tells(Usable(list), r2)
<1> DEFINE u == Usable(list)
<1>1. u \in Seq(EpRec)
  BY UsableShape
<1>2. PICK f \in [DOMAIN u -> DOMAIN list] :
              /\ \A k \in DOMAIN u : u[k] = list[f[k]]
              /\ \A k, l \in DOMAIN u : f[k] = f[l] => k = l
  BY UsableShape
<1> HIDE DEF u
<1>3. \A k, l \in DOMAIN u : u[k].addr = u[l].addr => k = l
  BY <1>2 DEF Tells
<1>4. \A k \in DOMAIN u : u[k].addr \in PeerAddr /\ u[k].fail_count = r[u[k].addr]
  <2>1. \A k \in DOMAIN u : u[k] \in EpRec
    BY <1>1
  <2>2. \A e \in EpRec : e.addr \in PeerAddr
    BY DEF EpRec
  <2> QED  BY <1>2, <2>1, <2>2 DEF Tells
<1>5. \A k \in DOMAIN u : u[k].fail_count = r2[u[k].addr]
  BY <1>4 DEF u
<1>6. \A a \in PeerAddr : r2[a] = 0 \/ (\E k \in DOMAIN u : u[k].addr = a)
  BY DEF u
<1> QED  BY <1>3, <1>5, <1>6 DEF Tells, u

LEMMA CacheInit == PKInit => CacheInv
<1> SUFFICES ASSUME PKInit PROVE CacheInv
  OBVIOUS
<1>1. nodes = <<>> /\ DOMAIN nodes = {} /\ nodes \in Seq(PeerNode)
  BY EmptySeq DEF PKInit
<1>2. now \in 1..MaxTime
  BY CacheNat DEF PKInit
<1>3. row \in [PeerId -> [PeerAddr -> 0..MaxCount]] /\ \A n \in PeerId, a \in PeerAddr : row[n][a] = 0
  BY CacheNat DEF PKInit
<1> QED  BY <1>1, <1>2, <1>3 DEF CacheInv, PKTypeOK

\* The types of the entries follow from the shape of the list.
LEMMA NodesTyped ==
  ASSUME NEW q \in Seq(PeerNode), NEW t \in Nat, t \in 1..MaxTime,
         \A i \in DOMAIN q : q[i].last_seen \in 1..t
  PROVE  \A i \in DOMAIN q :
           /\ q[i].id \in PeerId /\ q[i].last_seen \in 1..t
           /\ \A j \in DOMAIN q[i].endpoints : LET e == q[i].endpoints[j] IN
                e.addr \in PeerAddr /\ {e.success_count, e.fail_count} \subseteq 0..MaxCount
<1> SUFFICES ASSUME NEW i \in DOMAIN q
             PROVE  /\ q[i].id \in PeerId
                    /\ \A j \in DOMAIN q[i].endpoints : LET e == q[i].endpoints[j] IN
                         e.addr \in PeerAddr /\ {e.success_count, e.fail_count} \subseteq 0..MaxCount
  OBVIOUS
<1>1. q[i] \in PeerNode
  OBVIOUS
<1>2. q[i].id \in PeerId /\ q[i].endpoints \in Seq(EpRec)
  BY <1>1 DEF PeerNode
<1>3. \A j \in DOMAIN q[i].endpoints : q[i].endpoints[j] \in EpRec
  BY <1>2
<1>4. \A e \in EpRec : e.addr \in PeerAddr /\ {e.success_count, e.fail_count} \subseteq 0..MaxCount
  BY DEF EpRec
<1> QED  BY <1>2, <1>3, <1>4

LEMMA UpsertKeeps ==
  ASSUME CacheInv, NEW n \in PeerId, NEW a \in PeerAddr, NEW ok \in BOOLEAN, Upsert(n, a, ok)
  PROVE  CacheInv'
<1> DEFINE r2 == [row[n] EXCEPT ![a] = IF ok THEN 0 ELSE More(@)]
<1>0. /\ now \in 1..MaxTime /\ now \in Nat /\ now' = now
      /\ Len(nodes) \in Nat /\ DOMAIN nodes = 1..Len(nodes)
      /\ \A i \in DOMAIN nodes : nodes[i] \in PeerNode /\ nodes[i].last_seen \in 1..now
  <2>1. now \in 1..MaxTime /\ now \in Nat /\ now' = now
    <3>1. now' = now
      BY DEF Upsert
    <3>2. now \in 1..MaxTime
      BY DEF CacheInv, PKTypeOK
    <3> QED  BY <3>1, <3>2, CacheNat
  <2>2. \A i \in DOMAIN nodes : nodes[i].last_seen \in 1..now
    BY DEF CacheInv, PKTypeOK
  <2>3. nodes \in Seq(PeerNode)
    BY DEF CacheInv
  <2> QED  BY <2>1, <2>2, <2>3
<1>1. \A x \in PeerNode : x.id \in PeerId /\ x.endpoints \in Seq(EpRec) /\ x.last_seen \in Nat
  BY DEF PeerNode
<1>2. row[n] \in [PeerAddr -> 0..MaxCount] /\ 0 \in 0..MaxCount
  BY CacheNat DEF CacheInv
<1>3. row[n][a] \in 0..MaxCount /\ More(row[n][a]) \in 0..MaxCount
  BY <1>2, MoreShape
<1>4. r2 \in [PeerAddr -> 0..MaxCount]
  BY <1>2, <1>3
<1>5. row' = [row EXCEPT ![n] = r2]
  BY DEF Upsert
<1> HIDE DEF r2
<1>6. /\ row' \in [PeerId -> [PeerAddr -> 0..MaxCount]]
      /\ row'[n] = r2 /\ \A m \in PeerId : m # n => row'[m] = row[m]
  BY <1>4, <1>5 DEF CacheInv
<1>7. CASE \E i \in DOMAIN nodes : nodes[i].id = n
  <2> DEFINE new == [i \in DOMAIN nodes |-> IF nodes[i].id # n THEN nodes[i]
                       ELSE [nodes[i] EXCEPT !.endpoints = WithAddr(@, a, ok), !.last_seen = now]]
  <2>1. nodes' = new
    BY <1>7 DEF Upsert
  <2>2. \A i \in DOMAIN nodes : nodes[i].id # n => new[i] = nodes[i]
    OBVIOUS
  <2>3. ASSUME NEW i \in DOMAIN nodes, nodes[i].id = n
        PROVE  /\ new[i] \in PeerNode /\ new[i].id = n /\ new[i].last_seen = now
               /\ Tells(new[i].endpoints, r2)
    <3>1. nodes[i] \in PeerNode /\ nodes[i].endpoints \in Seq(EpRec) /\ Tells(nodes[i].endpoints, row[n])
      BY <1>0, <1>1, <2>3 DEF CacheInv
    <3>2. /\ WithAddr(nodes[i].endpoints, a, ok) \in Seq(EpRec)
          /\ Tells(WithAddr(nodes[i].endpoints, a, ok), r2)
      BY <1>0, <1>2, <3>1, WithAddrTells DEF r2
    <3>3. new[i] = [nodes[i] EXCEPT !.endpoints = WithAddr(nodes[i].endpoints, a, ok), !.last_seen = now]
      BY <2>3
    <3> HIDE DEF new
    <3>4. /\ new[i] \in PeerNode /\ new[i].id = n /\ new[i].last_seen = now
          /\ new[i].endpoints = WithAddr(nodes[i].endpoints, a, ok)
      BY <1>0, <2>3, <3>1, <3>2, <3>3 DEF PeerNode
    <3> QED  BY <3>2, <3>4
  <2>4. DOMAIN new = DOMAIN nodes /\ new = [i \in 1..Len(nodes) |-> new[i]]
    BY <1>0
  <2> HIDE DEF new
  <2>5. \A i \in DOMAIN nodes : /\ new[i] \in PeerNode /\ new[i].id = nodes[i].id
                                /\ new[i].last_seen \in 1..now
    <3> SUFFICES ASSUME NEW i \in DOMAIN nodes
                 PROVE  new[i] \in PeerNode /\ new[i].id = nodes[i].id /\ new[i].last_seen \in 1..now
      OBVIOUS
    <3>1. CASE nodes[i].id = n
      BY <1>0, <2>3, <3>1
    <3>2. CASE nodes[i].id # n
      BY <1>0, <2>2, <3>2
    <3> QED  BY <3>1, <3>2
  <2>6. new \in Seq(PeerNode)
    BY <1>0, <2>4, <2>5
  <2>7. \A i, j \in DOMAIN new : new[i].id = new[j].id => i = j
    BY <2>4, <2>5 DEF CacheInv
  <2>8. \A i \in DOMAIN new : Tells(new[i].endpoints, row'[new[i].id])
    <3> SUFFICES ASSUME NEW i \in DOMAIN nodes PROVE Tells(new[i].endpoints, row'[new[i].id])
      BY <2>4
    <3>1. CASE nodes[i].id = n
      BY <1>6, <2>3, <3>1
    <3>2. CASE nodes[i].id # n
      <4>1. nodes[i].id \in PeerId /\ Tells(nodes[i].endpoints, row[nodes[i].id])
        BY <1>0, <1>1 DEF CacheInv
      <4> QED  BY <1>6, <2>2, <3>2, <4>1
    <3> QED  BY <3>1, <3>2
  <2>9. ASSUME NEW m \in PeerId, \A i \in DOMAIN new : new[i].id # m
        PROVE  \A b \in PeerAddr : row'[m][b] = 0
    <3>1. \A i \in DOMAIN nodes : nodes[i].id # m
      BY <2>4, <2>5, <2>9
    <3>2. m # n
      BY <1>7, <3>1
    <3> QED  BY <1>6, <3>1, <3>2 DEF CacheInv
  <2>10. \A i \in DOMAIN new : new[i].last_seen \in 1..now
    BY <2>4, <2>5
  <2>11. PKTypeOK'
    BY <1>0, <2>1, <2>6, <2>10, NodesTyped DEF PKTypeOK
  <2> QED  BY <1>6, <2>1, <2>6, <2>7, <2>8, <2>9, <2>11 DEF CacheInv
<1>8. CASE ~ \E i \in DOMAIN nodes : nodes[i].id = n
  <2> DEFINE e == NewEndpoint(a, ok)
             x == [id |-> n, endpoints |-> <<e>>, last_seen |-> now]
             new == Append(nodes, x)
             top == Len(nodes) + 1
  <2>1. nodes' = new
    BY <1>8 DEF Upsert
  <2>2. e \in EpRec /\ e.addr = a /\ e.fail_count = IF ok THEN 0 ELSE More(0)
    BY <1>0, NewEndpointShape
  <2> HIDE DEF e
  <2>3. x \in PeerNode /\ x.id = n /\ x.endpoints = <<e>> /\ x.last_seen = now
    BY <1>0, <2>2 DEF PeerNode
  <2> HIDE DEF x
  <2>4. /\ new \in Seq(PeerNode) /\ DOMAIN new = 1..top
        /\ new[top] = x /\ \A i \in DOMAIN nodes : new[i] = nodes[i]
    BY <1>0, <2>3, AppendProperties DEF CacheInv
  <2> HIDE DEF new
  <2>5. top \in DOMAIN new /\ \A i \in DOMAIN new : i \in DOMAIN nodes \/ i = top
    BY <1>0, <2>4
  <2>6. \A i \in DOMAIN nodes : i \in DOMAIN new
    BY <1>0, <2>4
  <2> HIDE DEF top
  <2>7. Tells(<<e>>, r2)
    <3>1. \A b \in PeerAddr : row[n][b] = 0
      BY <1>8 DEF CacheInv
    <3>2. r2[a] = (IF ok THEN 0 ELSE More(0)) /\ \A b \in PeerAddr : b # a => r2[b] = 0
      BY <1>2, <3>1 DEF r2
    <3>3. DOMAIN <<e>> = {1} /\ <<e>>[1] = e
      OBVIOUS
    <3> QED  BY <2>2, <3>2, <3>3 DEF Tells
  <2>8. \A i, j \in DOMAIN new : new[i].id = new[j].id => i = j
    <3> SUFFICES ASSUME NEW i \in DOMAIN new, NEW j \in DOMAIN new, new[i].id = new[j].id PROVE i = j
      OBVIOUS
    <3>1. CASE i \in DOMAIN nodes /\ j \in DOMAIN nodes
      BY <2>4, <3>1 DEF CacheInv
    <3>2. CASE ~(i \in DOMAIN nodes /\ j \in DOMAIN nodes)
      BY <1>8, <2>3, <2>4, <2>5, <3>2
    <3> QED  BY <3>1, <3>2
  <2>9. \A i \in DOMAIN new : Tells(new[i].endpoints, row'[new[i].id])
    <3> SUFFICES ASSUME NEW i \in DOMAIN new PROVE Tells(new[i].endpoints, row'[new[i].id])
      OBVIOUS
    <3>1. CASE i \in DOMAIN nodes
      <4>1. /\ nodes[i].id \in PeerId /\ nodes[i].id # n
            /\ Tells(nodes[i].endpoints, row[nodes[i].id])
        BY <1>0, <1>1, <1>8, <3>1 DEF CacheInv
      <4> QED  BY <1>6, <2>4, <3>1, <4>1
    <3>2. CASE i = top
      BY <1>6, <2>3, <2>4, <2>7, <3>2
    <3> QED  BY <2>5, <3>1, <3>2
  <2>10. ASSUME NEW m \in PeerId, \A i \in DOMAIN new : new[i].id # m
         PROVE  \A b \in PeerAddr : row'[m][b] = 0
    <3>1. m # n /\ \A i \in DOMAIN nodes : nodes[i].id # m
      BY <2>3, <2>4, <2>5, <2>6, <2>10
    <3> QED  BY <1>6, <3>1 DEF CacheInv
  <2>11. \A i \in DOMAIN new : new[i].last_seen \in 1..now
    <3> SUFFICES ASSUME NEW i \in DOMAIN new PROVE new[i].last_seen \in 1..now
      OBVIOUS
    <3>1. now \in 1..now
      BY <1>0
    <3> QED  BY <1>0, <2>3, <2>4, <2>5, <3>1
  <2>12. PKTypeOK'
    <3>1. \A i \in DOMAIN new :
            /\ new[i].id \in PeerId /\ new[i].last_seen \in 1..now
            /\ \A j \in DOMAIN new[i].endpoints : LET y == new[i].endpoints[j] IN
                 y.addr \in PeerAddr /\ {y.success_count, y.fail_count} \subseteq 0..MaxCount
      BY <1>0, <2>4, <2>11, NodesTyped
    <3> QED  BY <1>0, <2>1, <3>1 DEF PKTypeOK
  <2> QED  BY <1>6, <2>1, <2>4, <2>8, <2>9, <2>10, <2>12 DEF CacheInv
<1> QED  BY <1>7, <1>8

LEMMA PruneKeeps ==
  ASSUME CacheInv, NEW max \in 1..Cardinality(PeerId), Prune(max)
  PROVE  CacheInv'
<1> DEFINE left == [i \in DOMAIN nodes |-> [nodes[i] EXCEPT !.endpoints = Usable(@)]]
           I == {i \in DOMAIN left : Total(left[i]) > 0 /\ now - left[i].last_seen < Week}
           K == Only(left, I)
           N == Least(max, Len(K))
<1>1. /\ now \in 1..MaxTime /\ now \in Nat /\ now' = now
      /\ \A i \in DOMAIN nodes : nodes[i].last_seen \in 1..now
  <2>1. now \in 1..MaxTime /\ now \in Nat /\ now' = now
    BY CacheNat DEF CacheInv, PKTypeOK, Prune
  <2>2. \A i \in DOMAIN nodes : nodes[i].last_seen \in 1..now
    BY DEF CacheInv, PKTypeOK
  <2> QED  BY <2>1, <2>2
<1>2. nodes \in Seq(PeerNode) /\ Len(nodes) \in Nat /\ DOMAIN nodes = 1..Len(nodes)
  BY DEF CacheInv
<1>3. \A i \in DOMAIN nodes : /\ nodes[i].id \in PeerId
                              /\ nodes[i].endpoints \in Seq(EpRec)
  <2>1. \A i \in DOMAIN nodes : nodes[i] \in PeerNode
    BY <1>2
  <2> QED  BY <2>1 DEF PeerNode
<1>4. \A i \in DOMAIN nodes : /\ left[i] \in PeerNode
                              /\ left[i].id = nodes[i].id /\ left[i].last_seen = nodes[i].last_seen
                              /\ left[i].endpoints = Usable(nodes[i].endpoints)
  <2> SUFFICES ASSUME NEW i \in DOMAIN nodes
               PROVE  /\ left[i] \in PeerNode
                      /\ left[i].id = nodes[i].id /\ left[i].last_seen = nodes[i].last_seen
                      /\ left[i].endpoints = Usable(nodes[i].endpoints)
    OBVIOUS
  <2>1. Usable(nodes[i].endpoints) \in Seq(EpRec)
    BY <1>3, UsableShape
  <2>2. left[i] = [nodes[i] EXCEPT !.endpoints = Usable(nodes[i].endpoints)] /\ nodes[i] \in PeerNode
    BY <1>2
  <2> HIDE DEF left
  <2> QED  BY <2>1, <2>2 DEF PeerNode
<1>5. DOMAIN left = DOMAIN nodes /\ left = [i \in 1..Len(nodes) |-> left[i]]
  BY <1>2
<1>6. Kept = K
  BY DEF Kept
<1> HIDE DEF left
<1>7. left \in Seq(PeerNode)
  BY <1>2, <1>4, <1>5
<1>8. I \in SUBSET DOMAIN left
  OBVIOUS
<1> HIDE DEF I
<1>9. K \in Seq(PeerNode) /\ Len(K) = Cardinality(I) /\ Len(K) \in Nat
  BY <1>7, <1>8, OnlyShape
<1>10. PICK f : Places(f, left, I)
  BY <1>7, <1>8, OnlyShape
<1> HIDE DEF K
<1>11. PICK p \in Rankings(K) : nodes' = [k \in 1..N |-> K[p[k]]]
  BY <1>6 DEF Prune
<1>12. N \in Nat /\ N <= Len(K) /\ max \in Nat
  <2>1. max \in Nat
    BY PeersFinite, FS_CardinalityType
  <2> QED  BY <1>9, <2>1 DEF Least
<1> DEFINE g == [k \in 1..N |-> f[p[k]]]
           new == [k \in 1..N |-> left[g[k]]]
<1>13. \A k \in 1..N : k \in 1..Len(K) /\ p[k] \in 1..Len(K) /\ p[k] \in 1..Cardinality(I)
  <2>1. p \in [1..Len(K) -> 1..Len(K)]
    BY <1>9, RankingShape
  <2> QED  BY <1>9, <1>12, <2>1
<1>14. \A k \in 1..N : g[k] \in DOMAIN nodes /\ K[p[k]] = left[g[k]]
  BY <1>5, <1>8, <1>10, <1>13 DEF Places, K
<1>15. \A k, l \in 1..N : g[k] = g[l] => k = l
  <2> SUFFICES ASSUME NEW k \in 1..N, NEW l \in 1..N, f[p[k]] = f[p[l]] PROVE k = l
    OBVIOUS
  <2>1. p[k] = p[l]
    BY <1>10, <1>13 DEF Places
  <2> QED  BY <1>9, <1>13, <2>1, RankingShape
<1>16. nodes' = new
  BY <1>11, <1>14
<1> HIDE DEF g, N
<1>17. \A k \in 1..N : /\ new[k] \in PeerNode
                       /\ new[k].id = nodes[g[k]].id /\ new[k].last_seen \in 1..now
                       /\ new[k].endpoints = Usable(nodes[g[k]].endpoints)
  BY <1>1, <1>4, <1>14
<1>18. DOMAIN new = 1..N
  OBVIOUS
<1>19. new \in Seq(PeerNode)
  BY <1>12, <1>17
<1> HIDE DEF new
<1>20. \A k, l \in DOMAIN new : new[k].id = new[l].id => k = l
  <2> SUFFICES ASSUME NEW k \in 1..N, NEW l \in 1..N, new[k].id = new[l].id PROVE k = l
    BY <1>18
  <2>1. g[k] = g[l]
    BY <1>14, <1>17 DEF CacheInv
  <2> QED  BY <1>15, <2>1
<1>21. \A m \in PeerId, a \in PeerAddr :
         row'[m][a] = IF \E i \in DOMAIN new : new[i].id = m
                           /\ \E j \in DOMAIN new[i].endpoints : new[i].endpoints[j].addr = a
                      THEN row[m][a] ELSE 0
  BY <1>16 DEF Prune
<1>22. row' \in [PeerId -> [PeerAddr -> 0..MaxCount]]
  <2>1. row' = [m \in PeerId |-> [a \in PeerAddr |->
                 IF \E i \in DOMAIN nodes' : nodes'[i].id = m
                      /\ \E j \in DOMAIN nodes'[i].endpoints : nodes'[i].endpoints[j].addr = a
                 THEN row[m][a] ELSE 0]]
    BY DEF Prune
  <2>2. \A m \in PeerId, a \in PeerAddr : row[m][a] \in 0..MaxCount
    BY DEF CacheInv
  <2>3. 0 \in 0..MaxCount
    BY CacheNat
  <2> QED  BY <2>1, <2>2, <2>3
<1>23. \A k \in DOMAIN new : Tells(new[k].endpoints, row'[new[k].id])
  <2> SUFFICES ASSUME NEW k \in 1..N PROVE Tells(new[k].endpoints, row'[new[k].id])
    BY <1>18
  <2> DEFINE list == nodes[g[k]].endpoints
             m == nodes[g[k]].id
  <2>1. /\ list \in Seq(EpRec) /\ m \in PeerId /\ Tells(list, row[m])
        /\ new[k].id = m /\ new[k].endpoints = Usable(list)
    BY <1>3, <1>14, <1>17 DEF CacheInv
  <2> HIDE DEF list, m
  <2>2. row[m] \in [PeerAddr -> 0..MaxCount] /\ row'[m] \in [PeerAddr -> 0..MaxCount]
    BY <1>22, <2>1 DEF CacheInv
  <2>3. \A i \in DOMAIN new : new[i].id = m => i = k
    BY <1>18, <1>20, <2>1
  <2>4. \A a \in PeerAddr : row'[m][a] = IF \E j \in DOMAIN Usable(list) : Usable(list)[j].addr = a
                                         THEN row[m][a] ELSE 0
    <3> SUFFICES ASSUME NEW a \in PeerAddr
                 PROVE  row'[m][a] = IF \E j \in DOMAIN Usable(list) : Usable(list)[j].addr = a
                                     THEN row[m][a] ELSE 0
      OBVIOUS
    <3>1. (\E i \in DOMAIN new : new[i].id = m
             /\ \E j \in DOMAIN new[i].endpoints : new[i].endpoints[j].addr = a)
          <=> (\E j \in DOMAIN Usable(list) : Usable(list)[j].addr = a)
      BY <1>18, <2>1, <2>3
    <3> QED  BY <1>21, <2>1, <3>1
  <2>5. Tells(Usable(list), row'[m])
    BY <2>1, <2>2, <2>4, UsableTells
  <2> QED  BY <2>1, <2>5
<1>24. ASSUME NEW m \in PeerId, \A i \in DOMAIN new : new[i].id # m
       PROVE  \A a \in PeerAddr : row'[m][a] = 0
  BY <1>21, <1>24
<1>25. PKTypeOK'
  <2>1. \A i \in DOMAIN new :
          /\ new[i].id \in PeerId /\ new[i].last_seen \in 1..now
          /\ \A j \in DOMAIN new[i].endpoints : LET y == new[i].endpoints[j] IN
               y.addr \in PeerAddr /\ {y.success_count, y.fail_count} \subseteq 0..MaxCount
    BY <1>1, <1>17, <1>18, <1>19, NodesTyped
  <2> QED  BY <1>1, <1>16, <2>1 DEF PKTypeOK
<1> QED  BY <1>16, <1>19, <1>20, <1>22, <1>23, <1>24, <1>25 DEF CacheInv

LEMMA CacheStep == CacheInv /\ [PKNext]_pkvars => CacheInv'
<1> SUFFICES ASSUME CacheInv, [PKNext]_pkvars PROVE CacheInv'
  OBVIOUS
<1>1. CASE Later
  <2>1. now \in Nat /\ MaxTime \in Nat /\ now' = now + 1 /\ now' \in 1..MaxTime
    BY <1>1, CacheNat DEF CacheInv, PKTypeOK, Later
  <2>2. nodes' = nodes /\ row' = row
    BY <1>1 DEF Later
  <2>3. \A i \in DOMAIN nodes : nodes[i].last_seen \in 1..now'
    BY <2>1 DEF CacheInv, PKTypeOK
  <2>4. PKTypeOK'
    BY <2>1, <2>2, <2>3 DEF CacheInv, PKTypeOK
  <2> QED  BY <2>2, <2>4 DEF CacheInv
<1>2. ASSUME NEW n \in PeerId, NEW a \in PeerAddr, NEW ok \in BOOLEAN, Upsert(n, a, ok)
      PROVE  CacheInv'
  BY <1>2, UpsertKeeps
<1>3. ASSUME NEW max \in 1..Cardinality(PeerId), Prune(max) PROVE CacheInv'
  BY <1>3, PruneKeeps
<1>4. CASE UNCHANGED pkvars
  BY <1>4 DEF pkvars, CacheInv, PKTypeOK
<1> QED  BY <1>1, <1>2, <1>3, <1>4 DEF PKNext

\* What top_addrs() leaves out worked no more often than what it names.
LEMMA BestKept == CacheInv => FailuresInARow /\ BestAreKept
<1> SUFFICES ASSUME CacheInv PROVE FailuresInARow /\ BestAreKept
  OBVIOUS
<1>1. FailuresInARow
  BY DEF CacheInv, FailuresInARow, Tells
<1>2. nodes \in Seq(PeerNode) /\ \A i \in DOMAIN nodes : nodes[i] \in PeerNode
  BY DEF CacheInv
<1>3. \A i \in DOMAIN nodes : LET some == Usable(nodes[i].endpoints) # <<>> IN
        Cardinality(BestAddr(nodes[i])) = IF some THEN 1 ELSE 0
  BY <1>2, BestShape
<1>4. ASSUME NEW n \in 1..Cardinality(PeerId), NEW i \in DOMAIN nodes, BestAddr(nodes[i]) # {}
      PROVE  \/ \E k \in DOMAIN TopAddrs(n) : TopAddrs(n)[k] = nodes[i]
             \/ /\ Len(TopAddrs(n)) = n
                /\ \A k \in 1..n : Total(TopAddrs(n)[k]) >= Total(nodes[i])
  <2> DEFINE I == {j \in DOMAIN nodes : BestAddr(nodes[j]) # {}}
             list == Only(nodes, I)
             p == CHOOSE q \in Rankings(list) : TRUE
             N == Least(n, Len(list))
             top == [k \in 1..N |-> list[p[k]]]
  <2>1. TopAddrs(n) = top
    BY DEF TopAddrs
  <2>2. I \in SUBSET DOMAIN nodes /\ i \in I
    BY <1>4
  <2> HIDE DEF I
  <2>3. list \in Seq(PeerNode) /\ Len(list) = Cardinality(I) /\ Len(list) \in Nat
    BY <1>2, <2>2, OnlyShape
  <2>4. PICK f : Places(f, nodes, I)
    BY <1>2, <2>2, OnlyShape
  <2>5. PICK m \in 1..Len(list) : list[m] = nodes[i]
    BY <2>2, <2>3, <2>4 DEF Places
  <2> HIDE DEF list
  <2>6. p \in Rankings(list)
    BY <2>3, RankingExists
  <2> HIDE DEF p
  <2>7. PICK k \in 1..Len(list) : p[k] = m
    BY <2>3, <2>6, RankingShape
  <2>8. n \in Nat
    BY PeersFinite, FS_CardinalityType
  <2>9. N \in Nat /\ N <= n /\ N <= Len(list) /\ (N = n \/ N = Len(list))
    BY <2>3, <2>8 DEF Least
  <2> HIDE DEF N
  <2>10. DOMAIN top = 1..N /\ \A l \in 1..N : top[l] = list[p[l]]
    OBVIOUS
  <2>11. CASE k <= N
    <3>1. k \in DOMAIN top /\ top[k] = nodes[i]
      BY <2>3, <2>5, <2>7, <2>9, <2>10, <2>11
    <3> QED  BY <2>1, <3>1
  <2>12. CASE ~(k <= N)
    <3>1. N = n /\ n < k
      BY <2>3, <2>8, <2>9, <2>12
    <3>2. Len(top) = n
      BY <2>9, <3>1
    <3>3. \A l \in 1..n : Total(top[l]) >= Total(nodes[i])
      <4> SUFFICES ASSUME NEW l \in 1..n PROVE Total(list[p[l]]) >= Total(list[p[k]])
        BY <2>5, <2>7, <2>10, <3>1
      <4>1. l \in 1..Len(list) /\ l < k
        BY <2>3, <2>8, <2>9, <3>1
      <4> QED  BY <2>3, <2>6, <4>1, RankingShape
    <3> QED  BY <2>1, <3>2, <3>3
  <2> QED  BY <2>3, <2>9, <2>11, <2>12
<1>5. BestAreKept
  BY <1>3, <1>4 DEF BestAreKept
<1> QED  BY <1>1, <1>5

\* An address is left out of the recommendations after FailLimit failures in a row and
\* for nothing else, and a peer that is left out worked no more often than those named
\* (peer_cache.rs:217-256), whatever the order of calls and prunings.
THEOREM RecommendationsHold == PKSpec => [](PKTypeOK /\ FailuresInARow /\ BestAreKept)
<1>1. CacheInv => PKTypeOK /\ FailuresInARow /\ BestAreKept
  BY BestKept DEF CacheInv
<1> QED  BY <1>1, CacheInit, CacheStep, PTL DEF PKSpec

-----------------------------------------------------------------------------
(* All parts *)

ReachPartsInv == ReachInv /\ DiscoveryInv /\ CacheInv /\ BenchInv

\* A step of the whole is for each part one of its own or none.
LEMMA StepOfEachPart ==
  ASSUME [MCNext]_mcvars
  PROVE  [RCNext]_rcvars /\ [NDNext]_ndvars /\ [PKNext]_pkvars /\ [BNNext]_bnvars
<1>1. CASE UNCHANGED mcvars
  BY <1>1 DEF mcvars, peervars
<1>2. CASE UNCHANGED peervars
  BY <1>2 DEF peervars
<1>3. CASE PeerPart
  BY <1>3 DEF PeerPart, NDNext
<1> QED  BY <1>1, <1>2, <1>3 DEF MCNext

\* Whichever part moves, what finds and reaches peers and the load generator are safe: a
\* connect() gives up only after all addresses, a peer is reported once per window, the
\* cache recommends what worked and the report of a test adds up.
THEOREM ReachIsSafe == MCSpec => []ReachSafe
<1>1. MCInit => ReachPartsInv
  BY ReachInit, DiscoveryInit, CacheInit, BenchInit DEF MCInit, ReachPartsInv
<1>2. ReachPartsInv /\ [MCNext]_mcvars => ReachPartsInv'
  BY StepOfEachPart, ReachStep, DiscoveryStep, CacheStep, BenchStep DEF ReachPartsInv
<1>3. ReachPartsInv => ReachSafe
  <2>1. ReachInv => RCTypeOK /\ FailsOnlyAfterAll /\ StatsTellResults
    BY DEF ReachInv, TriedInv, StatsInv, AllTried, Served, FailsOnlyAfterAll, StatsTellResults
  <2>2. DiscoveryInv => NDTypeOK /\ OncePerWindow /\ IfaceFollows /\ BrokersAreTried
    BY MqttNat DEF DiscoveryInv, WindowInv, FaceInv, BrokerInv, OncePerWindow, BrokersAreTried
  <2>3. CacheInv => PKTypeOK /\ FailuresInARow /\ BestAreKept
    BY BestKept DEF CacheInv
  <2>4. BenchInv => BNTypeOK /\ ReportAddsUp
    BY ReportIsExact DEF BenchInv
  <2> QED  BY <2>1, <2>2, <2>3, <2>4 DEF ReachPartsInv, ReachSafe
<1> QED  BY <1>1, <1>2, <1>3, PTL DEF MCSpec
=============================================================================
