------------------------------ MODULE Boot_proof ------------------------------
(***************************************************************************)
(* However many goroutines ask for a handler, and in whichever way, each      *)
(* collector is made once and no handler is returned before all collectors    *)
(* are registered, also while the server boots; and with TLS on, nobody is    *)
(* answered without a certificate of the CA: for any number of connections,   *)
(* callers and changes of files.                                              *)
(***************************************************************************)
EXTENDS Boot, TLAPS

-----------------------------------------------------------------------------
(* Metrics: the registration.                                               *)

USE CallerAssumption DEF CallerAssumption

\* The registry that a kind of registration does not touch.
Rest(k) == IF k = "own" THEN "default" ELSE "own"

\* What a caller inside f has registered so far.
Before(p) == IF p = "lldp" THEN {}
             ELSE IF p = "network" THEN {"lldp"}
             ELSE IF p = "disk" THEN {"lldp", "network"}
             ELSE Collector

Inside == {"lldp", "network", "disk", "end"}

\* The registries and the variable when a registration of kind k is at p.
At(k, p) == /\ registered[k] = Before(p)
            /\ registered[Rest(k)] = {}
            /\ variable = IF k = "own" THEN "own" ELSE "nil"

\* Only the caller in the Once is inside f.
OnceInv == \A c \in Caller : pc[c] \in Inside <=> once = c

\* The registries follow the one registration there is.
RegistryInv ==
    /\ once = "open" => variable = "nil" /\ \A k \in {"own", "default"} : registered[k] = {}
    /\ once \in Caller => At(Kind(once), pc[once])
    /\ once = "done" => \E c \in Caller : At(Kind(c), "end")

\* A collector is made when it is registered.
MadeInv ==
    \A k \in Collector :
        made[k] = IF k \in registered["own"] \cup registered["default"] THEN 1 ELSE 0

\* Handlers are made when the registration is over.
HandlerInv ==
    \A c \in Caller :
        /\ pc[c] = "make" => once = "done"
        /\ handler[c] # "none" =>
              /\ once = "done"
              /\ handler[c] = IF Kind(c) = "own" THEN variable ELSE "default"

MInv == MTypeOK /\ OnceInv /\ RegistryInv /\ MadeInv /\ HandlerInv

-----------------------------------------------------------------------------
\* A registration is of one of the two kinds, which are each other's rest.
LEMMA Kinds ==
    \A c \in Caller : Kind(c) \in {"own", "default"} /\ Rest(Kind(c)) \in {"own", "default"}
                      /\ Rest(Kind(c)) # Kind(c)
BY DEF Kind, Rest

\* The invariant holds at the start.
LEMMA MInvInit == MInit => MInv
<1> SUFFICES ASSUME MInit PROVE MInv
  OBVIOUS
<1> USE DEF MInit
<1>1. MTypeOK
  BY DEF MTypeOK, Function, Registry, Collector
<1>2. OnceInv
  BY DEF OnceInv, Inside
<1>3. RegistryInv
  BY DEF RegistryInv
<1>4. MadeInv
  BY DEF MadeInv, Collector
<1>5. HandlerInv
  BY DEF HandlerInv
<1> QED BY <1>1, <1>2, <1>3, <1>4, <1>5 DEF MInv

\* Every step of a caller keeps it.
LEMMA MInvStep == ASSUME MInv, NEW c \in Caller, Step(c) PROVE MInv'
<1> USE DEF MInv
<1>t. MTypeOK
  OBVIOUS
<1>k. op' = op
  BY DEF Step, NoAddress, FirstDo, LaterDo, Register, EndOfDo, MakeHandler
<1>d. \A d \in Caller : Kind(d)' = Kind(d)
  BY <1>k DEF Kind
<1>1. CASE NoAddress(c) \/ LaterDo(c)
  <2> USE <1>1 DEF NoAddress, LaterDo
  <2>1. MTypeOK'
    BY <1>t DEF MTypeOK
  <2>2. OnceInv'
    BY <1>t DEF MTypeOK, OnceInv, Inside
  <2>3. RegistryInv'
    <3>1. ASSUME once \in Caller PROVE At(Kind(once), pc[once])'
      <4>1. At(Kind(once), pc[once]) /\ once # c
        BY <3>1 DEF RegistryInv, OnceInv, Inside
      <4>2. Kind(once)' = Kind(once) /\ pc'[once] = pc[once]
        BY <1>t, <1>d, <3>1, <4>1 DEF MTypeOK
      <4> QED BY <4>1, <4>2 DEF At
    <3>2. ASSUME once = "done" PROVE \E d \in Caller : At(Kind(d), "end")'
      BY <1>d, <3>2 DEF RegistryInv, At
    <3> QED BY <3>1, <3>2 DEF RegistryInv
  <2>4. MadeInv'
    BY DEF MadeInv
  <2>5. HandlerInv'
    BY <1>t, <1>d DEF MTypeOK, HandlerInv
  <2> QED BY <2>1, <2>2, <2>3, <2>4, <2>5
<1>2. CASE FirstDo(c)
  <2> USE <1>2 DEF FirstDo
  <2>1. MTypeOK'
    BY <1>t DEF MTypeOK, Collector
  <2>2. OnceInv'
    BY <1>t DEF MTypeOK, OnceInv, Inside
  <2>3. RegistryInv'
    <3>1. once' = c /\ pc'[c] = "lldp" /\ Kind(c)' = Kind(c)
      BY <1>t, <1>d DEF MTypeOK
    <3>2. \A k \in {"own", "default"} : registered[k] = {}
      BY DEF RegistryInv
    <3>3. variable' = IF Kind(c) = "own" THEN "own" ELSE "nil"
      BY DEF RegistryInv
    <3>4. At(Kind(c), "lldp")'
      BY <3>1, <3>2, <3>3, Kinds DEF At, Before
    <3> QED BY <3>1, <3>4 DEF RegistryInv
  <2>4. MadeInv'
    BY DEF MadeInv
  <2>5. HandlerInv'
    BY <1>t, <1>d DEF MTypeOK, HandlerInv
  <2> QED BY <2>1, <2>2, <2>3, <2>4, <2>5
<1>3. ASSUME NEW k \in Collector, NEW following \in {"network", "disk", "end"},
             Register(c, k, following),
             Before(following) = Before(k) \cup {k}, k \notin Before(k)
      PROVE  MInv'
  <2> USE <1>3 DEF Register
  <2>1. once = c /\ once \in Caller
    BY DEF OnceInv, Inside, Collector
  <2>2. At(Kind(c), k)
    BY <2>1 DEF RegistryInv
  <2>3. At(Kind(c), following)'
    BY <1>t, <1>d, <2>2, Kinds DEF At, MTypeOK
  <2>4. /\ made[k] = 0
        /\ \A j \in Collector \ {k} : made'[j] = made[j]
        /\ made'[k] = 1
    BY <1>t, <2>2, Kinds DEF At, MadeInv, MTypeOK, Rest
  <2>5. MTypeOK'
    <3>1. made' \in [Collector -> 0 .. 1]
      BY <1>t, <2>4 DEF MTypeOK
    <3>2. pc' \in [Caller -> {"start", "end", "make", "returned"} \cup Collector]
      BY <1>t DEF MTypeOK, Collector
    <3>3. registered' \in [{"own", "default"} -> SUBSET Collector]
      BY <1>t, Kinds DEF MTypeOK
    <3> QED BY <1>t, <3>1, <3>2, <3>3 DEF MTypeOK
  <2>6. OnceInv'
    BY <1>t, <2>1 DEF MTypeOK, OnceInv, Inside
  <2>7. RegistryInv'
    <3>1. pc'[c] = following
      BY <1>t DEF MTypeOK
    <3> QED BY <2>1, <2>3, <3>1 DEF RegistryInv
  <2>8. registered'["own"] \cup registered'["default"]
          = (registered["own"] \cup registered["default"]) \cup {k}
    BY <1>t, Kinds DEF MTypeOK
  <2>9. MadeInv'
    BY <2>4, <2>8 DEF MadeInv
  <2>10. HandlerInv'
    BY <1>t, <2>1, <1>d DEF MTypeOK, HandlerInv
  <2> QED BY <2>5, <2>6, <2>7, <2>9, <2>10
<1>4. CASE EndOfDo(c)
  <2> USE <1>4 DEF EndOfDo
  <2>1. once = c /\ once \in Caller
    BY DEF OnceInv, Inside
  <2>2. At(Kind(c), "end")
    BY <2>1 DEF RegistryInv
  <2>3. MTypeOK'
    BY <1>t DEF MTypeOK
  <2>4. OnceInv'
    BY <1>t, <2>1 DEF MTypeOK, OnceInv, Inside
  <2>5. RegistryInv'
    BY <1>d, <2>1, <2>2 DEF RegistryInv, At
  <2>6. MadeInv'
    BY DEF MadeInv
  <2>7. HandlerInv'
    BY <1>t, <1>d, <2>1 DEF MTypeOK, HandlerInv
  <2> QED BY <2>3, <2>4, <2>5, <2>6, <2>7
<1>5. CASE MakeHandler(c)
  <2> USE <1>5 DEF MakeHandler
  <2>1. once = "done"
    BY DEF HandlerInv
  <2>2. MTypeOK'
    BY <1>t DEF MTypeOK, Registry
  <2>3. OnceInv'
    BY <1>t DEF MTypeOK, OnceInv, Inside
  <2>4. RegistryInv'
    BY <1>d, <2>1 DEF RegistryInv, At
  <2>5. MadeInv'
    BY DEF MadeInv
  <2>6. HandlerInv'
    BY <1>t, <1>d, <2>1 DEF MTypeOK, HandlerInv
  <2> QED BY <2>2, <2>3, <2>4, <2>5, <2>6
<1>6. CASE Register(c, "lldp", "network")
  BY <1>3, <1>6 DEF Before, Collector
<1>7. CASE Register(c, "network", "disk")
  BY <1>3, <1>7 DEF Before, Collector
<1>8. CASE Register(c, "disk", "end")
  BY <1>3, <1>8 DEF Before, Collector
<1> QED BY <1>1, <1>2, <1>4, <1>5, <1>6, <1>7, <1>8 DEF Step

\* The relations between the Once, the variable, the registries and the handlers
\* hold in every reachable state.
THEOREM Registration == MSpec => []MInv
<1>1. MInv /\ [\E c \in Caller : Step(c)]_mvars => MInv'
  <2> SUFFICES ASSUME MInv, [\E c \in Caller : Step(c)]_mvars PROVE MInv'
    OBVIOUS
  <2>1. CASE \E c \in Caller : Step(c)
    BY <2>1, MInvStep
  <2>2. CASE UNCHANGED mvars
    BY <2>2 DEF mvars, MInv, MTypeOK, OnceInv, RegistryInv, At, MadeInv, HandlerInv, Kind, Inside
  <2> QED BY <2>1, <2>2
<1> QED BY MInvInit, <1>1, PTL DEF MSpec

\* The type, and with it that no collector is made twice: a second MustRegister
\* of the same metrics would panic.
THEOREM RegisteredOnce == MSpec => []MTypeOK
<1>1. MInv => MTypeOK
  BY DEF MInv
<1> QED BY <1>1, Registration, PTL

\* A state with the invariant has complete handlers only.
LEMMA InvComplete == MInv => HandlersComplete
<1> SUFFICES ASSUME MInv, NEW c \in Caller, handler[c] # "none"
             PROVE  \/ Served(c) = Collector
                    \/ /\ Served(c) = {}
                       /\ \E d \in Caller : Kind(d) # Kind(c) /\ registered[Kind(d)] = Collector
  BY DEF HandlersComplete
<1>1. once = "done" /\ handler[c] = IF Kind(c) = "own" THEN variable ELSE "default"
  BY DEF MInv, HandlerInv
<1>2. PICK d \in Caller : At(Kind(d), "end")
  BY <1>1 DEF MInv, RegistryInv
<1>3. registered[Kind(d)] = Collector
  BY <1>2 DEF At, Before
<1>4. CASE Kind(d) = Kind(c)
  BY <1>1, <1>2, <1>3, <1>4 DEF At, Served, Kind
<1>5. CASE Kind(d) # Kind(c)
  <2>1. Served(c) = {}
    BY <1>1, <1>2, <1>5 DEF At, Served, Kind, Rest
  <2> QED BY <1>3, <1>5, <2>1
<1> QED BY <1>4, <1>5

\* A handler that is returned serves all collectors, unless the other kind of
\* registration was first.
THEOREM CompleteHandlers == MSpec => []HandlersComplete
BY Registration, InvComplete, PTL

-----------------------------------------------------------------------------
(* Boot: the TLS files and the connections.                                 *)

\* The part of the type the proof needs.
ConnTypeOK == /\ setting \in Setting
              /\ loaded \subseteq File
              /\ conn \in [Conn -> {"none", "queued", "handshake", "header", "answered", "closed"}]
              /\ speaks \in [Conn -> {"none", "plain", "anonymous", "foreign", "signed"}]
              /\ server \in [Conn -> {"none", "task", "metrics"}]

\* The files are in the TLS configuration before anybody is accepted.
LoadInv == setting.tls =>
              /\ phase = "pool" => {"cert", "key"} \subseteq loaded
              /\ phase = "serving" => loaded = File

\* A connection that was accepted came to a full configuration, and is past the
\* handshake only with a certificate of the CA.
ConnInv == \A c \in Conn :
    /\ conn[c] = "none" => server[c] = "none"
    /\ setting.tls /\ conn[c] \in {"handshake", "header", "answered"} => loaded = File
    /\ setting.tls /\ conn[c] = "header" => speaks[c] = "signed"

BInv == ConnTypeOK /\ LoadInv /\ ConnInv /\ OnlyVerified

-----------------------------------------------------------------------------
\* The invariant holds at the start.
LEMMA BInvInit == Init => BInv
BY DEF Init, BInv, ConnTypeOK, LoadInv, ConnInv, OnlyVerified, Setting, File

\* What main does keeps it: the handshakes' configuration is complete before the
\* first connection is accepted, and Fatal closes connections but answers none.
LEMMA BootKeeps == ASSUME BInv, Boot PROVE BInv'
<1> USE DEF BInv
<1>t. ConnTypeOK /\ LoadInv /\ ConnInv /\ OnlyVerified
  OBVIOUS
<1>1. ASSUME Fatal PROVE BInv'
  <2>1. ConnTypeOK'
    BY <1>t, <1>1 DEF Fatal, ConnTypeOK
  <2>2. LoadInv'
    BY <1>1 DEF Fatal, LoadInv
  <2>3. ConnInv'
    BY <1>t, <1>1 DEF Fatal, ConnInv, ConnTypeOK
  <2>4. OnlyVerified'
    BY <1>t, <1>1 DEF Fatal, OnlyVerified
  <2> QED BY <2>1, <2>2, <2>3, <2>4
<1>2. ASSUME NEW p \in File \cup {"user", "handler", "listen", "pair"}, Goto(p) PROVE BInv'
  BY <1>t, <1>2 DEF Goto, ConnTypeOK, LoadInv, ConnInv, OnlyVerified, connVars, File
<1>3. ASSUME phase = "listen", Goto(IF setting.tls THEN "pair" ELSE "serving") PROVE BInv'
  BY <1>t, <1>3 DEF Goto, ConnTypeOK, LoadInv, ConnInv, OnlyVerified, connVars
<1>4. CASE Registers
  BY <1>t, <1>4 DEF Registers, ConnTypeOK, LoadInv, ConnInv, OnlyVerified, connVars
<1>5. ASSUME NEW files \in SUBSET File, NEW now, NEW following, Load(files, now, following),
             setting.tls /\ following = "pool" => files = {"cert", "key"},
             setting.tls /\ following = "serving" => loaded \cup files = File
      PROVE  BInv'
  <2>1. ConnTypeOK'
    BY <1>t, <1>5 DEF Load, ConnTypeOK, connVars
  <2>2. LoadInv'
    BY <1>t, <1>5 DEF Load, LoadInv
  <2>3. loaded = File => loaded' = File
    BY <1>t, <1>5 DEF Load
  <2>4. ConnInv'
    BY <1>t, <1>5, <2>3 DEF Load, ConnInv, connVars
  <2>5. OnlyVerified'
    BY <1>t, <1>5, <2>3 DEF Load, OnlyVerified, connVars
  <2> QED BY <2>1, <2>2, <2>4, <2>5
<1>6. CASE Load({"cert", "key"}, "pair", "pool")
  BY <1>5, <1>6 DEF File
<1>7. CASE Load({"ca"}, "pool", "serving")
  <2>1. setting.tls => loaded \cup {"ca"} = File
    BY <1>t, <1>7 DEF Load, LoadInv, File, ConnTypeOK
  <2> QED BY <1>5, <1>7, <2>1 DEF File
<1>8. CASE (\E f \in File : CheckFails(f)) \/ UserFails \/ ListenFails
           \/ LoadFails({"cert", "key"}, "pair") \/ LoadFails({"ca"}, "pool")
  BY <1>1, <1>8 DEF CheckFails, UserFails, ListenFails, LoadFails
<1>9. CASE CheckFile("ca", "cert") \/ CheckFile("cert", "key") \/ CheckFile("key", "user")
           \/ CheckUser \/ HandlerMade
  BY <1>2, <1>9 DEF CheckFile, CheckUser, HandlerMade, File
<1>10. CASE Listen
  BY <1>3, <1>10 DEF Listen
<1> QED BY <1>4, <1>6, <1>7, <1>8, <1>9, <1>10 DEF Boot

\* What the files and the other goroutines do keeps it: it is about neither.
LEMMA OthersKeep == ASSUME BInv,
                           UNCHANGED <<setting, phase, loaded, connVars>>
                    PROVE  BInv'
BY DEF BInv, ConnTypeOK, LoadInv, ConnInv, OnlyVerified, connVars

\* What happens to a connection keeps it.
LEMMA ConnKeeps ==
    ASSUME BInv, NEW c \in Conn,
           \/ Connect(c) \/ Accept(c) \/ Handshake(c) \/ TooSlow(c)
           \/ Request(c, "task") \/ Request(c, "metrics")
    PROVE  BInv'
<1> USE DEF BInv
<1>t. ConnTypeOK /\ LoadInv /\ ConnInv /\ OnlyVerified
  OBVIOUS
<1>u. UNCHANGED <<setting, phase, loaded>>
  BY DEF Connect, Accept, Handshake, TooSlow, Request, bootVars
<1>l. LoadInv'
  BY <1>t, <1>u DEF LoadInv
<1>1. CASE Connect(c)
  <2>1. server[c] = "none" /\ conn'[c] = "queued" /\ UNCHANGED server
    BY <1>t, <1>1 DEF Connect, ConnInv, ConnTypeOK
  <2>2. \A d \in Conn \ {c} : conn'[d] = conn[d] /\ speaks'[d] = speaks[d]
    BY <1>t, <1>1 DEF Connect, ConnTypeOK
  <2>3. ConnTypeOK'
    BY <1>t, <1>u, <1>1 DEF Connect, ConnTypeOK
  <2>4. ConnInv'
    BY <1>t, <1>u, <2>1, <2>2 DEF ConnInv
  <2>5. OnlyVerified'
    BY <1>t, <1>u, <2>1, <2>2 DEF OnlyVerified
  <2> QED BY <1>l, <2>3, <2>4, <2>5
<1>2. CASE Accept(c)
  <2> USE <1>2 DEF Accept
  <2>1. ConnTypeOK'
    BY <1>t, <1>u DEF ConnTypeOK
  <2>2. setting.tls => loaded = File /\ conn'[c] = "handshake"
    BY <1>t DEF LoadInv, ConnTypeOK
  <2>3. conn'[c] # "none" /\ \A d \in Conn \ {c} : conn'[d] = conn[d]
    BY <1>t DEF ConnTypeOK
  <2>4. ConnInv'
    BY <1>t, <1>u, <2>2, <2>3 DEF ConnInv
  <2>5. OnlyVerified'
    BY <1>t, <1>u DEF OnlyVerified
  <2> QED BY <1>l, <2>1, <2>4, <2>5
<1>3. CASE Handshake(c) \/ TooSlow(c)
  <2> USE <1>3 DEF Handshake, TooSlow
  <2>1. ConnTypeOK'
    BY <1>t, <1>u DEF ConnTypeOK
  <2>2. /\ conn[c] \in {"handshake", "header"}
        /\ (conn'[c] = "header" /\ speaks[c] = "signed") \/ conn'[c] = "closed"
    BY <1>t DEF ConnTypeOK
  <2>3. \A d \in Conn \ {c} : conn'[d] = conn[d]
    BY <1>t DEF ConnTypeOK
  <2>4. ConnInv'
    BY <1>t, <1>u, <2>2, <2>3 DEF ConnInv
  <2>5. OnlyVerified'
    BY <1>t, <1>u DEF OnlyVerified
  <2> QED BY <1>l, <2>1, <2>4, <2>5
<1>4. ASSUME NEW by \in {"task", "metrics"}, Request(c, by) PROVE BInv'
  <2> USE <1>4 DEF Request
  <2>1. ConnTypeOK'
    BY <1>t, <1>u DEF ConnTypeOK
  <2>2. /\ conn[c] = "header"
        /\ conn'[c] \in {"answered", "closed"}
        /\ UNCHANGED speaks
    BY <1>t DEF ConnTypeOK
  <2>3. \A d \in Conn \ {c} : conn'[d] = conn[d] /\ server'[d] = server[d]
    BY <1>t DEF ConnTypeOK
  <2>4. setting.tls => loaded = File /\ speaks[c] = "signed"
    BY <1>t, <2>2 DEF ConnInv
  <2>5. ConnInv'
    BY <1>t, <1>u, <2>2, <2>3, <2>4 DEF ConnInv
  <2>6. OnlyVerified'
    BY <1>t, <1>u, <2>2, <2>3, <2>4 DEF OnlyVerified
  <2> QED BY <1>l, <2>1, <2>5, <2>6
<1> QED BY <1>1, <1>2, <1>3, <1>4

\* A configuration is complete before a connection is accepted, and a connection
\* is past its handshake only with a certificate, in every reachable state.
THEOREM Booting == Spec => []BInv
<1>1. BInv /\ [Next]_vars => BInv'
  <2> SUFFICES ASSUME BInv, [Next]_vars PROVE BInv'
    OBVIOUS
  <2>1. CASE Boot
    BY <2>1, BootKeeps
  <2>2. CASE \/ \E f \in File : Change(f)
             \/ \E c \in Caller \ {Main} : Other(c)
             \/ UNCHANGED vars
    BY <2>2, OthersKeep DEF Change, Other, vars, bootVars
  <2>3. CASE \E c \in Conn : \/ Connect(c) \/ Accept(c) \/ Handshake(c) \/ TooSlow(c)
                             \/ Request(c, "task") \/ Request(c, "metrics")
    BY <2>3, ConnKeeps
  <2> QED BY <2>1, <2>2, <2>3 DEF Next
<1> QED BY BInvInit, <1>1, PTL DEF Spec

\* With TLS on, task service and /metrics answer holders of a certificate only.
THEOREM Verified == Spec => []OnlyVerified
<1>1. BInv => OnlyVerified
  BY DEF BInv
<1> QED BY <1>1, Booting, PTL

-----------------------------------------------------------------------------
(* Metrics in Boot.                                                         *)

\* The boot of the server is one of the callers of Metrics, and the rest of what
\* happens leaves the registration alone.
THEOREM BootRegisters == Spec => MSpec
<1>1. Init => MInit
  BY DEF Init
<1>2. [Next]_vars => [\E c \in Caller : Step(c)]_mvars
  <2> SUFFICES ASSUME [Next]_vars PROVE (\E c \in Caller : Step(c)) \/ UNCHANGED mvars
    OBVIOUS
  <2>1. CASE Boot
    <3>1. CASE Registers
      BY <3>1, BootAssumption DEF Registers, BootAssumption
    <3>2. CASE ~Registers
      BY <2>1, <3>2 DEF Boot, CheckFile, CheckFails, CheckUser, UserFails, HandlerMade, Listen,
         ListenFails, Load, LoadFails, Goto, Fatal
    <3> QED BY <3>1, <3>2
  <2>2. CASE \E c \in Caller \ {Main} : Other(c)
    BY <2>2 DEF Other
  <2>3. CASE (\E f \in File : Change(f)) \/ UNCHANGED vars
    BY <2>3 DEF Change, vars, bootVars
  <2>4. ASSUME NEW c \in Conn,
               \/ Connect(c) \/ Accept(c) \/ Handshake(c) \/ TooSlow(c)
               \/ Request(c, "task") \/ Request(c, "metrics")
        PROVE  UNCHANGED mvars
    BY <2>4 DEF Connect, Accept, Handshake, TooSlow, Request, bootVars
  <2> QED BY <2>1, <2>2, <2>3, <2>4 DEF Next
<1> QED BY <1>1, <1>2, PTL DEF Spec, MSpec

\* Whoever asks for a handler while the server boots gets a complete one, main
\* too, unless the other kind of registration was first.
THEOREM CompleteAtBoot == Spec => []HandlersComplete
BY BootRegisters, CompleteHandlers, PTL

\* The type of what the proofs above do not need: the files, their changes and
\* main's place.
RestTypeOK ==
    /\ file \in [File -> Contents]
    /\ changes \in 0 .. MaxChange
    /\ phase \in File \cup {"user", "handler", "listen", "pair", "pool", "serving", "fatal"}

\* The state of the boot has its type, that of the registration with it.
THEOREM BootTypeCorrect == Spec => []TypeOK
<1>1. Init => RestTypeOK
  BY BootAssumption DEF Init, RestTypeOK, File, BootAssumption
<1>2. RestTypeOK /\ [Next]_vars => RestTypeOK'
  <2> SUFFICES ASSUME RestTypeOK, [Next]_vars PROVE RestTypeOK'
    OBVIOUS
  <2> USE DEF RestTypeOK
  <2>1. CASE Boot
    BY <2>1 DEF Boot, CheckFile, CheckFails, CheckUser, UserFails, Registers, HandlerMade,
       Listen, ListenFails, Load, LoadFails, Goto, Fatal, File
  <2>2. ASSUME NEW f \in File, Change(f) PROVE RestTypeOK'
    BY <2>2, BootAssumption DEF Change, BootAssumption
  <2>3. CASE \/ \E c \in Caller \ {Main} : Other(c)
             \/ \E c \in Conn : \/ Connect(c) \/ Accept(c) \/ Handshake(c) \/ TooSlow(c)
                                \/ Request(c, "task") \/ Request(c, "metrics")
             \/ UNCHANGED vars
    BY <2>3 DEF Other, Connect, Accept, Handshake, TooSlow, Request, vars, bootVars
  <2> QED BY <2>1, <2>2, <2>3 DEF Next
<1>3. MTypeOK /\ BInv /\ RestTypeOK => TypeOK
  BY DEF BInv, ConnTypeOK, RestTypeOK, TypeOK
<1> QED BY <1>1, <1>2, <1>3, BootRegisters, RegisteredOnce, Booting, PTL DEF Spec
=============================================================================
