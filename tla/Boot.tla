-------------------------------- MODULE Boot --------------------------------
(***************************************************************************)
(* From the command line to the first answer: main's checks (main.go), the   *)
(* handler for /metrics it asks for (Metrics), the loading of the TLS files  *)
(* (rpc/auth/Certification.go) and the listener Start opens                  *)
(* (rpc/server/server.go), while files change, other goroutines ask for      *)
(* handlers too and clients knock.                                           *)
(* The port is bound before the files are loaded: connections wait in the    *)
(* kernel's queue then, and end with the process if the loading fails.       *)
(***************************************************************************)
EXTENDS Metrics

CONSTANTS
    Main,      \* main's goroutine
    Conn,      \* connections
    Contents,  \* what the TLS files may be at first, a subset of Content
    MaxChange, \* bound on the changes of files
    Handlers   \* whether Start is given a handler for /metrics; main always does

File    == {"ca", "cert", "key"}
Content == {"absent", "broken", "good"} \* broken: unreadable, or not what it should be

ASSUME BootAssumption == /\ Main \in Caller
                         /\ Contents \subseteq Content
                         /\ MaxChange \in Nat
                         /\ Handlers \subseteq BOOLEAN

VARIABLES
    setting, \* the flags and the user: TLS, whether root may run it, the port is free
    file,    \* what each of the files is
    changes, \* changes of files so far
    phase,   \* where main is
    loaded,  \* the files in the TLS configuration
    conn,    \* where each connection is
    speaks,  \* history: what its client speaks: "plain" or TLS, with which certificate
    server   \* history: who answered its request

connVars == <<conn, speaks, server>>
bootVars == <<mvars, setting, file, changes, phase, loaded>>
vars == <<bootVars, connVars>>

Setting == [tls : BOOLEAN, root : BOOLEAN, allowRoot : BOOLEAN, free : BOOLEAN,
            handler : Handlers]

Init ==
    /\ MInit
    /\ op[Main] = "MetricsHandler"
    /\ setting \in Setting
    /\ file \in [File -> Contents]
    /\ changes = 0 /\ phase = "ca" /\ loaded = {}
    /\ conn = [c \in Conn |-> "none"]
    /\ speaks = [c \in Conn |-> "none"]
    /\ server = [c \in Conn |-> "none"]

-----------------------------------------------------------------------------
(* main: the three files, the user, the handler.                            *)

\* utils.FileExist: an error of os.Stat that says so; a file that cannot be
\* read can be asked about.
FileExist(f) == file[f] # "absent"

Goto(p) == phase' = p /\ UNCHANGED <<mvars, setting, file, changes, loaded, connVars>>

\* Fatal: the process ends, and with it the connections it or its queue holds.
Fatal ==
    /\ phase' = "fatal"
    /\ conn' = [c \in Conn |-> IF conn[c] = "none" THEN "none" ELSE "closed"]
    /\ UNCHANGED <<mvars, setting, file, changes, loaded, speaks, server>>

CheckFile(f, following) ==
    /\ phase = f
    /\ ~setting.tls \/ FileExist(f)
    /\ Goto(following)

\* Mutant of CheckFails: the flag is forgotten.
CheckFailsPlainToo(f) ==
    /\ phase = f
    /\ ~FileExist(f)
    /\ Fatal

CheckFails(f) ==
    /\ phase = f
    /\ setting.tls /\ ~FileExist(f)
    /\ Fatal

CheckUser  == phase = "user" /\ (setting.root => setting.allowRoot) /\ Goto("handler")
UserFails  == phase = "user" /\ setting.root /\ ~setting.allowRoot /\ Fatal

\* collector.MetricsHandler(), the argument of Start.
Registers   == /\ phase = "handler"
               /\ Step(Main)
               /\ UNCHANGED <<setting, file, changes, phase, loaded, connVars>>
HandlerMade == phase = "handler" /\ pc[Main] = "returned" /\ Goto("listen")

-----------------------------------------------------------------------------
(* Start.                                                                   *)

Listen      == phase = "listen" /\ setting.free /\ Goto(IF setting.tls THEN "pair" ELSE "serving")
ListenFails == phase = "listen" /\ ~setting.free /\ Fatal

\* GetTLSConfigForServer: the pair first, then the CA; either for the HTTP
\* server or, without a handler, for the gRPC server itself.
Load(files, now, following) ==
    /\ phase = now
    /\ \A f \in files : file[f] = "good"
    /\ loaded' = loaded \cup files
    /\ phase' = following
    /\ UNCHANGED <<mvars, setting, file, changes, connVars>>

\* Mutant of LoadFails: Start tries again.
LoadFailsRetries(files, now) ==
    /\ phase = now
    /\ \E f \in files : file[f] # "good"
    /\ UNCHANGED vars

\* Mutant of LoadFails: the error is logged, and Start goes on to wait for signals.
LoadFailsLogged(files, now) ==
    /\ phase = now
    /\ \E f \in files : file[f] # "good"
    /\ Goto("waiting")

LoadFails(files, now) ==
    /\ phase = now
    /\ \E f \in files : file[f] # "good"
    /\ Fatal

Boot == \/ CheckFile("ca", "cert") \/ CheckFile("cert", "key") \/ CheckFile("key", "user")
        \/ \E f \in File : CheckFails(f)
        \/ CheckUser \/ UserFails \/ Registers \/ HandlerMade \/ Listen \/ ListenFails
        \/ Load({"cert", "key"}, "pair", "pool") \/ LoadFails({"cert", "key"}, "pair")
        \/ Load({"ca"}, "pool", "serving") \/ LoadFails({"ca"}, "pool")

\* Somebody replaces a file.
Change(f) ==
    /\ changes < MaxChange
    /\ changes' = changes + 1
    /\ \E x \in Contents : file' = [file EXCEPT ![f] = x]
    /\ UNCHANGED <<mvars, setting, phase, loaded, connVars>>

\* Another goroutine of the process asks for a handler.
Other(c) == /\ phase # "fatal"
            /\ Step(c)
            /\ UNCHANGED <<setting, file, changes, phase, loaded, connVars>>

-----------------------------------------------------------------------------
(* Connections.                                                             *)

\* A client connects as soon as the port is bound.
Connect(c) ==
    /\ phase \in {"pair", "pool", "serving"}
    /\ conn[c] = "none"
    /\ conn' = [conn EXCEPT ![c] = "queued"]
    /\ \E s \in {"plain", "anonymous", "foreign", "signed"} : speaks' = [speaks EXCEPT ![c] = s]
    /\ UNCHANGED <<bootVars, server>>

\* Mutant of Accept: TLS only where the gRPC server does it itself.
AcceptForGrpc(c) ==
    /\ phase = "serving"
    /\ conn[c] = "queued"
    /\ conn' = [conn EXCEPT ![c] = IF setting.tls /\ ~setting.handler THEN "handshake" ELSE "header"]
    /\ UNCHANGED <<bootVars, speaks, server>>

\* Serve takes it from the queue.
Accept(c) ==
    /\ phase = "serving"
    /\ conn[c] = "queued"
    /\ conn' = [conn EXCEPT ![c] = IF setting.tls THEN "handshake" ELSE "header"]
    /\ UNCHANGED <<bootVars, speaks, server>>

\* RequireAndVerifyClientCert, against the pool of the CA file.
Handshake(c) ==
    /\ conn[c] = "handshake"
    /\ conn' = [conn EXCEPT ![c] = IF speaks[c] = "signed" /\ "ca" \in loaded
                                     THEN "header" ELSE "closed"]
    /\ UNCHANGED <<bootVars, speaks, server>>

\* A request comes, in a protocol the listener speaks: grpcHandlerFunc gives those
\* of gRPC to the task service and the others to the mux; without a handler there
\* is gRPC only, and through one without a registry the scrape panics.
Request(c, by) ==
    /\ conn[c] = "header"
    /\ IF /\ (speaks[c] = "plain") = ~setting.tls
          /\ by = "metrics" => setting.handler /\ handler[Main] # "nil"
         THEN /\ server' = [server EXCEPT ![c] = by]
              /\ conn' = [conn EXCEPT ![c] = "answered"]
         ELSE /\ conn' = [conn EXCEPT ![c] = "closed"]
              /\ UNCHANGED server
    /\ UNCHANGED <<bootVars, speaks>>

\* ReadHeaderTimeout, or the gRPC server's own, for a client that is silent.
TooSlow(c) ==
    /\ conn[c] \in {"handshake", "header"}
    /\ conn' = [conn EXCEPT ![c] = "closed"]
    /\ UNCHANGED <<bootVars, speaks, server>>

Next == \/ Boot
        \/ \E f \in File : Change(f)
        \/ \E c \in Caller \ {Main} : Other(c)
        \/ \E c \in Conn : \/ Connect(c) \/ Accept(c) \/ Handshake(c) \/ TooSlow(c)
                           \/ Request(c, "task") \/ Request(c, "metrics")

Spec == Init /\ [][Next]_vars

\* The goroutines and the accept loop are scheduled, and timers go off.
Fairness == /\ WF_vars(Boot)
            /\ \A c \in Caller \ {Main} : WF_vars(Other(c))
            /\ \A c \in Conn : WF_vars(Accept(c)) /\ WF_vars(TooSlow(c))
FairSpec == Spec /\ Fairness

-----------------------------------------------------------------------------
(* Properties.                                                             *)

\* The state has its type.
TypeOK ==
    /\ MTypeOK
    /\ setting \in Setting
    /\ file \in [File -> Contents]
    /\ changes \in 0 .. MaxChange
    /\ phase \in File \cup {"user", "handler", "listen", "pair", "pool", "serving", "fatal"}
    /\ loaded \subseteq File
    /\ conn \in [Conn -> {"none", "queued", "handshake", "header", "answered", "closed"}]
    /\ speaks \in [Conn -> {"none", "plain", "anonymous", "foreign", "signed"}]
    /\ server \in [Conn -> {"none", "task", "metrics"}]

\* docs/tls.md, what mutual TLS gives: with -enable-tls neither the task service
\* nor /metrics answers anybody without a certificate of the CA, on either of
\* Start's paths to a listener and whatever became of the files after the checks.
OnlyVerified ==
    setting.tls => \A c \in Conn : server[c] # "none" => speaks[c] = "signed" /\ loaded = File

\* Nobody hangs in the queue of a server that does not come up: a connection made
\* after the port was bound (server.go:79) is accepted or ends with the process.
QueueMoves == \A c \in Conn : conn[c] = "queued" ~> conn[c] # "queued"

\* A good configuration boots, whatever the files were before they were good.
GoodBoots ==
    (setting.free /\ (setting.root => setting.allowRoot) /\ phase = "ca"
        /\ [](setting.tls => \A f \in File : file[f] = "good")) ~> phase = "serving"
=============================================================================
