---------------------------- MODULE InvoiceServer ----------------------------
(***************************************************************************)
(* The process around the invoice service (cmd/server/main.go): an HTTP    *)
(* and a gRPC server that share it, and the shutdown on SIGINT or SIGTERM. *)
(* main first shuts the HTTP server down and waits for its requests, up to *)
(* a time limit; then it stops the gRPC server, which takes calls until    *)
(* then, and waits for its calls, without a limit; then it exits and cuts  *)
(* off the HTTP requests that have outlived their time.                    *)
(*                                                                         *)
(* Requests do not fail by themselves here: what a shutdown does to them   *)
(* is the question.  Failures are the matter of InvoiceService.            *)
(***************************************************************************)
EXTENDS InvoiceLedger

VARIABLES
    phase,          \* of main: serving, waiting for HTTP, for gRPC, or gone
    http,           \* the workers whose request came by HTTP
    cut             \* history: the invoices whose request the exit cut off

serverVars == <<vars, phase, http, cut>>

Phase == {"serving", "http_closing", "grpc_closing", "exited"}

Busy(w) == ~At(w, "idle")

-----------------------------------------------------------------------------
(* Requests                                                                *)

HttpAccepts == phase = "serving"

\* Mutant: the gRPC server takes calls while it is waiting for the last one.
GrpcAcceptsToTheEnd == phase # "exited"

GrpcAccepts == phase \in {"serving", "http_closing"}

\* The routes of the HTTP server.  It has no reject and no recall.
HttpRequest(w, i) ==
    /\ HttpAccepts
    /\ \/ SubmitForApproval(w, i)
       \/ ApproveInvoice(w, i)
       \/ DeleteInvoice(w, i)
       \/ PostInvoice(w, i)
       \/ \E amount \in 1 .. Due(i) : RecordPayment(w, i, amount)
    /\ http' = http \cup {w}
    /\ UNCHANGED <<phase, cut>>

\* PostToGL passes on to the service.
PostToGL(w, i) == PostInvoice(w, i)

\* The methods of the gRPC server, as far as they reach the invoice service.
\* It has no payments.
GrpcCall(w, i) ==
    /\ GrpcAccepts
    /\ \/ SubmitForApproval(w, i)
       \/ ApproveInvoice(w, i)
       \/ RejectInvoice(w, i)
       \/ RecallInvoice(w, i)
       \/ DeleteInvoice(w, i)
       \/ PostToGL(w, i)
    /\ UNCHANGED <<phase, http, cut>>

Create ==
    /\ HttpAccepts \/ GrpcAccepts
    /\ CreateInvoice
    /\ UNCHANGED <<phase, http, cut>>

\* A handler runs on through the shutdown, until the process is gone.
Handle(w) ==
    /\ phase # "exited"
    /\ Proceed(w)
    /\ http' = IF At(w, "idle")' THEN http \ {w} ELSE http
    /\ UNCHANGED <<phase, cut>>

-----------------------------------------------------------------------------
(* Shutdown                                                                *)

Enter(from, to) ==
    /\ phase = from
    /\ phase' = to

Signal ==
    /\ Enter("serving", "http_closing")
    /\ UNCHANGED <<vars, http, cut>>

\* httpServer.Shutdown returns when the last request is answered or, with an
\* error that is logged, when its time is up.
HttpShutdown ==
    /\ Enter("http_closing", "grpc_closing")
    /\ UNCHANGED <<vars, http, cut>>

\* Mutant: a stop of the gRPC server that does not wait for its calls.
StopAtOnce ==
    /\ Enter("grpc_closing", "exited")
    /\ cut' = {req[w].inv : w \in http}
    /\ http' = {}
    /\ req' = [w \in Worker |-> NoRequest]
    /\ UNCHANGED <<tables, remotes>>

\* GracefulStop returns when no gRPC call is left; then main returns and the
\* requests that are still there end where they are.
GracefulStop ==
    /\ Enter("grpc_closing", "exited")
    /\ \A w \in Worker : Busy(w) => w \in http
    /\ cut' = {req[w].inv : w \in http}
    /\ http' = {}
    /\ req' = [w \in Worker |-> NoRequest]
    /\ UNCHANGED <<tables, remotes>>

-----------------------------------------------------------------------------
ServerInit ==
    /\ Init
    /\ phase = "serving"
    /\ http = {}
    /\ cut = {}

ServerNext ==
    \/ Create
    \/ \E w \in Worker :
          \/ Handle(w)
          \/ \E i \in InvoiceId : HttpRequest(w, i) \/ GrpcCall(w, i)
    \/ Signal
    \/ HttpShutdown
    \/ GracefulStop

\* Requests for one invoice do not overlap; handlers run, and so does main once
\* it was told to stop.
ServerSpec ==
    /\ ServerInit
    /\ [][ServerNext /\ OneRequestPerInvoice']_serverVars
    /\ \A w \in Worker : WF_serverVars(Handle(w))
    /\ WF_serverVars(HttpShutdown)
    /\ WF_serverVars(GracefulStop)

-----------------------------------------------------------------------------
(* Properties                                                              *)

\* Between requests, and after an exit that cut no request off, the books of
\* the three services agree.
BooksClosed == cut = {} => Reconciled

\* A post whose checks passed ends with the invoice marked as posted, and a
\* shutdown is no reason not to: a gRPC call is waited for to its end, an HTTP
\* request may be cut off.
PostCompletes ==
    \A w \in Worker, i \in InvoiceId :
        LET Posts == At(w, "post_lines") /\ req[w].inv = i IN
        /\ (Posts /\ w \notin http) ~> invoices[i].posted
        /\ (Posts /\ w \in http) ~> (invoices[i].posted \/ i \in cut)

\* A committed payment row ends up in a posted GL-2 entry and in AP-1's
\* balance, the two calls RecordPayment makes after the insert, unless the
\* exit comes in between.
PaymentSettles ==
    \A p \in PaymentId :
        (\E r \in payments : r.id = p) ~>
            \/ \E r \in payments : r.id = p /\ r.inv \in cut
            \/ \E j \in PostedEntries("ap_payment") :
                  /\ journals[j].pay = p
                  /\ \E c \in balanceCalls :
                        c.journal = j /\ c.amount = -journals[j].credit

\* A signal ends the process, whatever requests still come by gRPC and however
\* long an HTTP request takes (main.go:237-246).
ShutdownEnds == phase = "http_closing" ~> phase = "exited"

=============================================================================
