----------------------------- MODULE HttpServer -----------------------------
(***************************************************************************)
(* data_flow::HttpServerDataFlow: the first request is read until it is    *)
(* complete.  A CONNECT request is consumed and answered; any other is     *)
(* kept in first_header_ and is what the tunnel reads first.               *)
(*                                                                         *)
(* The request is represented by how much of it has been parsed.  The      *)
(* rewriter holds back a token until it is complete, but newlines that the *)
(* client sends before the method are passed on as soon as the method      *)
(* begins: http_parser skips them.  What comes behind a CONNECT in the     *)
(* same read stays in the rewriter, which has stopped, and is lost.        *)
(***************************************************************************)
EXTENDS ServerFlow, Naturals

VARIABLES
  kind,    \* what the client sends: "connect", "plain" or "invalid"
  newline, \* it sends newlines before it
  seen     \* how much has been parsed: "nothing", "method", "message"

request  == <<kind, newline, seen>>
httpVars == <<vars, request>>

HttpInit == /\ InitFlow
            /\ kind \in {"connect", "plain", "invalid"} /\ newline \in BOOLEAN
            /\ seen = "nothing"

Progress == [nothing |-> 0, method |-> 1, message |-> 2]

\* has_read_method_ and is_connect_, once s has been parsed.
IsConnect(s) == s # "nothing" /\ kind = "connect"

Negotiated == stage = "opening" /\ Waiting("Read")

\* What first_header_ holds once s has been parsed: newlines, that may be passed on
\* before the method is known; then all of a request, and nothing more of a CONNECT.
Kept(s) == IF s = "nothing" THEN {header, header \/ newline}
           ELSE IF IsConnect(s) THEN {header} ELSE {TRUE}

\* More of the request, which is not complete.
HttpNegotiateMore ==
  /\ Negotiated
  /\ \E s \in {"nothing", "method"} :
        /\ Progress[s] >= Progress[seen]
        /\ seen' = s
        /\ header' \in Kept(s)
  /\ ReadMore
  /\ UNCHANGED <<tunnelVars, upper, posted, clientVars, kind, newline>>

\* The end of the request.  Nothing can be behind a CONNECT in what the rewriter
\* passes on, so that the code's check for it never fails.
NegotiateDone ==
  /\ Negotiated /\ kind # "invalid"
  /\ Assert(Check("sock.ReadEnd", CanReadDone(sock)))
  /\ sock' = ReadDone(sock)
  /\ seen' = "message"
  /\ header' \in Kept("message")
  /\ stage' = "matching"
  /\ UNCHANGED <<readLoop, writeLoop, upper, posted, clientVars, kind, newline>>

\* The rewriter refuses the buffer.
HttpNegotiateRefused ==
  /\ Negotiated /\ kind = "invalid"
  /\ Assert(Check("sock.ReadEnd", CanReadDone(sock)))
  /\ Fail(ReadDone(sock))
  /\ UNCHANGED <<clientVars, request>>

ContinueCall == /\ IF IsConnect(seen) THEN ContinueByWrite ELSE ContinueAtOnce
                /\ UNCHANGED request

\* A later request that the rewriter refuses.
RewriteRefused == /\ ForwardingRead /\ kind = "plain"
                  /\ Assert(ReadEndChecks)
                  /\ Release(Errored(ReadEnd(upper)), ReadDone(sock))
                  /\ UNCHANGED <<clientVars, request>>

\* The tunnel is gone and so are its callbacks.
HttpDone == /\ stage = "released"
            /\ posted = "none" /\ \A op \in Ops : sock.cb[op] = "none"
            /\ UNCHANGED httpVars

HttpShared == \/ OpenCall \/ SocketOpened \/ NegotiationEnded \/ NegotiationBroke
              \/ AnswerWritten \/ AnswerBroke \/ SocketContinued
              \/ Forwarding \/ Ending \/ Client

HttpNext == \/ HttpShared /\ UNCHANGED request
            \/ HttpNegotiateMore \/ NegotiateDone \/ HttpNegotiateRefused
            \/ ContinueCall \/ RewriteRefused \/ HttpDone

HttpSpec == HttpInit /\ [][HttpNext]_httpVars

\* The run loop runs what is ready; the client does as it likes.
HttpLiveSpec == HttpSpec /\ WF_httpVars(SocketOpened /\ UNCHANGED request)
                     /\ WF_httpVars(NegotiationEnded /\ UNCHANGED request)
                     /\ WF_httpVars(NegotiationBroke /\ UNCHANGED request)

-----------------------------------------------------------------------------
\* The variables have their types (see FlowTypeOK).
HttpTypeOK == /\ FlowTypeOK
              /\ kind \in {"connect", "plain", "invalid"} /\ newline \in BOOLEAN
              /\ seen \in {"nothing", "method", "message"}

\* Types, an answer on the way whenever one is due, the two layers in step, and no
\* callback left after the flow.
HttpFlowInv == HttpTypeOK /\ AnswerDue /\ LayersAgree /\ NoCallbackOutlivesFlow

\* The data the tunnel gets begin with the first request, once, and nothing is read
\* from the client before.  Of a CONNECT nothing is passed on: only newlines that
\* were sent before it, when a read ended inside its method (first_header_ in
\* NegotiateRead and Read).
RequestFirst ==
  /\ kind = "connect" /\ header => newline
  /\ kind = "plain" /\ stage = "matching" => header
  /\ header /\ stage = "forwarding" => posted = "waiting" /\ ~sock.fsm.reading

\* A client that goes away during the negotiation is noticed.
HttpOpenAnswered == (stage = "opening" /\ (fin \/ reset)) ~> (stage # "opening")
=============================================================================
