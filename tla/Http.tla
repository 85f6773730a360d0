-------------------------------- MODULE Http --------------------------------
(***************************************************************************)
(* HTTP over Fuse (proto/http.cpp): fuse_http_fetch in several clients,    *)
(* the accept loop of fuse_http_serve and a detached thread for each       *)
(* connection. Texts are sequences of characters; only CR, LF, the space   *)
(* and the version differ from "x" and "y". The SDK below is external: a   *)
(* connection carries one message each way, calls fail, and a connection   *)
(* closed without an answer ends the receive.                              *)
(***************************************************************************)
EXTENDS Integers, SequencesExt

CONSTANTS
    Clients,
    LineRoom,    \* characters status_line holds, the terminator left out: 63
    Reasons, HeaderBlocks, Bodies,   \* what a request or an answer is made of
    NULL

VARIABLES
    loop,        \* the accept loop: "accepting" or "returned"
    fetch,       \* fuse_http_fetch of each client
    worker,      \* ServeOneConnection of each client's connection
    up, down,    \* the messages of each connection, NULL when none
    given,       \* what the handler put in *out_resp, NULL when it failed
    result       \* what fuse_http_fetch returned

httpVars == <<loop, fetch, worker, up, down, given, result>>

CrLf == <<"CR", "LF">>

(* The texts a status code and the protocol version are written as. *)
Version == <<"V">>
StatusText == <<"2">>

OccursAt(text, part, i) == SubSeq(text, i, i + Len(part) - 1) = part
Places(text, part) == {i \in 1 .. Len(text) - Len(part) + 1 : OccursAt(text, part, i)}
First(S) == CHOOSE i \in S : \A j \in S : i <= j

Trimmed(text) ==
    LET full == {i \in 1 .. Len(text) : text[i] # " "}
    IN  IF full = {} THEN << >> ELSE SubSeq(text, First(full), Len(text))

AppendHeadersAndBody(line, headers, body) == line \o headers \o CrLf \o body

(* ParseMessage: NULL when not ok. *)
ParseMessage(data) ==
    LET blanks == Places(data, CrLf \o CrLf)
        blank == First(blanks)
        lf == First({i \in 1 .. blank + 1 : data[i] = "LF"})
    IN  IF blanks = {} \/ lf = 1 \/ data[lf - 1] # "CR"
        THEN NULL
        ELSE [line |-> SubSeq(data, 1, lf - 2),
              headers |-> SubSeq(data, lf + 1, blank + 1),
              body |-> SubSeq(data, blank + 4, Len(data))]

RequestText(path, headers, body) ==
    AppendHeadersAndBody(<<"G", " ">> \o path \o <<" ">> \o Version \o CrLf, headers, body)

(* method and path of ServeOneConnection *)
RequestOf(m) ==
    LET sp == First(Places(m.line, <<" ">>))
        rest == SubSeq(m.line, sp + 1, Len(m.line))
        marks == Places(rest, <<" ">> \o Version)
    IN  [path |-> IF marks = {} THEN rest ELSE SubSeq(rest, 1, First(marks) - 1),
         headers |-> m.headers, body |-> m.body]

(* The status line: snprintf into a buffer of fixed size. *)
StatusLine(reason) ==
    LET line == Version \o <<" ">> \o StatusText \o <<" ">> \o reason \o CrLf
    IN  SubSeq(line, 1, IF Len(line) < LineRoom THEN Len(line) ELSE LineRoom)

ResponseText(resp) ==
    AppendHeadersAndBody(StatusLine(resp.reason), resp.headers, resp.body)

(* What fuse_http_fetch fills *out_resp with. *)
ResponseOf(m) ==
    LET spaces == Places(m.line, <<" ">>)
        afterSp == SubSeq(m.line, First(spaces) + 1, Len(m.line))
        second == Places(afterSp, <<" ">>)
        reason == IF second = {} THEN << >>
                  ELSE Trimmed(SubSeq(afterSp, First(second), Len(afterSp)))
    IN  [reason |-> reason, headers |-> m.headers, body |-> m.body]

-----------------------------------------------------------------------------
Answers == [reason : Reasons, headers : HeaderBlocks, body : Bodies]

HttpInit ==
    /\ loop = "accepting"
    /\ fetch = [c \in Clients |-> "connecting"]
    /\ worker = [c \in Clients |-> "none"]
    /\ up = [c \in Clients |-> NULL]
    /\ down = [c \in Clients |-> NULL]
    /\ given = [c \in Clients |-> NULL]
    /\ result = [c \in Clients |-> NULL]

Return(c, status, resp) ==
    /\ fetch' = [fetch EXCEPT ![c] = "returned"]
    /\ result' = [result EXCEPT ![c] = [status |-> status, resp |-> resp]]

(* fuse_connect meets fuse_accept; the loop starts a detached thread. *)
Accept(c) ==
    /\ loop = "accepting"
    /\ fetch[c] = "connecting"
    /\ fetch' = [fetch EXCEPT ![c] = "sending"]
    /\ worker' = [worker EXCEPT ![c] = "receiving"]
    /\ UNCHANGED <<loop, up, down, given, result>>

ConnectFails(c) ==
    /\ fetch[c] = "connecting"
    /\ Return(c, "error", NULL)
    /\ UNCHANGED <<loop, worker, up, down, given>>

(* *stop_flag is seen set between two accepts, or an accept fails with     *)
(* anything but a timeout. Threads go on.                                  *)
ServeReturns ==
    /\ loop = "accepting"
    /\ loop' = "returned"
    /\ UNCHANGED <<fetch, worker, up, down, given, result>>

SendRequest(c) ==
    /\ fetch[c] = "sending"
    /\ \/ /\ fetch' = [fetch EXCEPT ![c] = "receiving"]
          /\ \E h \in HeaderBlocks, b \in Bodies :
                up' = [up EXCEPT ![c] = RequestText(<<"y">>, h, b)]
          /\ UNCHANGED result
       \/ /\ Return(c, "error", NULL)
          /\ UNCHANGED up
    /\ UNCHANGED <<loop, worker, down, given>>

(* ServeOneConnection: receive and parse the request, call the handler,    *)
(* send its answer, close. A failed receive, a request that does not       *)
(* parse and a handler that fails close the connection at once.            *)
Serve(c) ==
    /\ worker[c] = "receiving"
    /\ worker' = [worker EXCEPT ![c] = "closed"]
    /\ \/ /\ up[c] # NULL
          /\ ParseMessage(up[c]) # NULL
          /\ \E resp \in Answers :
                /\ given' = [given EXCEPT ![c] =
                                [request |-> RequestOf(ParseMessage(up[c])), resp |-> resp]]
                /\ down' \in {[down EXCEPT ![c] = ResponseText(resp)], down}
       \/ up[c] # NULL /\ UNCHANGED <<given, down>>
       \/ fetch[c] = "returned" /\ UNCHANGED <<given, down>>
    /\ UNCHANGED <<loop, fetch, up, result>>

(* The rest of fuse_http_fetch: the response arrived and is parsed, or the *)
(* connection closed or the timeout passed without one.                    *)
Receive(c) ==
    /\ fetch[c] = "receiving"
    /\ \/ /\ down[c] # NULL
          /\ LET m == ParseMessage(down[c])
             IN  IF m = NULL THEN Return(c, "internal", NULL)
                 ELSE Return(c, "ok", ResponseOf(m))
       \/ Return(c, "error", NULL)
    /\ UNCHANGED <<loop, worker, up, down, given>>

HttpNext ==
    \/ ServeReturns
    \/ \E c \in Clients : \/ Accept(c)
                          \/ ConnectFails(c)
                          \/ SendRequest(c)
                          \/ Serve(c)
                          \/ Receive(c)

HttpSpec == HttpInit /\ [][HttpNext]_httpVars

-----------------------------------------------------------------------------
(* http.h, fuse_http_handler: "Fill *out_resp (already zero-initialized by *)
(* the caller) and return FUSE_OK to send it". A fetch that receives the   *)
(* answer of the handler returns it as the handler gave it. A reason that  *)
(* does not fit status_line loses its end and the line's CR LF with it.    *)
AnswerArrivesAsGiven ==
    \A c \in Clients :
        result[c] # NULL /\ down[c] # NULL =>
            result[c].status = "error" \/ result[c].resp = given[c].resp
=============================================================================
