--------------------------- MODULE LocalHttpServer --------------------------
(***************************************************************************)
(* The local HTTP API (local_http_api/server.rs): one thread accepts       *)
(* connections and takes a permit for each, or answers 503; a thread of    *)
(* its own reads the request, routes it, answers and gives the permit      *)
(* back when it returns, by whichever of its ways out.  The permit count   *)
(* is an atomic that the accept thread raises by compare-and-swap while    *)
(* handlers lower it.                                                      *)
(*                                                                         *)
(* A connection's time limit restarts with every read, so a client that    *)
(* sends a little at a time is held in check by the size limit only.       *)
(* Sizes are counted in pieces; LimitBytes stands for 256 KiB.             *)
(***************************************************************************)
EXTENDS Integers, FiniteSets

CONSTANTS Conns,        \* bound: connections clients open, each once
          MaxConns,     \* MAX_CONCURRENT_CONNECTIONS
          LimitBytes,   \* MAX_REQUEST_BYTES
          Requests      \* what clients mean to send: [header, body, method, path]
ASSUME HttpAssumption ==
  /\ MaxConns \in Nat \ {0} /\ LimitBytes \in Nat
  /\ IsFiniteSet(Conns) /\ "noConn" \notin Conns

VARIABLES conn,      \* per connection its request, state, bytes read, answer
          active,    \* the permit count
          accepting  \* the accept thread: the connection in its hands, the count it loaded
httpVars == <<conn, active, accepting>>

Methods == {"GET", "POST", "DELETE", "OPTIONS", "PUT"}
Paths == {"usage", "metrics", "history", "export", "import", "provider", "other"}
NoConn == "noConn"
Idle503 == [conn |-> NoConn, loaded |-> -1]

HttpInit ==
  /\ conn \in [Conns -> {[req |-> r, at |-> "new", read |-> 0, status |-> 0] : r \in Requests}]
  /\ active = 0 /\ accepting = Idle503

At(c, pc) == conn[c].at = pc
(* The thread returns: it answered with status s, or with nothing (0), and *)
(* its permit is dropped.                                                  *)
(* Mutant: the way out of a request that is too large keeps the permit. *)
Ends_Leaks(c, s) ==
  /\ conn' = [conn EXCEPT ![c].at = "closed", ![c].status = s]
  /\ active' = IF s = 413 THEN active ELSE active - 1

Ends(c, s) ==
  /\ conn' = [conn EXCEPT ![c].at = "closed", ![c].status = s]
  /\ active' = active - 1

(* The accept thread takes a connection, loads the count, and tries to     *)
(* raise it: it tries again when a handler lowered it in between.          *)
Accept(c) ==
  /\ accepting = Idle503 /\ At(c, "new")
  /\ conn' = [conn EXCEPT ![c].at = "accepted"]
  /\ accepting' = [conn |-> c, loaded |-> active] /\ UNCHANGED active
Acquire ==
  LET c == accepting.conn IN
  /\ c # NoConn
  /\ \/ /\ accepting.loaded >= MaxConns
        /\ conn' = [conn EXCEPT ![c].at = "closed", ![c].status = 503]
        /\ accepting' = Idle503 /\ UNCHANGED active
     \/ /\ accepting.loaded < MaxConns /\ accepting.loaded = active
        /\ active' = active + 1 /\ conn' = [conn EXCEPT ![c].at = "headers"]
        /\ accepting' = Idle503
     \/ /\ accepting.loaded < MaxConns /\ accepting.loaded # active
        /\ accepting' = [accepting EXCEPT !.loaded = active] /\ UNCHANGED <<conn, active>>

(* Mutant: the size is not limited until the headers have ended. *)
TooLarge_BodyOnly(c, n) == n > LimitBytes /\ At(c, "body")

TooLarge(c, n) == n > LimitBytes

(* The bytes after one more piece.  Past the limit they are not counted.   *)
Grown(n) == IF n > LimitBytes + 1 THEN n - 1 ELSE n + 1
(* One read of what arrived: the request is too large, its headers have    *)
(* ended, or the loop reads on.                                            *)
ReadChunk(c) ==
  LET req == conn[c].req
      n   == Grown(conn[c].read) IN
  /\ At(c, "headers") \/ (At(c, "body") /\ conn[c].read < req.header + req.body)
  /\ IF TooLarge(c, n) THEN Ends(c, 413)
     ELSE /\ conn' = [conn EXCEPT ![c].read = n,
                                  ![c].at = IF n >= req.header THEN "body" ELSE "headers"]
          /\ UNCHANGED active
  /\ UNCHANGED accepting

(* The client closes its side: without complete headers there is nothing   *)
(* to answer, with a short body the request is routed as it stands.        *)
Eof(c) ==
  /\ \/ At(c, "headers") /\ Ends(c, 0)
     \/ /\ At(c, "body") /\ conn[c].read < conn[c].req.header + conn[c].req.body
        /\ conn' = [conn EXCEPT ![c].at = "short"] /\ UNCHANGED active
  /\ UNCHANGED accepting
(* Nothing arrives for the time of one read, or the connection breaks.     *)
ReadFails(c) ==
  /\ At(c, "headers") \/ (At(c, "body") /\ conn[c].read < conn[c].req.header + conn[c].req.body)
  /\ Ends(c, 0) /\ UNCHANGED accepting

(* The statuses a route can answer with; an export cut short does not      *)
(* parse.                                                                  *)
Route(method, path, short) ==
  IF path = "other" THEN {404}
  ELSE IF method = "OPTIONS" THEN {204}
  ELSE CASE path \in {"usage", "metrics", "export"} /\ method = "GET" -> {200}
         [] path = "history" /\ method = "GET" -> {200}
         [] path = "history" /\ method = "DELETE" -> {204}
         [] path = "import" /\ method = "POST" -> IF short THEN {400} ELSE {200, 400}
         [] path = "provider" /\ method = "GET" -> {200, 204, 404}
         [] OTHER -> {405}

(* The request is routed and answered; the answer may not reach the        *)
(* client, which changes nothing here.                                     *)
Respond(c) ==
  /\ \/ At(c, "short")
     \/ At(c, "body") /\ conn[c].read >= conn[c].req.header + conn[c].req.body
  /\ \E s \in Route(conn[c].req.method, conn[c].req.path, At(c, "short")) : Ends(c, s)
  /\ UNCHANGED accepting

Handler(c) == ReadChunk(c) \/ Eof(c) \/ ReadFails(c) \/ Respond(c)
HttpNext == Acquire \/ \E c \in Conns : Accept(c) \/ Handler(c)
(* The accept thread runs, and a handler's reads end: data arrives or the  *)
(* time limit does.                                                        *)
HttpFairness == WF_httpVars(Acquire) /\ \A c \in Conns : WF_httpVars(Handler(c))
HttpSpec == HttpInit /\ [][HttpNext]_httpVars /\ HttpFairness
-----------------------------------------------------------------------------
Served == {c \in Conns : conn[c].at \in {"headers", "body", "short"}}

(* The count is the number of threads that serve a connection and never    *)
(* above the limit, on every way out and whatever handlers end while the   *)
(* accept thread takes a permit.                                           *)
PermitsHeld == active = Cardinality(Served) /\ active <= MaxConns

(* No client holds a permit for ever, though it may restart the time limit *)
(* as often as it likes.                                                   *)
EveryPermitReturned == \A c \in Conns : (c \in Served) ~> At(c, "closed")
=============================================================================
