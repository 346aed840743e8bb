--------------------------------- MODULE TTP ---------------------------------
(***************************************************************************)
(* The TTP transport (megagemm/mesh/ttp.py) as operators on one record net:*)
(* a client keeps one connection, writes one request frame and reads one   *)
(* answer frame; on an OSError or EOFError (a timeout is one) it closes    *)
(* the connection and sends the same request once more on a new one. The   *)
(* server has a thread per connection, which serves the requests of that   *)
(* connection in order and knows nothing of the others. Frames carry no    *)
(* number that ties an answer to its request.                              *)
(***************************************************************************)
EXTENDS Integers, SequencesExt

CONSTANT Clients        \* the TTPClient objects

\* What the handler thread of a request has got to, when it has not begun.
Unhandled == [at |-> "start"]

Call(by, c, req, attempt, n) ==
    [by |-> by, client |-> c, req |-> req, attempt |-> attempt, conn |-> n]

Initially ==
    [up      |-> [c \in Clients |-> TRUE],   \* does the server of c accept connections?
     sock    |-> [c \in Clients |-> 0],      \* the connection held, 0 for None
     opened  |-> [c \in Clients |-> 0],      \* connections opened so far
     alive   |-> [c \in Clients |-> FALSE],  \* does the one held still work?
     inbox   |-> [c \in Clients |-> <<>>],   \* requests delivered, not answered
     answers |-> [c \in Clients |-> <<>>],   \* answers on the one held, unread
     calls   |-> {}]                         \* requests whose caller waits

\* _request_frame: connect unless a connection is there, then write. To connect
\* to a server that is not up fails; what is written to a connection that the
\* other side has lost reaches nobody.
Sent(net, by, c, req, attempt) ==
    LET new == net.sock[c] = 0
        n == IF new THEN net.opened[c] + 1 ELSE net.sock[c]
        works == IF new THEN net.up[c] ELSE net.alive[c]
    IN [net EXCEPT
          !.sock[c] = IF new /\ ~net.up[c] THEN 0 ELSE n,
          !.opened[c] = IF new THEN n ELSE @,
          !.alive[c] = works,
          !.inbox[c] = IF works THEN Append(@, [conn |-> n, req |-> req, local |-> Unhandled])
                                ELSE @,
          !.calls = @ \union {Call(by, c, req, attempt, n)}]

\* close(); a call that waits on the connection is left for its caller to see.
Closed(net, c) == [net EXCEPT !.sock[c] = 0, !.alive[c] = FALSE, !.answers[c] = <<>>]

\* request(), first attempt, ...
Called(net, by, c, req) == Sent(net, by, c, req, 1)

\* ... and what follows its error: close, connect, write again.
Retried(net, call) ==
    Sent(Closed([net EXCEPT !.calls = @ \ {call}], call.client),
         call.by, call.client, call.req, 2)

\* request(), after an error of the second attempt: it propagates. The
\* connection stays as it is, with an answer still to come after a timeout.
GivenUp(net, call) == [net EXCEPT !.calls = @ \ {call}]

\* An answer is there for a caller that reads this connection, ...
Readable(net, call) ==
    call.conn = net.sock[call.client] /\ net.answers[call.client] # <<>>

\* ... which takes the next one, whatever request it answers.
Read(net, call) ==
    [net EXCEPT !.answers[call.client] = Tail(@), !.calls = @ \ {call}]

\* Reading raises: the connection is dead, or another thread has replaced it.
Broken(net, call) ==
    \/ call.conn # net.sock[call.client]
    \/ ~net.alive[call.client] /\ net.answers[call.client] = <<>>

\* The places in c's inbox a handler thread is at: the oldest request of each
\* connection.
Turns(net, c) ==
    {i \in DOMAIN net.inbox[c] :
        \A j \in 1..(i - 1) : net.inbox[c][j].conn # net.inbox[c][i].conn}

\* The handler has answered: the frame is readable if its connection is the
\* one the client still holds, and lost otherwise.
Answered(net, c, i, reply) ==
    LET turn == net.inbox[c][i]
        held == turn.conn = net.sock[c] /\ net.alive[c]
    IN [net EXCEPT
          !.inbox[c] = RemoveAt(@, i),
          !.answers[c] = IF held THEN Append(@, [req |-> turn.req, reply |-> reply]) ELSE @]

\* What c's server has got on the connection held and has not begun to handle.
Unbegun(net, c) ==
    {turn \in ToSet(net.inbox[c]) : turn.local = Unhandled /\ turn.conn = net.sock[c]}

\* The requests of a list without those that are gone, in order.
Remaining(turns, gone) ==
    LET kept[n \in 0..Len(turns)] ==
            IF n = 0 THEN <<>>
            ELSE IF turns[n] \in gone THEN kept[n-1] ELSE Append(kept[n-1], turns[n])
    IN kept[Len(turns)]

\* The connection breaks. Requests on it that nobody has begun to handle may
\* have been delivered (keep) or not.
Lost(net, c, keep) ==
    [net EXCEPT
       !.alive[c] = FALSE,
       !.answers[c] = <<>>,
       !.inbox[c] = IF keep THEN @ ELSE Remaining(@, Unbegun(net, c))]

\* The process of client c is gone, with its threads and its socket.
Dropped(net, c) == [Closed(net, c) EXCEPT !.calls = {call \in @ : call.client # c}]

\* The process that serves client c is gone; its address refuses connections
\* until another one is there.
ServerGone(net, c) ==
    [net EXCEPT !.up[c] = FALSE, !.alive[c] = FALSE, !.answers[c] = <<>>, !.inbox[c] = <<>>]

ServerBack(net, c) == [net EXCEPT !.up[c] = TRUE]
=============================================================================
