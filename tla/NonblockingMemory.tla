--------------------------- MODULE NonblockingMemory ---------------------------
(***************************************************************************)
(* What a nonblocking write-back cache promises its CPU.  Requests to one  *)
(* line are served in the order of their acceptance, requests to different *)
(* lines in any order; each is performed atomically or fails without an    *)
(* effect, and is answered once.  `durable', the memory behind the cache,  *)
(* only catches up with `mem', what the CPU sees; at a reset `mem' falls   *)
(* back on it and the requests are forgotten.                              *)
(*                                                                         *)
(* One step is one clock edge, at which a request may be accepted, one may *)
(* be served (the one just accepted too), and a reply may be taken.        *)
(***************************************************************************)
EXTENDS Naturals, Sequences

CONSTANTS Line,      \* the lines in use
          Beat,      \* the words of a line
          Request,   \* records with fields id, write, line, word, data
          Zero,      \* the data of a reply that carries none
          None

VARIABLES mem, durable,   \* [Line -> [Beat -> Value]]
          pending,        \* accepted requests of each line, oldest first
          replies,        \* answers the CPU has not taken, oldest first
          awaited         \* how many answers the CPU still expects

nVars == <<mem, durable, pending, replies, awaited>>

NInit == /\ durable = mem
         /\ pending = [l \in Line |-> <<>>]
         /\ replies = <<>>
         /\ awaited = 0

(* A line's requests once r, a request or None, has been accepted.         *)
Queue(l, r) == IF r # None /\ r.line = l THEN Append(pending[l], r) ELSE pending[l]

(* The replies that stay: the CPU may take the oldest.                     *)
Left == {replies} \cup (IF replies = <<>> THEN {} ELSE {Tail(replies)})

(* The CPU counts what it asks and what it takes.                          *)
Counted(r, left) == awaited' + Len(replies) =
                      awaited + Len(left) + (IF r = None THEN 0 ELSE 1)

ServeNone == /\ replies' \in Left
             /\ mem' = mem
             /\ \E r \in Request \cup {None} :
                  /\ Counted(r, replies')
                  /\ \A l \in Line : pending'[l] = Queue(l, r)

(* The answer to q: it fails, or it is performed.                          *)
Answers(q, answer) ==
  /\ q.id = answer.id
  /\ \/ answer.error /\ answer.data = Zero /\ mem' = mem
     \/ /\ ~q.write /\ ~answer.error
        /\ answer.data = mem[q.line][q.word]
        /\ mem' = mem
     \/ /\ q.write /\ ~answer.error /\ answer.data = Zero
        /\ mem' = [mem EXCEPT ![q.line][q.word] = q.data]

(* A line's oldest request is answered.                                    *)
Serve ==
  /\ replies' # <<>>
  /\ LET left == SubSeq(replies', 1, Len(replies') - 1)
     IN  /\ left \in Left
         /\ \E r \in {x \in Request \cup {None} : Counted(x, left)}, l \in Line :
              /\ Queue(l, r) # <<>>
              /\ Answers(Head(Queue(l, r)), replies'[Len(replies')])
              /\ \A k \in Line : pending'[k] = IF k = l THEN Tail(Queue(k, r))
                                               ELSE Queue(k, r)

CatchUp == /\ DOMAIN durable' = Line
           /\ \A l \in Line : /\ DOMAIN durable'[l] = Beat
                              /\ \A b \in Beat : durable'[l][b] \in {durable[l][b], mem[l][b]}

NEdge == /\ durable' = durable \/ CatchUp
         /\ DOMAIN pending' = Line
         /\ ServeNone \/ Serve

NReset == /\ mem' = durable
          /\ pending' = [l \in Line |-> <<>>]
          /\ replies' = <<>>
          /\ awaited' = 0
          /\ UNCHANGED durable

NSpec == NInit /\ [][NEdge \/ NReset]_nVars
=============================================================================
