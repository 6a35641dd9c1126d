------------------------------ MODULE Embedder ------------------------------
(***************************************************************************)
(* What embed.v1.Embedder promises each caller, whatever a server does     *)
(* inside: the RPC is unary, one text in, one vector out.  A call is       *)
(* answered at most once, and with the embedding of its own text or with   *)
(* an error; only a text over the model's token limit is refused for its   *)
(* length.  Nothing is promised about other calls' outcomes.               *)
(***************************************************************************)
CONSTANTS Calls,       \* Embed RPCs
          Embedding,   \* Embedding[c]: what the model makes of c's text
          TooLong,     \* the calls whose text is over the token limit
          NoVec        \* the vector of an answer without one

VARIABLES status,      \* status[c]: the RPC as its caller sees it
          answer       \* answer[c]: what it returned

evars == <<status, answer>>

NoAnswer == [code |-> "none", why |-> "none", vec |-> NoVec]
Answered(v) == [code |-> "OK", why |-> "none", vec |-> v]
Failure(code, why) == [code |-> code, why |-> why, vec |-> NoVec]

(* The errors any call may meet, through no fault of its text. *)
AnyoneMayGet == {Failure("Unavailable", "upstream"),
                 Failure("Internal", "malformed"),
                 Failure("Internal", "status")}

TooLarge == Failure("Internal", "too large")

(* The answers call c may get. *)
Legitimate(c) ==
    AnyoneMayGet \cup (IF c \in TooLong THEN {TooLarge}
                                        ELSE {Answered(Embedding[c])})

EInit ==
    /\ status = [c \in Calls |-> "idle"]
    /\ answer = [c \in Calls |-> NoAnswer]

Open(c) ==
    /\ status[c] = "idle"
    /\ status' = [status EXCEPT ![c] = "open"]
    /\ UNCHANGED answer

Answer(c) ==
    /\ status[c] = "open"
    /\ status' = [status EXCEPT ![c] = "answered"]
    /\ \E r \in Legitimate(c) : answer' = [answer EXCEPT ![c] = r]

(* The caller's context ends. *)
Leave(c) ==
    /\ status[c] = "open"
    /\ status' = [status EXCEPT ![c] = "gone"]
    /\ UNCHANGED answer

ENext == \E c \in Calls : Open(c) \/ Answer(c) \/ Leave(c)

ESpec == EInit /\ [][ENext]_evars
=============================================================================
