------------------------------- MODULE Classify ------------------------------
(***************************************************************************)
(* internal/classify: what the answer to a POST means for the relay.  A    *)
(* result is an HTTP status and an error class; "none" is a nil error, and *)
(* an error always comes with status 0 (wits.Client.Post).  Error classes  *)
(* are named for what NetError can tell apart; "unsendable" is a request   *)
(* that could not be signed or built.                                      *)
(***************************************************************************)
EXTENDS Integers

ErrorClasses ==
    {"none", "timeout", "refused", "reset", "broken_pipe", "deadline",
     "dns", "unreachable", "eof", "cancelled", "unsendable"}

ResultType == [status : 0..599, err : ErrorClasses]

Kinds == {"success", "retryable", "terminal"}

Answered(code) == [status |-> code, err |-> "none"]
Failed(class) == [status |-> 0, err |-> class]

HTTPStatus(code) ==
    CASE code \in 200..299 -> "success"
      [] code \in {408, 429} -> "retryable"
      [] code \in 500..599 -> "retryable"
      [] code \in 400..499 -> "terminal"
      [] code = 0 -> "retryable"
      [] OTHER -> "terminal"

NetError(class) ==
    CASE class = "none" -> "success"
      [] class \in {"timeout", "refused", "reset", "broken_pipe", "deadline"} ->
            "retryable"
      [] OTHER -> "terminal"

Combine(r) == IF r.err # "none" THEN NetError(r.err) ELSE HTTPStatus(r.status)
==============================================================================
