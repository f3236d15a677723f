---------------------------- MODULE ProviderCall ----------------------------
(***************************************************************************)
(* What ConcreteProvider makes of the body of an HTTP reply. The status of *)
(* the reply is never looked at, only its text.                            *)
(***************************************************************************)

\* result: JSON with a "result", or the body a REST endpoint gives; rpc_error:
\* JSON with an "error" that is not null; other_json: any other JSON value, a
\* gateway's {"message": ...} or a null result; text: text that starts with
\* neither { nor [, an HTML page; empty: no text at all; cut_off: text that
\* starts with one of them and is not JSON; none: no reply, or a timeout.
Replies == {"result", "rpc_error", "other_json", "text", "empty", "cut_off", "none"}

\* An error of the node is handed on like any other JSON.
Call_ErrorAsResult(reply) ==
    CASE reply \in {"result", "rpc_error"} -> "result"
      [] reply = "other_json" -> "json"
      [] reply \in {"text", "empty"} -> reply
      [] reply \in {"cut_off", "none"} -> "failed"

\* Ok(the result), Ok(something else) or Err(_).
Call(reply) ==
    CASE reply = "result" -> "result"
      [] reply = "other_json" -> "json"
      [] reply \in {"text", "empty"} -> reply
      [] reply \in {"rpc_error", "cut_off", "none"} -> "failed"

Values == {Call(r) : r \in Replies} \ {"failed"}
CanFail == \E r \in Replies : Call(r) = "failed"
=============================================================================
