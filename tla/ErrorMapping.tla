---------------------------- MODULE ErrorMapping ----------------------------
(***************************************************************************)
(* From a gRPC status of an owning service to the public error of the API. *)
(*   src/internal/adapters/control/client.go    MapError                   *)
(*   src/internal/transport/http/server.go      apiError, fromControl      *)
(* Every gateway call of every handler fails through these two: commands   *)
(* (CommandGateway) and reads (ArtifactRead).                              *)
(***************************************************************************)
EXTENDS Integers

ErrorCode == {"INVALID_ARGUMENT", "UNAUTHENTICATED", "FORBIDDEN", "NOT_FOUND",
              "REVISION_CONFLICT", "IDEMPOTENCY_CONFLICT", "STALE_EXECUTION",
              "PROFILE_UNQUALIFIED", "EFFECT_UNCERTAIN", "CAPACITY_EXHAUSTED",
              "BUDGET_EXHAUSTED", "DEPENDENCY_UNAVAILABLE"}

\* The precondition codes of the public contract.
publicConflicts == {"REVISION_CONFLICT", "IDEMPOTENCY_CONFLICT", "STALE_EXECUTION",
                    "PROFILE_UNQUALIFIED", "BUDGET_EXHAUSTED", "CAPACITY_EXHAUSTED",
                    "EFFECT_UNCERTAIN"}

\* A gRPC status: its code and the word its message begins with.
GrpcCode == {"OK", "NotFound", "InvalidArgument", "Aborted", "FailedPrecondition",
             "PermissionDenied", "Unauthenticated", "AlreadyExists",
             "ResourceExhausted", "Unavailable", "Canceled", "DeadlineExceeded",
             "Internal"}
Word == publicConflicts \cup {"new", "existing", "other"}
----------------------------------------------------------------------------
apiError(code, status, retryable) ==
    [code |-> code, status |-> status, retryable |-> retryable]
invalidArgument == apiError("INVALID_ARGUMENT", 400, FALSE)
unavailable     == apiError("DEPENDENCY_UNAVAILABLE", 503, TRUE)

ControlError(code, retryable) == [code |-> code, retryable |-> retryable]

ByCode_EndedIsFinal(status) ==   \* mutant: an ended wait reads as a refusal
    CASE status.code \in {"Canceled", "DeadlineExceeded"} -> ControlError("NOT_FOUND", FALSE)
      [] status.code = "AlreadyExists"     -> ControlError("IDEMPOTENCY_CONFLICT", FALSE)
      [] status.code = "ResourceExhausted" -> ControlError("CAPACITY_EXHAUSTED", TRUE)
      [] OTHER                             -> ControlError("DEPENDENCY_UNAVAILABLE", TRUE)

ByCode_RawWord(status) ==   \* mutant: an owner's own word becomes a public code
    CASE status.code \in {"Aborted", "FailedPrecondition"} -> ControlError(status.word, FALSE)
      [] status.code = "AlreadyExists"     -> ControlError("IDEMPOTENCY_CONFLICT", FALSE)
      [] status.code = "ResourceExhausted" -> ControlError("CAPACITY_EXHAUSTED", TRUE)
      [] OTHER                             -> ControlError("DEPENDENCY_UNAVAILABLE", TRUE)

\* The switch of MapError; an owner's own word stays inside a conflict.
ByCode(status) ==
    CASE status.code = "NotFound"          -> ControlError("NOT_FOUND", FALSE)
      [] status.code = "InvalidArgument"   -> ControlError("INVALID_ARGUMENT", FALSE)
      [] status.code \in {"Aborted", "FailedPrecondition"} ->
           ControlError(IF status.word \in publicConflicts THEN status.word
                        ELSE "REVISION_CONFLICT", FALSE)
      [] status.code \in {"PermissionDenied", "Unauthenticated"} ->
           ControlError("FORBIDDEN", FALSE)
      [] status.code = "AlreadyExists"     -> ControlError("IDEMPOTENCY_CONFLICT", FALSE)
      [] status.code = "ResourceExhausted" -> ControlError("CAPACITY_EXHAUSTED", TRUE)
      [] OTHER                             -> ControlError("DEPENDENCY_UNAVAILABLE", TRUE)

MapError_CodeOnly(status) == ByCode(status)   \* mutant: the carrying code decides

\* An uncertain effect is never retryable, whichever code carries it.
MapError(status) ==
    IF status.word = "EFFECT_UNCERTAIN" THEN ControlError("EFFECT_UNCERTAIN", FALSE)
    ELSE ByCode(status)

httpStatus ==
    [INVALID_ARGUMENT |-> 400, UNAUTHENTICATED |-> 401, FORBIDDEN |-> 403,
     NOT_FOUND |-> 404, REVISION_CONFLICT |-> 409, IDEMPOTENCY_CONFLICT |-> 409,
     STALE_EXECUTION |-> 409, PROFILE_UNQUALIFIED |-> 409, EFFECT_UNCERTAIN |-> 409,
     CAPACITY_EXHAUSTED |-> 429, BUDGET_EXHAUSTED |-> 429, DEPENDENCY_UNAVAILABLE |-> 503]

fromControl(ce) ==
    apiError(ce.code, IF ce.code \in DOMAIN httpStatus THEN httpStatus[ce.code] ELSE 503,
             ce.retryable /\ ce.code # "EFFECT_UNCERTAIN")
=============================================================================
