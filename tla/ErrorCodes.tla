----------------------------- MODULE ErrorCodes -----------------------------
(***************************************************************************)
(* How a failed SQL statement becomes the gRPC status of a reply:          *)
(* HandlePgxError of internal/repository/errors.go classifies the error    *)
(* pgx returned, WrapRepositoryError of internal/errors/errors.go turns    *)
(* what is left of it into a status code.  Texts are kept only as far as   *)
(* the code compares them.                                                 *)
(***************************************************************************)

\* What pgx reports: no row matched, an SQLSTATE of the server, or anything
\* else (a broken connection, a cancelled context, a failed Scan).
NoRows     == [kind |-> "norows", code |-> "none"]
PgError(c) == [kind |-> "pg",     code |-> c]
OtherError == [kind |-> "other",  code |-> "none"]

\* The SQLSTATEs the switch names, and one it does not (22001: the title
\* does not fit VARCHAR(255)).
SqlStates == {"23505", "23503", "23502", "23514", "08000", "08003", "08006",
              "22P02", "22001"}

PgxErrors == {NoRows, OtherError} \cup {PgError(c) : c \in SqlStates}

\* The operations that call HandlePgxError; those whose name contains "health".
RepositoryOps == {"create_task", "get_task_by_id", "update_task", "delete_task",
                  "list_tasks", "list_tasks_scan", "list_tasks_iteration",
                  "health_check"}
HealthOps     == {"health_check"}

\* A RepositoryError: the operation and the error it wraps.
WrapError(op, err) == [op |-> op, err |-> err]

\* What the switch on pgErr.Code yields.  Cases 23503 and 23502 have an empty
\* body: the switch is left, and the driver's own error is wrapped.
SqlStateError ==
  [c \in SqlStates |->
     CASE c = "23505"                        -> "task already exists"
       [] c = "23514"                        -> "database constraint violation"
       [] c \in {"08000", "08003", "08006"}  -> "database connection error"
       [] c = "22P02"                        -> "invalid data provided"
       [] c \in {"23503", "23502"}           -> "driver error"
       [] OTHER                              -> "database error"]

HandlePgxError(op, e) ==
  WrapError(op,
    CASE e = NoRows /\ op \in HealthOps    -> "health check failed"
      [] e = NoRows /\ op \notin HealthOps -> "task not found"
      [] e.kind = "pg"                     -> SqlStateError[e.code]
      [] OTHER                             -> "driver error")

\* RepositoryError.Error(): the operation is put in front of the text.
ErrorText(e) == IF e.op = "" THEN <<e.err>> ELSE <<e.op, e.err>>

\* IsNotFoundError and IsConstraintViolationError of internal/errors compare
\* the text of the error as a whole, and nothing at all.
IsNotFoundError(e)            == ErrorText(e) = <<"no rows in result set">>
IsConstraintViolationError(e) == FALSE

WrapRepositoryError(e) ==
  IF IsNotFoundError(e) THEN "NotFound"
  ELSE IF IsConstraintViolationError(e) THEN "AlreadyExists" ELSE "Internal"

\* The status the client of a failed operation receives.
StatusOf(op, e) == WrapRepositoryError(HandlePgxError(op, e))
=============================================================================
