-------------------------- MODULE FailurePredicate --------------------------
(***************************************************************************)
(* The failure predicate of config.rs: which errors of an operation count   *)
(* as failures of the service.  An error has a type, which the predicate    *)
(* was built for or was not, and the rest of it tells it from the others.   *)
(***************************************************************************)

CONSTANTS
    Errors,            \* the errors operations may return, each with a field type
    failure_predicate  \* Option<FailurePredicate>: no element or one, a record of
                       \* the type it was built for and the errors it says TRUE of

\* The closure sees only errors of its own type; any other counts.
IsFailure(predicate, err) == err.type # predicate.type \/ err \in predicate.counted

\* Without a predicate every error counts.
IsBreakerFailure(err) == \A predicate \in failure_predicate : IsFailure(predicate, err)

=============================================================================
