------------------------------ MODULE MCCallers ------------------------------
(***************************************************************************)
(* The callers of the models and the errors their operations return.        *)
(***************************************************************************)
EXTENDS MCWaits, TLC

CONSTANTS t1, t2, t3

TwoTasks   == {t1, t2}
ThreeTasks == {t1, t2, t3}

\* Tasks are interchangeable in every safety property.
TaskSymmetry == Permutations(ThreeTasks)

LOCAL Refused  == [type |-> "Io", kind |-> "refused"]
LOCAL NotFound == [type |-> "Io", kind |-> "not found"]
LOCAL Foreign  == [type |-> "Db", kind |-> "deadlock"]

\* One error the predicate counts, one it does not, one of another type.
AllErrors == {Refused, NotFound, Foreign}

CountRefused == {[type |-> "Io", counted |-> {Refused}]}

=============================================================================
