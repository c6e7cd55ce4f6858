-------------------------------- MODULE Types --------------------------------
(***************************************************************************)
(* Commands, error codes and access levels of include/Types.hpp, and the   *)
(* two permission checks of include/PropertyBase.hpp.                      *)
(***************************************************************************)
EXTENDS Integers

PropertyCommand == {"GET_PROPERTY", "SET_PROPERTY", "GET_SIZE", "GET_ACCESS"}

\* "other" stands for every value of the command byte without a name.
Command == PropertyCommand \cup {"ECHO", "LOG", "other"}

ErrorCode == {"S_OK", "E_READ_ONLY", "E_INVALID_ARG", "E_OUT_OF_INDEX", "E_NO_IMPLEMENT",
              "E_ID_NOT_EXIST", "E_NO_PERMISSION", "E_OUT_OF_BUFFER", "E_OVER_LOW_LIMIT",
              "E_OVER_HIGH_LIMIT"}

Access == {"READ", "READ_WRITE", "WRITE_PROTECT", "READ_PROTECT", "READ_WRITE_PROTECT"}

\* The values of the enumeration, as they go over the line.
AccessCode(access) ==
  CASE access = "READ" -> 0
    [] access = "READ_WRITE" -> 1
    [] access = "WRITE_PROTECT" -> 2
    [] access = "READ_PROTECT" -> 3
    [] access = "READ_WRITE_PROTECT" -> 4

\* The table above the enumeration: who may read and who may write.
MayRead(access, privileged) ==
  access \in {"READ", "READ_WRITE", "WRITE_PROTECT"} \/ privileged

MayWrite(access, privileged) ==
  \/ access = "READ_WRITE"
  \/ access \in {"WRITE_PROTECT", "READ_WRITE_PROTECT"} /\ privileged

-----------------------------------------------------------------------------

\* Mutants of the checks: a line of the function is missing.
CheckReadShort(access, privileged) ==
  IF access = "READ_WRITE_PROTECT" /\ ~privileged THEN "E_NO_PERMISSION" ELSE "S_OK"

CheckWriteShort(access, privileged) ==
  IF access \in {"READ", "READ_PROTECT"} THEN "E_READ_ONLY" ELSE "S_OK"

CheckRead(access, privileged) ==
  IF access \in {"READ_PROTECT", "READ_WRITE_PROTECT"} /\ ~privileged
    THEN "E_NO_PERMISSION" ELSE "S_OK"

CheckWrite(access, privileged) ==
  IF access = "READ" \/ (access = "READ_PROTECT" /\ privileged) THEN "E_READ_ONLY"
  ELSE IF access # "READ_WRITE" /\ ~privileged THEN "E_NO_PERMISSION"
  ELSE "S_OK"
=============================================================================
