------------------------- MODULE ResponseValidation -------------------------
(* require_list and require_dict (validation.py), with the functions they   *)
(* call.  A response is [success, error, data].  Data is [type, value],     *)
(* where the value of a list is the sequence of its items' types, that of a *)
(* dict the function from its keys to data, and any other has none.  Texts  *)
(* of errors are abstracted to which of them it is.                         *)
EXTENDS Integers, Sequences, SequencesExt

CONSTANTS
  None,
  Plural            \* [contexts -> the context with an "s"]

ASSUME ValidationAssumption ==
  None \notin {"Failed to fetch", "expected list", "expected dict",
               "no data", "unexpected format"}

Absent == [type |-> "None", value |-> <<>>]

Truthy(error) == error \notin {None, ""}

\* Mutant: an empty error text is passed on.
FailureText(error) == IF error = None THEN "Failed to fetch" ELSE error

\* response.error or f"Failed to fetch {context}"
Failure(error) == IF Truthy(error) THEN error ELSE "Failed to fetch"

\* Mutant: the context comes before the key that was asked for.
CandidatesContextFirst(key, context) == <<context, key, Plural[context]>>

Candidates(key, context) == <<key, context, Plural[context]>>

\* The first of the candidate keys that the wrapper has, or None.
KeyIn(data, key, context) ==
  LET keys == Candidates(key, context)
      found == {i \in DOMAIN keys : Truthy(keys[i]) /\ keys[i] \in DOMAIN data.value}
  IN  IF found = {} THEN None ELSE keys[Min(found)]

Dicts(items) == SelectSeq(items, LAMBDA item : item = "dict")

\* validate_list_response, once a wrapper has been unwrapped.
ItemsOf(data) ==
  IF data.type = "list" THEN <<Dicts(data.value), None>>
  ELSE <<<<>>, "expected list">>

\* The pair (validated list, error or None).
ValidateListResponse(response, key, context) ==
  LET data == response.data
      k == KeyIn(data, key, context)
  IN  IF ~response.success THEN <<<<>>, Failure(response.error)>>
      ELSE IF data = Absent THEN <<<<>>, None>>
      ELSE IF data.type # "dict" THEN ItemsOf(data)
      ELSE IF k = None THEN <<<<>>, "unexpected format">>
      ELSE ItemsOf(data.value[k])

\* The pair (validated dict or None, error or None).
ValidateDictResponse(response) ==
  LET data == response.data
  IN  IF ~response.success THEN <<Absent, Failure(response.error)>>
      ELSE IF data = Absent THEN <<Absent, "no data">>
      ELSE IF data.type # "dict" THEN <<Absent, "expected dict">>
      ELSE <<data, None>>

\* What the tool gets: the value or a JSON error.
RequireList(response, key, context) ==
  LET pair == ValidateListResponse(response, key, context)
  IN  IF Truthy(pair[2]) THEN [error |-> pair[2]] ELSE [value |-> pair[1]]

RequireDict(response) ==
  LET pair == ValidateDictResponse(response)
  IN  IF Truthy(pair[2]) THEN [error |-> pair[2]]
      ELSE IF pair[1] = Absent THEN [error |-> "no data"]
      ELSE [value |-> pair[1]]
=============================================================================
