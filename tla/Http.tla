-------------------------------- MODULE Http --------------------------------
(***************************************************************************)
(* What the gateway's HTTP handlers share: the gRPC codes of the services, *)
(* the HTTP statuses they are turned into, and the forms in which the body *)
(* of a request can be refused before a handler looks at its fields.       *)
(***************************************************************************)
EXTENDS Naturals

Code == {"OK", "NotFound", "Unauthenticated", "InvalidArgument", "AlreadyExists",
         "PermissionDenied", "DeadlineExceeded", "Unavailable", "Internal"}

Status == {200, 400, 401, 403, 404, 408, 409, 413, 422, 500}

MapGrpcErrors(code) ==
  CASE code = "OK"               -> 200
    [] code = "PermissionDenied" -> 403
    [] code = "Unauthenticated"  -> 401
    [] code = "InvalidArgument"  -> 400
    [] code = "NotFound"         -> 404
    [] code = "DeadlineExceeded" -> 408
    [] code = "AlreadyExists"    -> 409
    [] OTHER                     -> 500

(* A JSON body: of another content type, not JSON or of other fields, larger *)
(* than the limit, without a required field, or good.                        *)
Body == {"otherType", "malformed", "tooLarge", "incomplete", "good"}

JsonReqErrCheck(body) == IF body = "tooLarge" THEN 413 ELSE 400

=============================================================================
