------------------------------- MODULE Codes -------------------------------
(***************************************************************************)
(* The vocabularies that cross the C boundary or the wire (error.rs,       *)
(* wire.rs): the numeric result codes of the library against the Error     *)
(* enum, and the status tokens of a response against the Status enum.      *)
(* Each is a pair of hand-written tables in the code, one per direction,   *)
(* that nothing keeps equal.                                               *)
(*                                                                         *)
(* An Error is a record, so that the catch-all Other(code) is one too.     *)
(***************************************************************************)
EXTENDS Integers

Named(n) == [is |-> n, value |-> 0]
Other(c) == [is |-> "Other", value |-> c]

(***************************************************************************)
(* Error::code.                                                            *)
(***************************************************************************)
Code(e) ==
    CASE e.is = "ConfigInvalid"         -> -101 [] e.is = "ConfigMissing"         -> -102
      [] e.is = "NetworkConnect"        -> -201 [] e.is = "NetworkTimeout"        -> -202
      [] e.is = "NetworkClosed"         -> -203 [] e.is = "NetworkQuic"           -> -204
      [] e.is = "NetworkTls"            -> -205
      [] e.is = "CryptoKeygen"          -> -301 [] e.is = "CryptoRand"            -> -302
      [] e.is = "CryptoSign"            -> -303 [] e.is = "CryptoVerify"          -> -304
      [] e.is = "CryptoFatalCert"       -> -381 [] e.is = "CryptoFatalNodeIdMismatch" -> -382
      [] e.is = "CryptoFatalChallenge"  -> -383 [] e.is = "CryptoFatalServerSig"  -> -384
      [] e.is = "CryptoFatalClientSig"  -> -385
      [] e.is = "ProtoInvalidMessage"   -> -401 [] e.is = "ProtoInvalidMethod"    -> -402
      [] e.is = "ProtoInvalidHeader"    -> -403 [] e.is = "ProtoConnectRequired"  -> -404
      [] e.is = "ProtoStreamReuse"      -> -405 [] e.is = "ProtoMaxStreams"       -> -406
      [] e.is = "ProtoFlowControl"      -> -407 [] e.is = "ProtoMessageTooLarge"  -> -408
      [] e.is = "ProtoFatalVersion"     -> -481
      [] e.is = "IdentityGenerate"      -> -501 [] e.is = "IdentityMismatch"      -> -502
      [] e.is = "IdentityNotFound"      -> -503 [] e.is = "IdentityRevoked"       -> -504
      [] e.is = "AppNotFound"           -> -601 [] e.is = "AppConflict"           -> -602
      [] e.is = "AppRateLimited"        -> -603 [] e.is = "AppForbidden"          -> -604
      [] e.is = "TrustInvalidEntry"     -> -701 [] e.is = "TrustInvalidAnchor"    -> -702
      [] e.is = "TrustStaleCheckpoint"  -> -703 [] e.is = "TrustThreshold"        -> -704
      [] e.is = "TrustRevoked"          -> -705 [] e.is = "TrustNoCheckpoint"     -> -706
      [] e.is = "TrustFatalEquivocation" -> -781 [] e.is = "TrustFatalLogCorrupt" -> -782
      [] e.is = "Internal"              -> -801 [] e.is = "InternalAlloc"         -> -802
      [] e.is = "WouldBlock"            -> -803
      [] OTHER                          -> e.value

(***************************************************************************)
(* Error::from_code.  Any code without a name is kept, whatever its sign.  *)
(***************************************************************************)
FromCode(c) ==
    CASE c = -101 -> Named("ConfigInvalid")         [] c = -102 -> Named("ConfigMissing")
      [] c = -201 -> Named("NetworkConnect")        [] c = -202 -> Named("NetworkTimeout")
      [] c = -203 -> Named("NetworkClosed")         [] c = -204 -> Named("NetworkQuic")
      [] c = -205 -> Named("NetworkTls")
      [] c = -301 -> Named("CryptoKeygen")          [] c = -302 -> Named("CryptoRand")
      [] c = -303 -> Named("CryptoSign")            [] c = -304 -> Named("CryptoVerify")
      [] c = -381 -> Named("CryptoFatalCert")       [] c = -382 -> Named("CryptoFatalNodeIdMismatch")
      [] c = -383 -> Named("CryptoFatalChallenge")  [] c = -384 -> Named("CryptoFatalServerSig")
      [] c = -385 -> Named("CryptoFatalClientSig")
      [] c = -401 -> Named("ProtoInvalidMessage")   [] c = -402 -> Named("ProtoInvalidMethod")
      [] c = -403 -> Named("ProtoInvalidHeader")    [] c = -404 -> Named("ProtoConnectRequired")
      [] c = -405 -> Named("ProtoStreamReuse")      [] c = -406 -> Named("ProtoMaxStreams")
      [] c = -407 -> Named("ProtoFlowControl")      [] c = -408 -> Named("ProtoMessageTooLarge")
      [] c = -481 -> Named("ProtoFatalVersion")
      [] c = -501 -> Named("IdentityGenerate")      [] c = -502 -> Named("IdentityMismatch")
      [] c = -503 -> Named("IdentityNotFound")      [] c = -504 -> Named("IdentityRevoked")
      [] c = -601 -> Named("AppNotFound")           [] c = -602 -> Named("AppConflict")
      [] c = -603 -> Named("AppRateLimited")        [] c = -604 -> Named("AppForbidden")
      [] c = -701 -> Named("TrustInvalidEntry")     [] c = -702 -> Named("TrustInvalidAnchor")
      [] c = -703 -> Named("TrustStaleCheckpoint")  [] c = -704 -> Named("TrustThreshold")
      [] c = -705 -> Named("TrustRevoked")          [] c = -706 -> Named("TrustNoCheckpoint")
      [] c = -781 -> Named("TrustFatalEquivocation") [] c = -782 -> Named("TrustFatalLogCorrupt")
      [] c = -801 -> Named("Internal")              [] c = -802 -> Named("InternalAlloc")
      [] c = -803 -> Named("WouldBlock")
      [] OTHER    -> Other(c)

(* Error::is_fatal: the connection, or the trust state, is dead.           *)
IsFatal(e) ==
    e.is \in {"CryptoFatalCert", "CryptoFatalNodeIdMismatch", "CryptoFatalChallenge",
              "CryptoFatalServerSig", "CryptoFatalClientSig", "ProtoFatalVersion",
              "TrustFatalEquivocation", "TrustFatalLogCorrupt"}

(* Error::check: what a call reports, "Ok" or the error's name.            *)
Check(c) == IF c >= 0 THEN "Ok" ELSE FromCode(c).is

(***************************************************************************)
(* Statuses, and the token the library renders each as (nwep_status_str).  *)
(***************************************************************************)
Status == {"Ok", "Created", "Accepted", "NoContent", "PartialContent", "Moved",
           "NotModified", "BadRequest", "Unauthorized", "Forbidden", "NotFound",
           "NotAllowed", "Conflict", "Gone", "TooLarge", "PreconditionFailed",
           "RangeNotSatisfiable", "RateLimited", "Error", "Unavailable", "Timeout",
           "NotImplemented"}

StatusToken(s) ==
    CASE s = "Ok" -> "ok" [] s = "Created" -> "created" [] s = "Accepted" -> "accepted"
      [] s = "NoContent" -> "no-content" [] s = "PartialContent" -> "partial-content"
      [] s = "Moved" -> "moved" [] s = "NotModified" -> "not-modified"
      [] s = "BadRequest" -> "bad-request" [] s = "Unauthorized" -> "unauthorized"
      [] s = "Forbidden" -> "forbidden" [] s = "NotFound" -> "not-found"
      [] s = "NotAllowed" -> "not-allowed" [] s = "Conflict" -> "conflict"
      [] s = "Gone" -> "gone" [] s = "TooLarge" -> "too-large"
      [] s = "PreconditionFailed" -> "precondition-failed"
      [] s = "RangeNotSatisfiable" -> "range-not-satisfiable"
      [] s = "RateLimited" -> "rate-limited" [] s = "Error" -> "error"
      [] s = "Unavailable" -> "unavailable" [] s = "Timeout" -> "timeout"
      [] s = "NotImplemented" -> "not-implemented"

(* Status::from_token: a token of a newer peer degrades to Error.          *)
FromToken(t) ==
    CASE t = "ok" -> "Ok" [] t = "created" -> "Created" [] t = "accepted" -> "Accepted"
      [] t = "no-content" -> "NoContent" [] t = "partial-content" -> "PartialContent"
      [] t = "moved" -> "Moved" [] t = "not-modified" -> "NotModified"
      [] t = "bad-request" -> "BadRequest" [] t = "unauthorized" -> "Unauthorized"
      [] t = "forbidden" -> "Forbidden" [] t = "not-found" -> "NotFound"
      [] t = "not-allowed" -> "NotAllowed" [] t = "conflict" -> "Conflict"
      [] t = "gone" -> "Gone" [] t = "too-large" -> "TooLarge"
      [] t = "precondition-failed" -> "PreconditionFailed"
      [] t = "range-not-satisfiable" -> "RangeNotSatisfiable"
      [] t = "rate-limited" -> "RateLimited"
      [] t = "unavailable" -> "Unavailable" [] t = "timeout" -> "Timeout"
      [] t = "not-implemented" -> "NotImplemented"
      [] OTHER -> "Error"

(***************************************************************************)
(* Kinds of result that C returns in the place of an error code.           *)
(***************************************************************************)
Known(n)   == [ok |-> TRUE, value |-> n]
Failed(c)  == [ok |-> FALSE, value |-> FromCode(c)]

(* EntryType::of: the leading byte of a log entry, or an error.            *)
EntryTypeOf(c) ==
    CASE c = 1 -> Known("KeyBinding") [] c = 2 -> Known("KeyRotation")
      [] c = 3 -> Known("Revocation") [] c = 4 -> Known("AnchorChange")
      [] OTHER -> Failed(c)

(* Request::range: how a range header resolves against a resource.         *)
RangeOutcome(c) ==
    CASE c = 0 -> Known("Ranges") [] c = 2 -> Known("Unsatisfiable")
      [] c = 1 -> Known("Full") [] OTHER -> Failed(c)

(* RevocationReason::code, and the reason read back from a decoded entry:  *)
(* an unknown byte is no reason, not an error.                             *)
Reasons == {"Compromised", "Rotation", "Decommission"}

ReasonCode(r) ==
    CASE r = "Compromised" -> 1 [] r = "Rotation" -> 2 [] r = "Decommission" -> 3

ReasonFrom(b) ==
    CASE b = 1 -> "Compromised" [] b = 2 -> "Rotation" [] b = 3 -> "Decommission"
      [] OTHER -> "None"

=============================================================================
