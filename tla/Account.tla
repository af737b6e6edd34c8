------------------------------- MODULE Account -------------------------------
(***************************************************************************)
(* The account record of src/deconet/Efficiency/epic_process/            *)
(* authentication: register.rs (registration, username, email and        *)
(* password updates), verify.rs (verification flag) and reset_password.rs *)
(* (password reset).  Each file declares its own struct User over the     *)
(* fields username, email, password (verify.rs adds verified); this      *)
(* module is one account on which the methods of the three files are     *)
(* called, one call at a time (&mut self).                                *)
(*                                                                         *)
(* Ghost variables: registered is TRUE once register() returned Ok,       *)
(* verificationSent once send_verification_email ran.                     *)
(***************************************************************************)
EXTENDS Naturals, Sequences

CONSTANTS
    Usernames,      \* usernames (model values)
    Emails,         \* email addresses (model values)
    Passwords,      \* passwords (strings; their length matters)
    Tokens          \* verification and reset tokens (strings)

MinPasswordLen == 8     \* is_password_valid: password.len() >= 8
MinResetTokenLen == 10  \* validate_reset_token: token.len() >= 10

VARIABLES
    username, email, password, verified,
    registered,         \* ghost
    verificationSent    \* ghost

vars == <<username, email, password, verified, registered, verificationSent>>

TypeOK ==
    /\ username \in Usernames
    /\ email \in Emails
    /\ password \in Passwords
    /\ verified \in BOOLEAN
    /\ registered \in BOOLEAN
    /\ verificationSent \in BOOLEAN

(* is_password_valid *)
IsPasswordValid(p) == Len(p) >= MinPasswordLen

(* validate_reset_token *)
ValidateResetToken(t) == Len(t) >= MinResetTokenLen

(* User::new(username, email, password), verified: false *)
Init ==
    /\ username \in Usernames
    /\ email \in Emails
    /\ password \in Passwords
    /\ verified = FALSE
    /\ registered = FALSE
    /\ verificationSent = FALSE

(* register: Ok iff is_password_valid, nothing stored either way. *)
Register ==
    /\ registered' = (registered \/ IsPasswordValid(password))
    /\ UNCHANGED <<username, email, password, verified, verificationSent>>

(* set_email, and set_email_with_confirmation (the same assignment       *)
(* followed by a println).                                               *)
SetEmail(e) ==
    /\ email' = e
    /\ UNCHANGED <<username, password, verified, registered, verificationSent>>

(* update_username *)
UpdateUsername(u) ==
    /\ username' = u
    /\ UNCHANGED <<email, password, verified, registered, verificationSent>>

(* update_password (register.rs) and reset_password (reset_password.rs): *)
(* plain assignment, no validation.                                       *)
UpdatePassword(p) ==
    /\ password' = p
    /\ UNCHANGED <<username, email, verified, registered, verificationSent>>

(* Fault: the password cleared when the token is rejected. *)
ResetPasswordWithTokenClears(t, p) ==
    /\ password' = IF ValidateResetToken(t) THEN p ELSE ""
    /\ UNCHANGED <<username, email, verified, registered, verificationSent>>

(* reset_password_with_token: assign if validate_reset_token, else Err. *)
ResetPasswordWithToken(t, p) ==
    /\ password' = IF ValidateResetToken(t) THEN p ELSE password
    /\ UNCHANGED <<username, email, verified, registered, verificationSent>>

(* send_verification_email: a println; no token is created. *)
SendVerificationEmail ==
    /\ verificationSent' = TRUE
    /\ UNCHANGED <<username, email, password, verified, registered>>

(* verify_account(token): set_verified(true), Ok, token unused. *)
VerifyAccount(t) ==
    /\ verified' = TRUE
    /\ UNCHANGED <<username, email, password, registered, verificationSent>>

(* set_verified *)
SetVerified(b) ==
    /\ verified' = b
    /\ UNCHANGED <<username, email, password, registered, verificationSent>>

Next ==
    \/ Register
    \/ \E e \in Emails : SetEmail(e)
    \/ \E u \in Usernames : UpdateUsername(u)
    \/ \E p \in Passwords : UpdatePassword(p)
    \/ \E t \in Tokens, p \in Passwords : ResetPasswordWithToken(t, p)
    \/ SendVerificationEmail
    \/ \E t \in Tokens : VerifyAccount(t)
    \/ \E b \in BOOLEAN : SetVerified(b)

Spec == Init /\ [][Next]_vars
=============================================================================
