------------------------------- MODULE Session -------------------------------
(***************************************************************************)
(* The Session of src/deconet/Efficiency/epic_process/authentication/     *)
(* logout.rs (its second definition, with logged_in and user_id; the     *)
(* first, with logged_in alone, is the projection of this one on          *)
(* logged_in).  Sessions is a set of Session values, one per client; a    *)
(* session is owned by one caller and every method takes &mut self, so a  *)
(* behaviour interleaves whole method calls on the sessions.              *)
(***************************************************************************)
EXTENDS Naturals

CONSTANTS
    Sessions,       \* the Session values in existence
    UserIds,        \* u64 arguments of login_with_id and set_user_id
    Usernames,      \* usernames given to login_with_username_password
    Passwords,      \* passwords given to login_with_username_password
    Credentials,    \* fingerprints, tokens and card ids given to the other logins
    None            \* Option::None

ASSUME {1, 2, 3, 4} \subseteq UserIds

VARIABLES
    logged_in,      \* Session.logged_in of each session
    user_id         \* Session.user_id of each session

vars == <<logged_in, user_id>>

TypeOK ==
    /\ logged_in \in [Sessions -> BOOLEAN]
    /\ user_id \in [Sessions -> UserIds \cup {None}]

(* Session::new for every session *)
Init ==
    /\ logged_in = [s \in Sessions |-> FALSE]
    /\ user_id = [s \in Sessions |-> None]

(* Both fields set together, as every login_with_* does. *)
LogIn(s, id) ==
    /\ logged_in' = [logged_in EXCEPT ![s] = TRUE]
    /\ user_id' = [user_id EXCEPT ![s] = id]

(* login_with_id *)
LoginWithId(s, id) == LogIn(s, id)

(* Fault: user id reset to Some(0) rather than None. *)
LogoutToZero(s) ==
    /\ logged_in' = [logged_in EXCEPT ![s] = FALSE]
    /\ user_id' = [user_id EXCEPT ![s] = 0]

(* logout: both fields cleared. *)
Logout(s) ==
    /\ logged_in' = [logged_in EXCEPT ![s] = FALSE]
    /\ user_id' = [user_id EXCEPT ![s] = None]

(* set_user_id: user_id = Some(id), whatever logged_in is. *)
SetUserId(s, id) ==
    /\ user_id' = [user_id EXCEPT ![s] = id]
    /\ UNCHANGED logged_in

(* login_with_username_password: only ("admin", "password") is accepted *)
(* and gets user id 1; anything else returns Err and changes nothing.   *)
LoginWithUsernamePassword(s, u, p) ==
    \/ /\ u = "admin" /\ p = "password"
       /\ LogIn(s, 1)
    \/ /\ ~(u = "admin" /\ p = "password")
       /\ UNCHANGED vars

(* The credential argument is never examined. *)
LoginWithFingerprint(s, f) == LogIn(s, 2)
LoginWithToken(s, t)       == LogIn(s, 3)
LoginWithSmartCard(s, c)   == LogIn(s, 4)

(* is_admin: user_id == Some(1). *)
IsAdmin(s) == user_id[s] = 1

Next ==
    \E s \in Sessions :
        \/ \E id \in UserIds : LoginWithId(s, id) \/ SetUserId(s, id)
        \/ Logout(s)
        \/ \E u \in Usernames, p \in Passwords : LoginWithUsernamePassword(s, u, p)
        \/ \E c \in Credentials :
              \/ LoginWithFingerprint(s, c)
              \/ LoginWithToken(s, c)
              \/ LoginWithSmartCard(s, c)

Spec == Init /\ [][Next]_vars

-----------------------------------------------------------------------------
(* Properties *)

(* set_user_id is documented as "Sets the ID of the logged-in user", and *)
(* is_admin as a check on the user of the session, so a session that is *)
(* not logged in is never an admin session.                               *)
AdminOnlyWhenLoggedIn == \A s \in Sessions : IsAdmin(s) => logged_in[s]
=============================================================================
