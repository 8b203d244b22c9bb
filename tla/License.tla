------------------------------ MODULE License ------------------------------
(***************************************************************************)
(* The license session of one user: the ledger the seller keeps on the     *)
(* internet (license_ledger.py), the signed cookie and the remembered      *)
(* password of this computer (license_session.py), and the gate before the *)
(* panel's API (web/server.py).  Time is counted in hours; the hour of the *)
(* ledger's server and the local one are the same.                         *)
(***************************************************************************)
EXTENDS Integers

CONSTANTS
    Passwords,
    Expiries,           \* the last days a seller may write, as numbers
    Hours,              \* of a day
    SessionDays,        \* a session is signed for 30 days at most
    CookieDays,         \* and kept by the browser for 40
    MaxHour             \* bound

LicenseAssumption ==
    /\ Passwords # {} /\ Expiries # {} /\ Expiries \subseteq Int
    /\ Hours \in Nat \ {0} /\ SessionDays \in Nat \ {0} /\ CookieDays \in Nat \ {0}
    /\ MaxHour \in Nat

VARIABLES
    hour,
    row,                \* the user's row of the ledger
    cookie,             \* md_lic in the browser
    remembered,         \* the password in license_remember.json
    read                \* ghost: the hour of the last successful look into the ledger

vars == <<hour, row, cookie, remembered, read>>

Least(a, b) == IF a < b THEN a ELSE b
Most(a, b) == IF a > b THEN a ELSE b

Rows == [password : Passwords, status : {"active", "disabled", "absent"}, expires : Expiries]
NoCookie == [exp |-> -1, expires |-> -1, till |-> -1]
Session == -1           \* a cookie without max_age lasts until the browser is closed
Nothing == ""

Today == hour \div Hours
DaysLeft == row.expires - Today

\* refresh_user, and check_login with the password
Refreshed == row.status = "active" /\ DaysLeft >= 0
Checked(password) == Refreshed /\ password = row.password

\* Mutant of SessionHours: signed until the end of the day after the last one.
SessionHoursWhole == Most(1, (Least(DaysLeft, SessionDays) + 1) * Hours + 1)

\* payload_from_check: the days that are left and an hour
SessionHours == Most(1, Least(DaysLeft, SessionDays) * Hours + 1)

\* set_cookie
KeptHours == Most(1, Least(IF DaysLeft = 0 THEN 1 ELSE DaysLeft, CookieDays)) * Hours
Signed(keep) ==
    [exp |-> hour + SessionHours, expires |-> row.expires,
     till |-> IF keep THEN hour + KeptHours ELSE Session]

\* verify_payload: the grace of two minutes is less than an hour.
InBrowser == cookie # NoCookie /\ (cookie.till = Session \/ hour < cookie.till)
Passes == InBrowser /\ hour <= cookie.exp

-----------------------------------------------------------------------------

\* Any row of the seller's may follow at once.
Init ==
    /\ hour = 0 /\ row = (CHOOSE r \in Rows : r.status = "absent") /\ cookie = NoCookie /\ remembered = Nothing /\ read = 0

Tick == hour < MaxHour /\ hour' = hour + 1 /\ UNCHANGED <<row, cookie, remembered, read>>

\* The seller edits the ledger.
Edit(new) == row' = new /\ UNCHANGED <<hour, cookie, remembered, read>>

\* fetch_ledger was answered.
LookIntoLedger == read' = hour

\* save_remember, if the user wants it
Remember(password, wanted) == remembered' = IF wanted THEN password ELSE remembered

\* license_login; without a password the remembered one is tried.  Without the
\* internet, or refused by the ledger, a login changes nothing.
Login(typed, remember) ==
    LET password == IF typed = Nothing THEN remembered ELSE typed IN
    /\ password # Nothing /\ Checked(password)
    /\ cookie' = Signed(remember)
    /\ Remember(password, remember)
    /\ LookIntoLedger
    /\ UNCHANGED <<hour, row>>

\* license_me: renews a session that passes, without the password, and starts one
\* from the remembered password.  A renewal that fails leaves the cookie as it is,
\* and one that succeeds leaves it to the open browser.
Renew ==
    /\ Passes /\ Refreshed /\ cookie' = Signed(FALSE) /\ LookIntoLedger
    /\ UNCHANGED <<hour, row, remembered>>

Return ==
    /\ ~Passes /\ Checked(remembered) /\ cookie' = Signed(TRUE) /\ LookIntoLedger
    /\ UNCHANGED <<hour, row, remembered>>

Logout(forget) ==
    /\ cookie' = NoCookie
    /\ remembered' = IF forget THEN Nothing ELSE remembered
    /\ UNCHANGED <<hour, row, read>>

CloseBrowser ==
    /\ cookie.till = Session /\ cookie' = NoCookie
    /\ UNCHANGED <<hour, row, remembered, read>>

Next ==
    \/ Tick \/ Renew \/ Return \/ CloseBrowser
    \/ \E new \in Rows : Edit(new)
    \/ \E typed \in Passwords \cup {Nothing}, remember \in BOOLEAN : Login(typed, remember)
    \/ \E forget \in BOOLEAN : Logout(forget)

Spec == Init /\ [][Next]_vars

-----------------------------------------------------------------------------

\* Whatever the seller writes meanwhile and however often a renewal fails, the gate
\* lets no request through later than an hour after the last day the session was
\* signed for, nor longer than SessionDays after the ledger was last read
\* (payload_from_check, verify_payload).
SessionEndsWithLicense ==
    Passes => /\ hour <= (cookie.expires + 1) * Hours
              /\ hour <= read + SessionDays * Hours + 1
=============================================================================
