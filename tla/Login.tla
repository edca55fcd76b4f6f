-------------------------------- MODULE Login -------------------------------
(***************************************************************************)
(* Logging in with a code sent to a phone, or with a partner's password.    *)
(* Sending a code takes two transactions (the earlier codes are invalidated, *)
(* then the new one is stored), logging in two more (the code is used, then  *)
(* the account is checked, or made); the worker may be lost between them.    *)
(* One request at a time: two for one phone at once can leave two codes.     *)
(* Hashes and tokens are left out: whoever names a code has received it.     *)
(***************************************************************************)
EXTENDS Integers, Sequences

CONSTANTS
  Phones,         \* the phones of a behaviour
  ShopPhone,      \* one of them, of a restaurant, ...
  OwnerPhone,     \* ... whose owner's account has this one
  CodeLife,       \* OTP_TTL_MINUTES
  LastMinute,     \* bound on the minutes of a behaviour
  MaxCodes,       \* bound on the codes sent
  NoAccount,      \* no users row
  NoTask          \* no request is under way

ASSUME LoginAssumption == ShopPhone \in Phones /\ OwnerPhone \in Phones /\ CodeLife \in Nat

VARIABLES
  minute,         \* the time
  accounts,       \* users by phone: [role, active, terms, password, onboarded]
  codes,          \* rows of otps with purpose login: [phone, until, used]
  task,           \* the request that waits for its second transaction
  session         \* the last session opened: [code, phone, account, role]

loginVars == <<minute, accounts, codes, task, session>>

CodeRoles == {"customer", "restaurant_owner", "delivery_partner"}
PartnerRoles == {"restaurant_owner", "delivery_partner"}
NoSession == [code |-> 0, account |-> NoTask, role |-> "none"]

Account(role, terms) ==
  [role |-> role, active |-> TRUE, terms |-> terms, password |-> FALSE, onboarded |-> FALSE]

(* A rider's account may be older than his onboarding.                        *)
LoginInit ==
  /\ minute = 0
  /\ \E riders \in SUBSET (Phones \ {OwnerPhone}) :
       accounts = [p \in Phones |->
         IF p = OwnerPhone THEN Account("restaurant_owner", FALSE)
         ELSE IF p \in riders THEN Account("delivery_partner", FALSE) ELSE NoAccount]
  /\ codes = <<>> /\ task = NoTask /\ session = NoSession

(* find_user_by_phone: the phone whose account a login is for.                *)
AccountFor(phone, role) ==
  IF accounts[phone] = NoAccount /\ role = "restaurant_owner" /\ phone = ShopPhone
  THEN OwnerPhone ELSE phone

(* ensure_role_can_register, and the checks both requests make.               *)
MayLogIn(phone, role) ==
  LET account == accounts[AccountFor(phone, role)]
  IN  IF account = NoAccount THEN role \notin PartnerRoles
      ELSE account.role = role /\ account.active

(* Mutant of Invalidated: earlier codes stay valid.                           *)
Untouched(rows, phone) == rows

Invalidated(rows, phone) ==
  [i \in DOMAIN rows |-> IF rows[i].phone = phone THEN [rows[i] EXCEPT !.used = TRUE] ELSE rows[i]]

(* send_otp, and send_login_otp to its first commit.                          *)
SendCode(phone, role) ==
  /\ task = NoTask /\ Len(codes) < MaxCodes
  /\ MayLogIn(phone, role)
  /\ codes' = Invalidated(codes, phone)
  /\ task' = [op |-> "send", phone |-> phone]
  /\ UNCHANGED <<minute, accounts, session>>

(* send_login_otp from its first commit.                                      *)
StoreCode ==
  /\ task # NoTask /\ task.op = "send"
  /\ codes' = Append(codes, [phone |-> task.phone, until |-> minute + CodeLife, used |-> FALSE])
  /\ task' = NoTask
  /\ UNCHANGED <<minute, accounts, session>>

(* verify_login_otp; a code that is used or has expired is refused.           *)
UseCode(i, role, accepted) ==
  /\ task = NoTask
  /\ ~codes[i].used /\ minute < codes[i].until
  /\ codes' = [codes EXCEPT ![i].used = TRUE]
  /\ task' = [op |-> "verify", code |-> i, phone |-> codes[i].phone, role |-> role,
              accepted |-> accepted]
  /\ UNCHANGED <<minute, accounts, session>>

Opened(code, phone, role, terms) ==
  /\ accounts' = [accounts EXCEPT ![phone] =
       IF @ = NoAccount THEN Account(role, terms) ELSE [@ EXCEPT !.terms = terms]]
  /\ session' = [code |-> code, account |-> phone, role |-> role]

(* verify_otp_and_login from there: the terms must be accepted at every login. *)
FinishLogin ==
  /\ task # NoTask /\ task.op = "verify"
  /\ MayLogIn(task.phone, task.role) /\ task.accepted
  /\ Opened(task.code, AccountFor(task.phone, task.role), task.role, TRUE)
  /\ task' = NoTask
  /\ UNCHANGED <<minute, codes>>

(* The login is refused (the code is used up), or the worker is lost.         *)
GiveUp ==
  /\ task # NoTask /\ task' = NoTask
  /\ UNCHANGED <<minute, accounts, codes, session>>

(* partner_password_login: an account of that role on the phone, or else the  *)
(* owner of the restaurant that has it, whatever account has the phone too;   *)
(* the terms must be accepted only where their current version was not.       *)
PartnerFor(phone, role) ==
  LET account == accounts[phone]
  IN  IF /\ role = "restaurant_owner" /\ phone = ShopPhone
         /\ account # NoAccount => account.role # role \/ ~ account.active
      THEN OwnerPhone ELSE phone

PasswordLogin(phone, role, accepted) ==
  LET owner == PartnerFor(phone, role)
      account == accounts[owner]
  IN  /\ task = NoTask /\ role \in PartnerRoles
      /\ account # NoAccount /\ account.role = role /\ account.active /\ account.password
      /\ account.terms \/ accepted
      /\ Opened(0, owner, role, TRUE)
      /\ UNCHANGED <<minute, codes, task>>

(* create_delivery_partner, of a phone no account has or a rider who is not   *)
(* onboarded yet; create_restaurant (_get_or_create_owner), also of one that  *)
(* an owner's account has.                                                    *)
RegisterRider(phone, password) ==
  /\ task = NoTask
  /\ accounts[phone] # NoAccount =>
       accounts[phone].role = "delivery_partner" /\ ~ accounts[phone].onboarded
  /\ LET account == IF accounts[phone] = NoAccount THEN Account("delivery_partner", FALSE)
                    ELSE accounts[phone]
     IN  accounts' = [accounts EXCEPT ![phone] =
           [account EXCEPT !.active = TRUE, !.password = @ \/ password, !.onboarded = TRUE]]
  /\ UNCHANGED <<minute, codes, task, session>>

RegisterOwner(phone, password) ==
  /\ task = NoTask
  /\ accounts[phone] # NoAccount => accounts[phone].role = "restaurant_owner"
  /\ accounts' = [accounts EXCEPT ![phone] =
       IF @ = NoAccount THEN [Account("restaurant_owner", FALSE) EXCEPT !.password = password]
       ELSE [@ EXCEPT !.password = @ \/ password]]
  /\ UNCHANGED <<minute, codes, task, session>>

(* set_customer_status and set_delivery_partner_status; between the two       *)
(* transactions of a login, too.                                              *)
Block(phone) ==
  /\ accounts[phone] # NoAccount /\ accounts[phone].role # "restaurant_owner"
  /\ accounts' = [accounts EXCEPT ![phone].active = ~@]
  /\ UNCHANGED <<minute, codes, task, session>>

NextMinute ==
  /\ minute < LastMinute /\ minute' = minute + 1
  /\ UNCHANGED <<accounts, codes, task, session>>

LoginNext ==
  \/ \E p \in Phones, role \in CodeRoles :
       \/ SendCode(p, role)
       \/ \E accepted \in BOOLEAN : PasswordLogin(p, role, accepted)
  \/ \E i \in DOMAIN codes, role \in CodeRoles, accepted \in BOOLEAN : UseCode(i, role, accepted)
  \/ \E p \in Phones, password \in BOOLEAN : RegisterRider(p, password) \/ RegisterOwner(p, password)
  \/ \E p \in Phones : Block(p)
  \/ StoreCode \/ FinishLogin \/ GiveUp \/ NextMinute

LoginSpec == LoginInit /\ [][LoginNext]_loginVars

(* A session that a code opened was opened by the last code sent to that      *)
(* phone, once, for an account of that role that was not blocked; and since   *)
(* the code was used its owner has accepted the current terms. Losing the     *)
(* worker between two transactions costs a code, never opens a session.       *)
SessionsAreEarned ==
  [][session' # session /\ session'.code # 0 =>
       LET i == session'.code
       IN  /\ \A j \in DOMAIN codes : j > i => codes[j].phone # codes[i].phone
           /\ codes[i].used
           /\ session.code # i
           /\ accounts'[session'.account].role = session'.role
           /\ accounts'[session'.account].active /\ accounts'[session'.account].terms
           /\ session'.account = codes[i].phone
              \/ (codes[i].phone = ShopPhone /\ session'.account = OwnerPhone)
    ]_loginVars
=============================================================================
