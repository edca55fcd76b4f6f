--------------------------- MODULE CustomerProofs ---------------------------
(***************************************************************************)
(* Sessions are earned, for any phones, any number of codes and any clock, *)
(* and a quote is charged as it was given, for any roads, roundings and    *)
(* days.                                                                   *)
(***************************************************************************)
EXTENDS Login, RoadQuotes, SequenceTheorems, TLAPS

-----------------------------------------------------------------------------
(* Logins.                                                                    *)
(* Sessions are earned, for any phones, any number of codes and any clock.    *)
(* That only the last code opens a session is no invariant of the codes       *)
(* alone: it rests on what the request in flight has behind it.               *)

(* What a row of users may hold.                                              *)
AccountRow ==
  [role : CodeRoles, active : BOOLEAN, terms : BOOLEAN, password : BOOLEAN, onboarded : BOOLEAN]

(* What a row of codes may hold.                                              *)
CodeRow == [phone : Phones, until : Int, used : BOOLEAN]

(* The rows' types.                                                           *)
LoginTypes ==
  /\ minute \in Int
  /\ accounts \in [Phones -> AccountRow \cup {NoAccount}]
  /\ codes \in Seq(CodeRow)

(* Of two codes of one phone only the later one can still be used.           *)
OnlyTheLast ==
  \A i, j \in DOMAIN codes : i < j /\ codes[i].phone = codes[j].phone => codes[i].used

(* What a request in flight, past its first transaction, has behind it.      *)
InFlight ==
  task # NoTask =>
    \/ /\ task.op = "send" /\ task.phone \in Phones
       /\ \A i \in DOMAIN codes : codes[i].phone = task.phone => codes[i].used
    \/ /\ task.op = "verify" /\ task.role \in CodeRoles
       /\ task.code \in DOMAIN codes
       /\ task.phone = codes[task.code].phone /\ codes[task.code].used
       /\ \A j \in DOMAIN codes : j > task.code => codes[j].phone # task.phone
       /\ session.code # task.code

(* The code of the last session is used up.                                  *)
SessionUsed == session.code # 0 => session.code \in DOMAIN codes /\ codes[session.code].used

(* The inductive invariant of codes, requests and sessions.                   *)
LoginInv == LoginTypes /\ OnlyTheLast /\ InFlight /\ SessionUsed

(* No code has been sent at first.                                            *)
LEMMA LoginInitially == LoginInit => LoginInv
  BY LoginAssumption DEF LoginInit, LoginInv, LoginTypes, OnlyTheLast, InFlight, SessionUsed,
     NoSession, Account, AccountRow, CodeRoles

(* The codes as a function on their numbers.                                  *)
LEMMA CodesTyped ==
  ASSUME LoginTypes
  PROVE  /\ Len(codes) \in Nat /\ DOMAIN codes = 1..Len(codes)
         /\ codes \in [1..Len(codes) -> CodeRow]
         /\ \A i \in DOMAIN codes : codes[i] \in CodeRow
  BY LenProperties, ElementOfSeq DEF LoginTypes

(* And back.                                                                  *)
LEMMA AsCodes ==
  ASSUME NEW n \in Nat, NEW rows \in [1..n -> CodeRow]
  PROVE  rows \in Seq(CodeRow) /\ DOMAIN rows = 1..n
  BY SeqDef

(* Every login finds its account by a phone.                                  *)
LEMMA AccountIsPhone ==
  ASSUME NEW phone \in Phones, NEW role
  PROVE  AccountFor(phone, role) \in Phones /\ PartnerFor(phone, role) \in Phones
  BY LoginAssumption DEF AccountFor, PartnerFor

(* Opening a session keeps the accounts' type and accepts the terms.         *)
LEMMA OpenedAccount ==
  ASSUME LoginTypes, NEW code, NEW phone \in Phones, NEW role \in CodeRoles,
         accounts[phone] # NoAccount => accounts[phone].role = role /\ accounts[phone].active,
         Opened(code, phone, role, TRUE)
  PROVE  /\ accounts' \in [Phones -> AccountRow \cup {NoAccount}]
         /\ accounts'[phone].role = role /\ accounts'[phone].active /\ accounts'[phone].terms
         /\ session' = [code |-> code, account |-> phone, role |-> role]
  <1>1. CASE accounts[phone] = NoAccount
    BY <1>1 DEF Opened, LoginTypes, Account, AccountRow
  <1>2. CASE accounts[phone] # NoAccount
    <2>1. accounts[phone] \in AccountRow
      BY <1>2 DEF LoginTypes
    <2> QED
      BY <1>2, <2>1 DEF Opened, LoginTypes, AccountRow
  <1> QED
    BY <1>1, <1>2

(* Every step keeps the invariant.                                            *)
LEMMA LoginStep ==
  ASSUME LoginInv, [LoginNext]_loginVars
  PROVE  LoginInv'
  <1> USE DEF LoginInv
  <1>1. ASSUME NEW phone \in Phones, NEW role \in CodeRoles, SendCode(phone, role)
        PROVE  LoginInv'
    <2>1. /\ codes' = Invalidated(codes, phone) /\ task' = [op |-> "send", phone |-> phone]
          /\ UNCHANGED <<minute, accounts, session>>
      BY <1>1 DEF SendCode
    <2>2. \A j \in DOMAIN codes :
            /\ codes'[j] \in CodeRow /\ codes'[j].phone = codes[j].phone
            /\ codes[j].used \/ codes[j].phone = phone => codes'[j].used
      BY <2>1, CodesTyped DEF Invalidated, CodeRow
    <2>3. codes' \in Seq(CodeRow) /\ DOMAIN codes' = DOMAIN codes
      <3>1. codes' \in [1..Len(codes) -> CodeRow]
        BY <2>1, <2>2, CodesTyped DEF Invalidated
      <3> QED
        BY <3>1, AsCodes, CodesTyped
    <2> QED
      BY <2>1, <2>2, <2>3, CodesTyped DEF LoginTypes, OnlyTheLast, InFlight, SessionUsed
  <1>2. ASSUME NEW phone \in Phones, NEW role \in CodeRoles, NEW accepted \in BOOLEAN,
               PasswordLogin(phone, role, accepted)
        PROVE  LoginInv'
    <2> DEFINE owner == PartnerFor(phone, role)
    <2>1. owner \in Phones /\ Opened(0, owner, role, TRUE) /\ task = NoTask
          /\ accounts[owner].role = role /\ accounts[owner].active
          /\ UNCHANGED <<minute, codes, task>>
      BY <1>2, AccountIsPhone DEF PasswordLogin
    <2>2. accounts' \in [Phones -> AccountRow \cup {NoAccount}] /\ session'.code = 0
      <3> HIDE DEF owner
      <3>1. /\ accounts' \in [Phones -> AccountRow \cup {NoAccount}]
            /\ session' = [code |-> 0, account |-> owner, role |-> role]
        BY <2>1, OpenedAccount, Zenon
      <3> QED
        BY <3>1
    <2> QED
      BY <2>1, <2>2 DEF LoginTypes, OnlyTheLast, InFlight, SessionUsed
  <1>3. ASSUME NEW i \in DOMAIN codes, NEW role \in CodeRoles, NEW accepted \in BOOLEAN,
               UseCode(i, role, accepted)
        PROVE  LoginInv'
    <2>0. /\ codes' = [codes EXCEPT ![i].used = TRUE] /\ codes[i] \in CodeRow
          /\ [codes[i] EXCEPT !.used = TRUE] \in CodeRow
      BY <1>3, CodesTyped DEF UseCode, CodeRow
    <2>1. codes' \in Seq(CodeRow) /\ DOMAIN codes' = DOMAIN codes
          /\ (\A j \in DOMAIN codes : codes'[j].phone = codes[j].phone /\ (codes[j].used => codes'[j].used))
          /\ codes'[i].used /\ ~ codes[i].used
      <3>1. codes' \in [1..Len(codes) -> CodeRow]
        BY <2>0, CodesTyped
      <3>2. codes' \in Seq(CodeRow) /\ DOMAIN codes' = DOMAIN codes
        BY <3>1, AsCodes, CodesTyped
      <3>3. \A j \in DOMAIN codes : codes'[j].phone = codes[j].phone /\ (codes[j].used => codes'[j].used)
        BY <2>0, CodesTyped DEF CodeRow
      <3> QED
        BY <1>3, <2>0, <3>2, <3>3 DEF UseCode, CodeRow
    <2>2. LoginTypes' /\ OnlyTheLast' /\ SessionUsed'
      BY <1>3, <2>1 DEF UseCode, LoginTypes, OnlyTheLast, SessionUsed
    <2>3. \A j \in DOMAIN codes : j > i => codes[j].phone # codes[i].phone
      BY <2>1 DEF OnlyTheLast, LoginTypes
    <2>4. session.code # i
      BY <2>1 DEF SessionUsed, LoginTypes
    <2>5. InFlight'
      BY <1>3, <2>1, <2>3, <2>4 DEF UseCode, InFlight
    <2> QED
      BY <2>2, <2>5
  <1>4. ASSUME NEW phone \in Phones, NEW password \in BOOLEAN,
               RegisterRider(phone, password) \/ RegisterOwner(phone, password)
        PROVE  LoginInv'
    <2>1. accounts' \in [Phones -> AccountRow \cup {NoAccount}]
      <3>1. CASE accounts[phone] = NoAccount
        BY <1>4, <3>1 DEF RegisterRider, RegisterOwner, LoginTypes, Account, AccountRow, CodeRoles
      <3>2. CASE accounts[phone] # NoAccount
        <4>1. accounts[phone] \in AccountRow
          BY <3>2 DEF LoginTypes
        <4>2. PICK row \in AccountRow : accounts' = [accounts EXCEPT ![phone] = row]
          BY <1>4, <3>2, <4>1 DEF RegisterRider, RegisterOwner, AccountRow
        <4> QED
          BY <4>2 DEF LoginTypes
      <3> QED
        BY <3>1, <3>2
    <2> QED
      BY <1>4, <2>1 DEF RegisterRider, RegisterOwner, LoginTypes, OnlyTheLast, InFlight, SessionUsed
  <1>5. ASSUME NEW phone \in Phones, Block(phone)
        PROVE  LoginInv'
    <2>1. accounts[phone] \in AccountRow
      BY <1>5 DEF Block, LoginTypes
    <2> QED
      BY <1>5, <2>1 DEF Block, LoginTypes, AccountRow, OnlyTheLast, InFlight, SessionUsed
  <1>6. ASSUME StoreCode PROVE LoginInv'
    <2> DEFINE row == [phone |-> task.phone, until |-> minute + CodeLife, used |-> FALSE]
    <2>1. task.phone \in Phones /\ task' = NoTask /\ UNCHANGED <<minute, accounts, session>>
          /\ codes' = Append(codes, row)
          /\ \A i \in DOMAIN codes : codes[i].phone = task.phone => codes[i].used
      BY <1>6 DEF StoreCode, InFlight
    <2>2. row \in CodeRow
      BY <2>1, LoginAssumption DEF LoginTypes, CodeRow
    <2>3. /\ codes' \in Seq(CodeRow) /\ DOMAIN codes' = 1..(Len(codes) + 1) /\ DOMAIN codes = 1..Len(codes)
          /\ codes'[Len(codes) + 1] = row /\ \A i \in DOMAIN codes : codes'[i] = codes[i]
      <3> HIDE DEF row
      <3> QED
        BY <2>1, <2>2 DEF LoginTypes
    <2> QED
      BY <2>1, <2>3 DEF LoginTypes, OnlyTheLast, InFlight, SessionUsed
  <1>7. ASSUME FinishLogin PROVE LoginInv'
    <2> DEFINE owner == AccountFor(task.phone, task.role)
    <2>0. /\ task.op = "verify" /\ task.role \in CodeRoles /\ task.code \in DOMAIN codes
          /\ task.phone = codes[task.code].phone /\ codes[task.code].used
      BY <1>7 DEF FinishLogin, InFlight
    <2>1. /\ task.op = "verify" /\ task.role \in CodeRoles /\ task.code \in DOMAIN codes
          /\ task.phone \in Phones /\ codes[task.code].used
      BY <2>0, CodesTyped DEF CodeRow
    <2>2. owner \in Phones
      BY <2>1, AccountIsPhone
    <2>3. /\ accounts[owner] # NoAccount => accounts[owner].role = task.role /\ accounts[owner].active
          /\ Opened(task.code, owner, task.role, TRUE)
          /\ task' = NoTask /\ UNCHANGED <<minute, codes>>
      BY <1>7 DEF FinishLogin, MayLogIn
    <2>4. accounts' \in [Phones -> AccountRow \cup {NoAccount}] /\ session'.code = task.code
      <3> HIDE DEF owner
      <3>1. /\ accounts' \in [Phones -> AccountRow \cup {NoAccount}]
            /\ session' = [code |-> task.code, account |-> owner, role |-> task.role]
        BY <2>1, <2>2, <2>3, OpenedAccount, Zenon
      <3> QED
        BY <3>1
    <2> QED
      BY <2>1, <2>3, <2>4 DEF LoginTypes, OnlyTheLast, InFlight, SessionUsed
  <1>8. ASSUME GiveUp \/ NextMinute \/ UNCHANGED loginVars PROVE LoginInv'
    BY <1>8 DEF GiveUp, NextMinute, loginVars, LoginTypes, OnlyTheLast, InFlight, SessionUsed
  <1> QED
    BY <1>1, <1>2, <1>3, <1>4, <1>5, <1>6, <1>7, <1>8 DEF LoginNext

(* Which sessions a step may open.                                           *)
Earned ==
  session' # session /\ session'.code # 0 =>
    LET i == session'.code
    IN  /\ \A j \in DOMAIN codes : j > i => codes[j].phone # codes[i].phone
        /\ codes[i].used
        /\ session.code # i
        /\ accounts'[session'.account].role = session'.role
        /\ accounts'[session'.account].active /\ accounts'[session'.account].terms
        /\ session'.account = codes[i].phone
           \/ (codes[i].phone = ShopPhone /\ session'.account = OwnerPhone)

(* Every session that is opened is earned by a code or a password.            *)
LEMMA EarnedStep ==
  ASSUME LoginInv, [LoginNext]_loginVars
  PROVE  Earned
  <1>1. CASE FinishLogin
    <2> DEFINE owner == AccountFor(task.phone, task.role)
    <2>0. /\ task.role \in CodeRoles /\ task.code \in DOMAIN codes
          /\ task.phone = codes[task.code].phone /\ codes[task.code].used
          /\ \A j \in DOMAIN codes : j > task.code => codes[j].phone # task.phone
          /\ session.code # task.code
      BY <1>1 DEF LoginInv, FinishLogin, InFlight
    <2>1. task.phone \in Phones
      BY <2>0, CodesTyped DEF LoginInv, CodeRow
    <2>2. owner \in Phones /\ (owner = task.phone \/ (task.phone = ShopPhone /\ owner = OwnerPhone))
      BY <2>1, AccountIsPhone DEF AccountFor
    <2>3. /\ accounts[owner] # NoAccount => accounts[owner].role = task.role /\ accounts[owner].active
          /\ Opened(task.code, owner, task.role, TRUE)
      BY <1>1 DEF FinishLogin, MayLogIn
    <2>4. /\ accounts'[owner].role = task.role /\ accounts'[owner].active /\ accounts'[owner].terms
          /\ session' = [code |-> task.code, account |-> owner, role |-> task.role]
      <3> HIDE DEF owner
      <3> QED
        BY <2>0, <2>1, <2>2, <2>3, OpenedAccount DEF LoginInv
    <2> HIDE DEF owner
    <2> QED
      BY <2>0, <2>2, <2>4 DEF Earned
  <1>2. CASE \E phone \in Phones, role \in CodeRoles, accepted \in BOOLEAN :
               PasswordLogin(phone, role, accepted)
    BY <1>2 DEF PasswordLogin, Opened, Earned
  <1>3. CASE UNCHANGED session
    BY <1>3 DEF Earned
  <1> QED
    BY <1>1, <1>2, <1>3 DEF LoginNext, loginVars, SendCode, UseCode, StoreCode, GiveUp, NextMinute,
       RegisterRider, RegisterOwner, Block

(* A session that a code opened was opened by the last code sent to that     *)
(* phone, once, for an account of that role that was not blocked.            *)
THEOREM SessionsCorrect == LoginSpec => SessionsAreEarned
  <1>1. LoginInit => LoginInv
    BY LoginInitially
  <1>2. LoginInv /\ [LoginNext]_loginVars => LoginInv'
    BY LoginStep
  <1>3. LoginInv /\ [LoginNext]_loginVars => [Earned]_loginVars
    BY EarnedStep
  <1>4. LoginSpec => [][Earned]_loginVars
    BY <1>1, <1>2, <1>3, PTL DEF LoginSpec
  <1> QED
    BY <1>4 DEF SessionsAreEarned, Earned

-----------------------------------------------------------------------------
(* Quotes.                                                                    *)
(* A sure quote is what an order is charged, for any zones, any distances     *)
(* Google answers and any estimates.  A road that is still kept is not        *)
(* asked for again, so as long as the oldest answer under a quote is kept,    *)
(* the cache holds what the quote was made from.                              *)

(* A cached distance and the day it is from.                                  *)
Entry == [km : Kilometres, since : 0..LastDay]

(* The distances a request may work with.                                     *)
Kms   == Kilometres \cup {0} \cup {Straight[r] : r \in Roads}

(* What a request knows of the roads.                                         *)
View  == [cache : [Roads -> Entry \cup {NoEntry}], answered : [Roads -> 0..LastDay],
          km : [Roads -> Kms], sure : [Roads -> BOOLEAN]]

(* A road's entry is from the day Google last answered for it.                *)
Dated(s) ==
  s \in View /\ \A r \in Roads : s.cache[r] # NoEntry => s.cache[r].since = s.answered[r]

(* While its oldest answer is kept, a sure quote can be read off the cache.   *)
Backs(c, q) ==
  q.sure /\ roadDay <= q.since + CacheDays =>
    /\ c["pin"] # NoEntry /\ c["pin"].since >= q.since
    /\ \/ ChargeFor(c["pin"].km) # NoCharge /\ q.charge = ChargeFor(c["pin"].km)
       \/ /\ ChargeFor(c["pin"].km) = NoCharge /\ q.charge = ChargeFor(c["centre"].km)
          /\ c["centre"] # NoEntry /\ c["centre"].since >= q.since

(* The inductive invariant: a quote is backed by the cache while it is fresh. *)
QuoteInv ==
  /\ roadDay \in 0..LastDay
  /\ Dated(Request)
  /\ quote.since \in 0..LastDay
  /\ Backs(cache, quote)
  /\ QuoteIsCharged

(* What a request learns of one road: if the entry is kept nothing changes;   *)
(* and a distance it is sure of is then in the cache.                         *)
Learns(s, t, r) ==
  /\ \A q \in Roads : q # r => /\ t.cache[q] = s.cache[q] /\ t.answered[q] = s.answered[q]
                               /\ t.km[q] = s.km[q] /\ t.sure[q] = s.sure[q]
  /\ Fresh(s.cache[r], roadDay) => t.cache = s.cache /\ t.km[r] = s.cache[r].km
  /\ t.sure[r] => t.cache[r] # NoEntry /\ t.km[r] = t.cache[r].km

(* t is the request s, having recorded a distance of road r.                  *)
Recorded(s, r, km, sure, t) ==
  /\ t \in View /\ t.cache = s.cache /\ t.answered = s.answered
  /\ t.km = [s.km EXCEPT ![r] = km] /\ t.sure = [s.sure EXCEPT ![r] = sure]

(* Recording one road leaves what is recorded of the other.                   *)
LEMMA AskedOne ==
  ASSUME NEW s \in View, NEW r \in Roads, NEW km \in Kms
  PROVE  /\ Recorded(s, r, km, TRUE, Asked(s, r, km, TRUE))
         /\ Recorded(s, r, km, FALSE, Asked(s, r, km, FALSE))
  <1>1. s.km \in [Roads -> Kms] /\ s.sure \in [Roads -> BOOLEAN]
    BY DEF View
  <1> DEFINE k == [x \in Roads |-> IF x = r THEN km ELSE s.km[x]]
             w == [x \in Roads |-> IF x = r THEN TRUE ELSE s.sure[x]]
             v == [x \in Roads |-> IF x = r THEN FALSE ELSE s.sure[x]]
  <1>2. k = [s.km EXCEPT ![r] = km] /\ k \in [Roads -> Kms]
    BY <1>1
  <1>3. w = [s.sure EXCEPT ![r] = TRUE] /\ w \in [Roads -> BOOLEAN]
    BY <1>1
  <1>4. v = [s.sure EXCEPT ![r] = FALSE] /\ v \in [Roads -> BOOLEAN]
    BY <1>1
  <1>5. /\ Asked(s, r, km, TRUE) = [s EXCEPT !.km = k, !.sure = w]
        /\ Asked(s, r, km, FALSE) = [s EXCEPT !.km = k, !.sure = v]
    BY DEF Asked
  <1> HIDE DEF k, w, v
  <1> QED
    BY <1>2, <1>3, <1>4, <1>5 DEF View, Recorded

(* What road_distance does for one road of a request.                        *)
LEMMA RoadLearns ==
  ASSUME roadDay \in 0..LastDay, NEW s, Dated(s), NEW r \in Roads, NEW t \in RoadDistance(s, r)
  PROVE  Dated(t) /\ Learns(s, t, r)
  <1>0. s \in View
    BY DEF Dated
  <1>1. CASE Fresh(s.cache[r], roadDay)
    <2>1. t = Asked(s, r, s.cache[r].km, TRUE)
      BY <1>1 DEF RoadDistance
    <2>2. s.cache[r] # NoEntry /\ s.cache[r] \in Entry
      BY <1>0, <1>1 DEF Fresh, View
    <2>3. s.cache[r].km \in Kms
      BY <2>2 DEF Entry, Kms
    <2>4. /\ t.cache = s.cache /\ t.answered = s.answered
          /\ t.km = [s.km EXCEPT ![r] = s.cache[r].km] /\ t.sure = [s.sure EXCEPT ![r] = TRUE]
          /\ t \in View
      <3>1. Recorded(s, r, s.cache[r].km, TRUE, t)
        BY <1>0, <2>1, <2>3, AskedOne
      <3> QED
        BY <3>1 DEF Recorded
    <2> QED
      BY <1>0, <2>2, <2>4 DEF Dated, Learns, View
  <1>2. CASE ~ Fresh(s.cache[r], roadDay)
    <2>1. CASE t = Asked(s, r, Straight[r], FALSE)
      <3>1. Straight[r] \in Kms
        BY DEF Kms
      <3>2. /\ t.cache = s.cache /\ t.answered = s.answered
            /\ t.km = [s.km EXCEPT ![r] = Straight[r]] /\ t.sure = [s.sure EXCEPT ![r] = FALSE]
            /\ t \in View
        <4>1. Recorded(s, r, Straight[r], FALSE, t)
          BY <1>0, <2>1, <3>1, AskedOne
        <4> QED
          BY <4>1 DEF Recorded
      <3> QED
        BY <1>0, <1>2, <3>2 DEF Dated, Learns, View
    <2>2. ASSUME NEW km \in Kilometres,
                 t = [Asked(s, r, km, TRUE) EXCEPT !.cache[r] = Stored(s.cache[r], km, roadDay),
                                                   !.answered[r] = roadDay]
          PROVE  Dated(t) /\ Learns(s, t, r)
      <3> DEFINE entry == [km |-> km, since |-> roadDay]
                 a     == Asked(s, r, km, TRUE)
      <3>1. entry \in Entry /\ entry # NoEntry /\ km \in Kms /\ entry.since = roadDay /\ entry.km = km
        BY <2>2, QuoteAssumption DEF Entry, Kms
      <3>2. t = [a EXCEPT !.cache[r] = entry, !.answered[r] = roadDay]
        BY <2>2 DEF Stored
      <3>4. /\ a \in View /\ a.cache = s.cache /\ a.answered = s.answered
            /\ a.km = [s.km EXCEPT ![r] = km] /\ a.sure = [s.sure EXCEPT ![r] = TRUE]
        <4>1. Recorded(s, r, km, TRUE, a)
          BY <1>0, <3>1, AskedOne
        <4> QED
          BY <4>1 DEF Recorded
      <3> HIDE DEF entry, a
      <3>3. /\ t.cache = [s.cache EXCEPT ![r] = entry] /\ t.answered = [s.answered EXCEPT ![r] = roadDay]
            /\ t.km = [s.km EXCEPT ![r] = km] /\ t.sure = [s.sure EXCEPT ![r] = TRUE]
            /\ t \in View
        BY <3>1, <3>2, <3>4 DEF View
      <3> QED
        BY <1>0, <1>2, <3>1, <3>3 DEF Dated, Learns, View
    <2> QED
      BY <1>2, <2>1, <2>2 DEF RoadDistance
  <1> QED
    BY <1>1, <1>2

(* What a request learns of a road takes no quote's ground away.              *)
LEMMA LearnsBacks ==
  ASSUME roadDay \in 0..LastDay, NEW s, NEW t, Dated(s), NEW r \in Roads, Learns(s, t, r),
         NEW q, q.since \in 0..LastDay, Backs(s.cache, q)
  PROVE  Backs(t.cache, q)
  <1> SUFFICES ASSUME q.sure, roadDay <= q.since + CacheDays PROVE Backs(t.cache, q)
    BY DEF Backs
  <1>1. "pin" \in Roads /\ "centre" \in Roads /\ CacheDays \in Nat
    BY QuoteAssumption DEF Roads
  <1>2. \A x \in Roads : s.cache[x] # NoEntry => s.cache[x].since \in 0..LastDay
    <2> SUFFICES ASSUME NEW x \in Roads, s.cache[x] # NoEntry PROVE s.cache[x].since \in 0..LastDay
      OBVIOUS
    <2>1. s.cache[x] \in Entry
      BY DEF Dated, View
    <2> QED
      BY <2>1 DEF Entry
  <1>3. \A x \in Roads : s.cache[x] # NoEntry /\ s.cache[x].since >= q.since => t.cache[x] = s.cache[x]
    BY <1>1, <1>2 DEF Fresh, Learns
  <1> QED
    BY <1>1, <1>3 DEF Backs

(* The menu page's quote can be read off the cache it leaves.                 *)
LEMMA QuoteBacked ==
  ASSUME roadDay \in 0..LastDay, NEW s, NEW t, Dated(s), Dated(t),
         s.sure["centre"] => s.cache["centre"] # NoEntry /\ s.km["centre"] = s.cache["centre"].km,
         Learns(s, t, "pin")
  PROVE  Backs(t.cache, QuoteOf(t)) /\ QuoteOf(t).since \in 0..LastDay
  <1>1. "pin" \in Roads /\ "centre" \in Roads /\ "pin" # "centre"
    BY DEF Roads
  <1>2. /\ t.sure["centre"] => t.cache["centre"] # NoEntry /\ t.km["centre"] = t.cache["centre"].km
        /\ t.sure["pin"] => t.cache["pin"] # NoEntry /\ t.km["pin"] = t.cache["pin"].km
    BY <1>1 DEF Learns
  <1>3. /\ t.answered["pin"] \in 0..LastDay /\ t.answered["centre"] \in 0..LastDay
        /\ t.cache["pin"] # NoEntry => t.cache["pin"].since = t.answered["pin"]
        /\ t.cache["centre"] # NoEntry => t.cache["centre"].since = t.answered["centre"]
    BY <1>1 DEF Dated, View
  <1>4. CASE ChargeFor(t.km["pin"]) # NoCharge
    <2>1. /\ QuoteOf(t).charge = ChargeFor(t.km["pin"]) /\ QuoteOf(t).sure = t.sure["pin"]
          /\ QuoteOf(t).since = t.answered["pin"]
      BY <1>4 DEF QuoteOf
    <2> QED
      BY <1>2, <1>3, <1>4, <2>1 DEF Backs
  <1>5. CASE ChargeFor(t.km["pin"]) = NoCharge
    <2>1. /\ QuoteOf(t).charge = ChargeFor(t.km["centre"])
          /\ QuoteOf(t).sure <=> t.sure["pin"] /\ t.sure["centre"]
          /\ QuoteOf(t).since = IF t.answered["pin"] < t.answered["centre"] THEN t.answered["pin"]
                                ELSE t.answered["centre"]
      BY <1>5 DEF QuoteOf
    <2>2. /\ QuoteOf(t).since \in 0..LastDay /\ t.answered["pin"] >= QuoteOf(t).since
          /\ t.answered["centre"] >= QuoteOf(t).since
      BY <1>3, <2>1
    <2> QED
      BY <1>2, <1>3, <1>5, <2>1, <2>2 DEF Backs
  <1> QED
    BY <1>4, <1>5

(* What is kept of a request.                                                *)
LEMMA Kept ==
  ASSUME NEW s, Dated(s), Keep(s)
  PROVE  Dated(Request)'
  <1>1. s.cache \in [Roads -> Entry \cup {NoEntry}] /\ s.answered \in [Roads -> 0..LastDay]
    BY DEF Dated, View
  <1>2. [r \in Roads |-> 0] \in [Roads -> Kms] /\ [r \in Roads |-> FALSE] \in [Roads -> BOOLEAN]
    BY DEF Kms
  <1> QED
    BY <1>1, <1>2 DEF Keep, Request, Dated, View

(* The charge of an order, read off a cache that backs the quote.             *)
LEMMA ChargedAsQuoted ==
  ASSUME QuoteInv, NEW s, Dated(s), Backs(s.cache, quote),
         NEW t \in RoadDistance(s, "pin")
  PROVE  /\ Dated(t) /\ Backs(t.cache, quote)
         /\ quote.sure /\ roadDay <= quote.since + CacheDays =>
              /\ ChargeFor(t.km["pin"]) # NoCharge => ChargeFor(t.km["pin"]) = quote.charge
              /\ ChargeFor(t.km["pin"]) = NoCharge =>
                   \A u \in RoadDistance(t, "centre") : ChargeFor(u.km["centre"]) = quote.charge
         /\ \A u \in RoadDistance(t, "centre") : Dated(u) /\ Backs(u.cache, quote)
  <1>1. /\ "pin" \in Roads /\ "centre" \in Roads /\ roadDay \in 0..LastDay
        /\ quote.since \in 0..LastDay /\ CacheDays \in Nat
    BY QuoteAssumption DEF Roads, QuoteInv
  <1>2. Dated(t) /\ Learns(s, t, "pin")
    BY <1>1, RoadLearns
  <1>3. Backs(t.cache, quote)
    BY <1>1, <1>2, LearnsBacks
  <1>4. ASSUME NEW u \in RoadDistance(t, "centre")
        PROVE  Dated(u) /\ Learns(t, u, "centre") /\ Backs(u.cache, quote)
    <2>1. Dated(u) /\ Learns(t, u, "centre")
      BY <1>1, <1>2, RoadLearns
    <2> QED
      BY <1>1, <1>2, <1>3, <2>1, LearnsBacks
  <1>6. ASSUME NEW v, Dated(v), NEW x \in Roads, v.cache[x] # NoEntry, v.cache[x].since >= quote.since,
               roadDay <= quote.since + CacheDays
        PROVE  Fresh(v.cache[x], roadDay)
    <2>1. v.cache[x] \in Entry
      BY <1>6 DEF Dated, View
    <2>2. v.cache[x].since \in 0..LastDay
      BY <2>1 DEF Entry
    <2> QED
      BY <1>1, <1>6, <2>2 DEF Fresh
  <1>7. ASSUME quote.sure, roadDay <= quote.since + CacheDays
        PROVE  /\ ChargeFor(t.km["pin"]) # NoCharge => ChargeFor(t.km["pin"]) = quote.charge
               /\ ChargeFor(t.km["pin"]) = NoCharge =>
                    \A u \in RoadDistance(t, "centre") : ChargeFor(u.km["centre"]) = quote.charge
    <2>1. s.cache["pin"] # NoEntry /\ s.cache["pin"].since >= quote.since
      BY <1>7 DEF Backs
    <2>2. t.cache = s.cache /\ t.km["pin"] = s.cache["pin"].km
      BY <1>1, <1>2, <1>6, <1>7, <2>1 DEF Learns
    <2>3. ASSUME ChargeFor(t.km["pin"]) = NoCharge, NEW u \in RoadDistance(t, "centre")
          PROVE  ChargeFor(u.km["centre"]) = quote.charge
      <3>1. /\ t.cache["centre"] # NoEntry /\ t.cache["centre"].since >= quote.since
            /\ quote.charge = ChargeFor(t.cache["centre"].km)
        BY <1>3, <1>7, <2>2, <2>3 DEF Backs
      <3>2. u.km["centre"] = t.cache["centre"].km
        BY <1>1, <1>2, <1>4, <1>6, <1>7, <3>1 DEF Learns
      <3> QED
        BY <3>1, <3>2
    <2> QED
      BY <1>7, <2>2, <2>3 DEF Backs
  <1> QED
    BY <1>2, <1>3, <1>4, <1>7

(* Every step keeps the invariant.                                           *)
LEMMA QuoteStep ==
  ASSUME QuoteInv, [QuoteNext]_quoteVars
  PROVE  QuoteInv'
  <1>1. /\ "pin" \in Roads /\ "centre" \in Roads /\ "pin" # "centre" /\ roadDay \in 0..LastDay
        /\ quote.since \in 0..LastDay /\ CacheDays \in Nat /\ LastDay \in Nat
    BY QuoteAssumption DEF Roads, QuoteInv
  <1>2. ASSUME NEW s \in RoadDistance(Request, "centre")
        PROVE  Dated(s) /\ Learns(Request, s, "centre") /\ Backs(s.cache, quote)
    <2>1. Dated(Request) /\ Request.cache = cache
      BY DEF QuoteInv, Request
    <2>2. Dated(s) /\ Learns(Request, s, "centre")
      BY <1>1, <2>1, RoadLearns
    <2> QED
      BY <1>1, <2>1, <2>2, LearnsBacks DEF QuoteInv
  <1>3. ASSUME ListShops PROVE QuoteInv'
    <2>1. PICK s \in RoadDistance(Request, "centre") : Keep(s)
      BY <1>3 DEF ListShops
    <2>2. Dated(Request)'
      BY <1>2, <2>1, Kept
    <2>3. Backs(cache, quote)'
      BY <1>2, <1>3, <2>1 DEF ListShops, Keep, Backs
    <2> QED
      BY <1>3, <2>2, <2>3 DEF ListShops, QuoteInv, QuoteIsCharged
  <1>4. ASSUME OpenMenu PROVE QuoteInv'
    <2>1. PICK s \in RoadDistance(Request, "centre") :
            IF ~Visible(s) THEN Keep(s) /\ quote' = NoQuote
            ELSE \E t \in RoadDistance(s, "pin") : Keep(t) /\ quote' = QuoteOf(t)
      BY <1>4 DEF OpenMenu
    <2>2. CASE ~ Visible(s)
      <3>1. Keep(s) /\ quote' = NoQuote
        BY <2>1, <2>2
      <3>2. Dated(Request)'
        BY <1>2, <3>1, Kept
      <3>3. Backs(cache, quote)' /\ quote'.since \in 0..LastDay
        BY <1>1, <3>1 DEF Backs, NoQuote
      <3> QED
        BY <1>4, <3>2, <3>3 DEF OpenMenu, QuoteInv, QuoteIsCharged
    <2>3. CASE Visible(s)
      <3>1. PICK t \in RoadDistance(s, "pin") : Keep(t) /\ quote' = QuoteOf(t)
        BY <2>1, <2>3
      <3>2. Dated(t) /\ Learns(s, t, "pin")
        BY <1>1, <1>2, RoadLearns
      <3>3. Backs(t.cache, QuoteOf(t)) /\ QuoteOf(t).since \in 0..LastDay
        BY <1>1, <1>2, <3>2, QuoteBacked DEF Learns
      <3>4. Dated(Request)'
        BY <3>1, <3>2, Kept
      <3>5. Backs(cache, quote)' /\ quote'.since \in 0..LastDay
        BY <1>4, <3>1, <3>3 DEF OpenMenu, Keep, Backs
      <3> QED
        BY <1>4, <3>4, <3>5 DEF OpenMenu, QuoteInv, QuoteIsCharged
    <2> QED
      BY <2>2, <2>3
  <1>5. ASSUME PlaceOrder PROVE QuoteInv'
    <2>1. PICK s \in RoadDistance(Request, "centre") :
            IF ~Visible(s) THEN PlacedAt(s, NoCharge)
            ELSE \E t \in RoadDistance(s, "pin") :
                   IF ChargeFor(t.km["pin"]) # NoCharge THEN PlacedAt(t, ChargeFor(t.km["pin"]))
                   ELSE \E u \in RoadDistance(t, "centre") : PlacedAt(u, ChargeFor(u.km["centre"]))
      BY <1>5 DEF PlaceOrder
    <2>2. ASSUME NEW v, NEW charge, PlacedAt(v, charge), Dated(v), Backs(v.cache, quote),
                 charge # NoCharge /\ quote.sure /\ roadDay <= quote.since + CacheDays => charge = quote.charge
          PROVE  QuoteInv'
      <3>1. Dated(Request)'
        BY <2>2, Kept DEF PlacedAt
      <3>2. Backs(cache, quote)'
        BY <1>5, <2>2 DEF PlaceOrder, PlacedAt, Keep, Backs
      <3>3. QuoteIsCharged'
        <4>1. CASE charge = NoCharge
          BY <2>2, <4>1 DEF PlacedAt, QuoteIsCharged, Unplaced
        <4>2. CASE charge # NoCharge
          BY <2>2, <4>2 DEF PlacedAt, QuoteIsCharged
        <4> QED
          BY <4>1, <4>2
      <3> QED
        BY <1>5, <3>1, <3>2, <3>3 DEF PlaceOrder, QuoteInv
    <2>3. CASE ~ Visible(s)
      BY <1>2, <2>1, <2>2, <2>3
    <2>4. CASE Visible(s)
      <3>1. PICK t \in RoadDistance(s, "pin") :
              IF ChargeFor(t.km["pin"]) # NoCharge THEN PlacedAt(t, ChargeFor(t.km["pin"]))
              ELSE \E u \in RoadDistance(t, "centre") : PlacedAt(u, ChargeFor(u.km["centre"]))
        BY <2>1, <2>4
      <3>2. /\ Dated(t) /\ Backs(t.cache, quote)
            /\ quote.sure /\ roadDay <= quote.since + CacheDays =>
                 /\ ChargeFor(t.km["pin"]) # NoCharge => ChargeFor(t.km["pin"]) = quote.charge
                 /\ ChargeFor(t.km["pin"]) = NoCharge =>
                      \A u \in RoadDistance(t, "centre") : ChargeFor(u.km["centre"]) = quote.charge
            /\ \A u \in RoadDistance(t, "centre") : Dated(u) /\ Backs(u.cache, quote)
        BY <1>2, ChargedAsQuoted
      <3>3. CASE ChargeFor(t.km["pin"]) # NoCharge
        BY <2>2, <3>1, <3>2, <3>3
      <3>4. CASE ChargeFor(t.km["pin"]) = NoCharge
        <4>1. PICK u \in RoadDistance(t, "centre") : PlacedAt(u, ChargeFor(u.km["centre"]))
          BY <3>1, <3>4
        <4> QED
          BY <2>2, <3>2, <3>4, <4>1
      <3> QED
        BY <3>3, <3>4
    <2> QED
      BY <2>3, <2>4
  <1>6. ASSUME NextDay PROVE QuoteInv'
    <2>1. roadDay' \in 0..LastDay /\ roadDay' = roadDay + 1
      BY <1>1, <1>6 DEF NextDay
    <2>2. Backs(cache, quote)'
      BY <1>1, <1>6, <2>1 DEF NextDay, Backs, QuoteInv
    <2>3. Dated(Request)'
      BY <1>6 DEF NextDay, QuoteInv, Request, Dated
    <2> QED
      BY <1>6, <2>1, <2>2, <2>3 DEF NextDay, QuoteInv, QuoteIsCharged
  <1>7. ASSUME UNCHANGED quoteVars PROVE QuoteInv'
    BY <1>7 DEF quoteVars, QuoteInv, Request, Dated, Backs, QuoteIsCharged
  <1> QED
    BY <1>3, <1>4, <1>5, <1>6, <1>7 DEF QuoteNext

(* "The same number checkout will charge": for any town, an order is charged  *)
(* the quote the menu page showed, as long as the oldest of Google's answers  *)
(* the quote rests on is still kept.                                          *)
THEOREM QuoteCorrect == QuoteSpec => []QuoteIsCharged
  <1>1. QuoteInit => QuoteInv
    <2> SUFFICES ASSUME QuoteInit PROVE QuoteInv
      OBVIOUS
    <2>1. Dated(Request)
      <3>1. [r \in Roads |-> 0] \in [Roads -> Kms] /\ [r \in Roads |-> FALSE] \in [Roads -> BOOLEAN]
        BY DEF Kms
      <3> QED
        BY <3>1, QuoteAssumption DEF QuoteInit, Request, Dated, View
    <2> QED
      BY <2>1, QuoteAssumption DEF QuoteInit, QuoteInv, Backs, NoQuote, Unplaced, QuoteIsCharged
  <1>2. QuoteInv /\ [QuoteNext]_quoteVars => QuoteInv'
    BY QuoteStep
  <1>3. QuoteInv => QuoteIsCharged
    BY DEF QuoteInv
  <1> QED
    BY <1>1, <1>2, <1>3, PTL DEF QuoteSpec
=============================================================================
