---------------------------- MODULE RequestsProofs ----------------------------
(***************************************************************************)
(* Theorems about Builder and Requests, for any builder, any arguments and *)
(* any number of setter calls, with build() in between.                    *)
(***************************************************************************)
EXTENDS Requests, WellFoundedInduction, TLAPS

Arguments == {"app", TRUE} \union
    UNION {UNION {Menus[m][op] : op \in DOMAIN Menus[m]} : m \in DOMAIN Menus}

Setters == RequestSetters \union CommonSetters \union {"auth_token", "replace_headers"}

Calls == [op : Setters, arg : Arguments]

(* The last call of a setter.                                              *)
Final(o) == LastOf({o})

(* The calls are calls, and of those of one setter one was the last.       *)
HistoryOK ==
  /\ calls \in Seq(Calls)
  /\ \A o \in Setters : Made(o) # {} => \E i \in DOMAIN calls : Final(o) = {i}

-----------------------------------------------------------------------------
(* What one more call does to the history of calls.                        *)

(* The first calls stay.                                                   *)
LEMMA OneMore ==
  ASSUME calls \in Seq(Calls), NEW c \in Calls, calls' = Append(calls, c)
  PROVE  /\ calls' \in Seq(Calls)
         /\ Len(calls) \in Nat
         /\ DOMAIN calls = 1..Len(calls) /\ DOMAIN calls' = 1..(Len(calls) + 1)
         /\ calls'[Len(calls) + 1] = c
         /\ \A i \in 1..Len(calls) : calls'[i] = calls[i]
  OBVIOUS

(* What was made of a setter, what was given to it, and what was last.     *)
LEMMA History ==
  ASSUME HistoryOK, NEW op \in Setters, NEW arg \in Arguments,
         calls' = Append(calls, [op |-> op, arg |-> arg])
  PROVE  /\ HistoryOK'
         /\ Made(op)' # {}
         /\ \A o \in Setters \ {op} : Made(o)' = Made(o)
         /\ Given(op)' = Given(op) \union {arg}
         /\ \A o \in Setters \ {op} : Given(o)' = Given(o)
         /\ \A d : Latest(op, d)' = arg
         /\ \A o \in Setters \ {op} : \A d : Latest(o, d)' = Latest(o, d)
<1>. DEFINE n == Len(calls)  c == [op |-> op, arg |-> arg]
<1>0. c \in Calls /\ c.op = op /\ c.arg = arg
  BY DEF Calls
<1>1. /\ calls' \in Seq(Calls) /\ n \in Nat
      /\ DOMAIN calls = 1..n /\ DOMAIN calls' = 1..(n + 1)
      /\ calls'[n + 1] = c
      /\ \A i \in 1..n : calls'[i] = calls[i]
  BY <1>0, OneMore DEF HistoryOK
<1>2. /\ calls'[n + 1].op = op /\ calls'[n + 1].arg = arg
      /\ \A i \in 1..n : calls'[i].op = calls[i].op /\ calls'[i].arg = calls[i].arg
  BY <1>0, <1>1
<1>. HIDE DEF c
<1>3. Made(op)' = Made(op) \union {n + 1}
  BY <1>1, <1>2 DEF Made
<1>4. \A o : o # op => Made(o)' = Made(o)
  BY <1>1, <1>2 DEF Made
<1>5. \A o : Made(o) \subseteq 1..n
  BY <1>1 DEF Made
<1>. HIDE DEF n
<1>6. Given(op)' = Given(op) \union {arg}
  BY <1>1, <1>2, <1>3, <1>5 DEF Given
<1>7. \A o : o # op => Given(o)' = Given(o)
  BY <1>1, <1>2, <1>4, <1>5 DEF Given
<1>8. Final(op)' = {n + 1}
  BY <1>1, <1>2 DEF Final, LastOf
<1>9. ASSUME NEW o, o # op PROVE Final(o)' = Final(o)
  BY <1>1, <1>2, <1>9 DEF Final, LastOf
<1>10. \A d : Latest(op, d)' = arg
  BY <1>2, <1>3, <1>8 DEF Latest, Final
<1>11. ASSUME NEW o \in Setters, NEW d, o # op PROVE Latest(o, d)' = Latest(o, d)
  <2>1. CASE Made(o) = {}
    BY <1>4, <1>11, <2>1 DEF Latest, Final
  <2>2. CASE Made(o) # {}
    <3>1. PICK i \in DOMAIN calls : Final(o) = {i}
      BY <2>2 DEF HistoryOK
    <3>2. (CHOOSE j \in {i} : TRUE) = i
      OBVIOUS
    <3>3. Latest(o, d) = calls[i].arg
      BY <2>2, <3>1, <3>2 DEF Latest, Final
    <3>4. Latest(o, d)' = calls'[i].arg
      BY <1>4, <1>9, <1>11, <2>2, <3>1, <3>2 DEF Latest, Final
    <3>. QED
      BY <1>1, <3>1, <3>3, <3>4
  <2>. QED
    BY <2>1, <2>2
<1>12. HistoryOK'
  <2>1. ASSUME NEW o \in Setters, Made(o)' # {}
        PROVE  \E i \in DOMAIN calls' : Final(o)' = {i}
    <3>1. CASE o = op
      BY <1>1, <1>8, <3>1
    <3>2. CASE o # op
      <4>1. Made(o) # {}
        BY <1>4, <2>1, <3>2
      <4>2. PICK i \in DOMAIN calls : Final(o) = {i}
        BY <4>1 DEF HistoryOK
      <4>3. Final(o)' = {i} /\ i \in DOMAIN calls'
        BY <1>1, <1>9, <3>2, <4>2
      <4>. QED
        BY <4>3
    <3>. QED
      BY <3>1, <3>2
  <2>. QED
    BY <1>1, <2>1 DEF HistoryOK
<1>. QED
  BY <1>3, <1>4, <1>6, <1>7, <1>10, <1>11, <1>12

(* The last call of either of two setters, when one more is made.          *)
LastIn(cs, ops) ==
  {i \in DOMAIN cs : cs[i].op \in ops /\ \A j \in DOMAIN cs : cs[j].op \in ops => j <= i}

LEMMA LastOfNew ==
  ASSUME HistoryOK, NEW op \in Setters, NEW arg \in Arguments, NEW ops, op \in ops,
         calls' = Append(calls, [op |-> op, arg |-> arg])
  PROVE  \E i \in DOMAIN calls' :
            LastIn(calls', ops) = {i} /\ calls'[i].op = op /\ calls'[i].arg = arg
<1>. DEFINE n == Len(calls)  c == [op |-> op, arg |-> arg]
<1>0. c \in Calls /\ c.op = op /\ c.arg = arg
  BY DEF Calls
<1>1. /\ n \in Nat
      /\ DOMAIN calls' = 1..(n + 1)
      /\ calls'[n + 1] = c
  BY <1>0, OneMore DEF HistoryOK
<1>. HIDE DEF c
<1>2. LastIn(calls', ops) = {n + 1}
  BY <1>0, <1>1 DEF LastIn
<1>. QED
  BY <1>0, <1>1, <1>2

LEMMA LastOfOld ==
  ASSUME HistoryOK, NEW op \in Setters, NEW arg \in Arguments, NEW ops, op \notin ops,
         calls' = Append(calls, [op |-> op, arg |-> arg])
  PROVE  /\ LastIn(calls', ops) = LastIn(calls, ops)
         /\ \A i \in LastIn(calls, ops) : calls'[i] = calls[i]
<1>. DEFINE n == Len(calls)  c == [op |-> op, arg |-> arg]
<1>0. c \in Calls /\ c.op = op /\ c.arg = arg
  BY DEF Calls
<1>1. /\ n \in Nat
      /\ DOMAIN calls = 1..n /\ DOMAIN calls' = 1..(n + 1)
      /\ calls'[n + 1] = c
      /\ \A i \in 1..n : calls'[i] = calls[i]
  BY <1>0, OneMore DEF HistoryOK
<1>. HIDE DEF c
<1>2. LastIn(calls', ops) = LastIn(calls, ops)
  BY <1>0, <1>1 DEF LastIn
<1>3. LastIn(calls, ops) \subseteq 1..n
  BY <1>1 DEF LastIn
<1>. QED
  BY <1>1, <1>2, <1>3

-----------------------------------------------------------------------------
(* The inductive invariant: what the builder's fields are, in terms of the *)
(* calls that were made.                                                   *)

SiteOK ==
  /\ site \in Sites /\ menu \in DOMAIN Menus /\ DOMAIN Menus[menu] \subseteq Offers(site)
  /\ site.kind = "update" /\ site.missing # "bin_name" => Made("bin_name") # {}

NameFields   == {"bin_name", "bin_path_in_archive", "auto"}
ToggleFields == {"no_confirm", "show_output"}
ClientFields == {"client", "async_client", "root_certificates"}
HeaderFields == {"headers", "header_error"}
AuthFields   == {"auth_token", "auth_hosts", "allow_insecure"}
TimingFields == {"retries", "backoff"}
Fields == NameFields \union ToggleFields \union ClientFields \union HeaderFields
            \union AuthFields \union TimingFields \union {"timeout"}

(* The path in the archive follows the name until it is given: auto says   *)
(* that it does.                                                           *)
NamesKept ==
  /\ b.bin_name = Latest("bin_name", None)
  /\ b.bin_path_in_archive = Latest("bin_path_in_archive", b.bin_name)
  /\ b.auto \in BOOLEAN
  /\ b.auto <=> Made("bin_path_in_archive") = {} /\ b.bin_name # None
  /\ Made("bin_name") = {} <=> b.bin_name = None
  /\ Made("bin_path_in_archive") # {} => b.bin_path_in_archive # None

Confirm == {"no_confirm", "unattended"}
Show    == {"show_output", "unattended"}

TogglesKept ==
  /\ \A i \in LastIn(calls, Confirm) : b.no_confirm = calls[i].arg
  /\ \A i \in LastIn(calls, Show) :
       b.show_output = (calls[i].op = "show_output" /\ calls[i].arg)

ClientsKept ==
  /\ b.client = IF Made("http_client") = {} THEN None ELSE Injected(Latest("http_client", None))
  /\ b.async_client = IF Made("http_client_async") = {} THEN None
                      ELSE Injected(Latest("http_client_async", None))
  /\ Made("http_client") # {} => b.client # None
  /\ Made("http_client_async") # {} => b.async_client # None
  /\ b.root_certificates = Given("add_root_certificate")
  /\ Made("add_root_certificate") = {} <=> Given("add_root_certificate") = {}

(* Only a Download can have its headers replaced.                          *)
HeadersKept ==
  /\ b.header_error \in BOOLEAN
  /\ b.header_error <=> "invalid" \in Given("request_header")
  /\ site.kind # "download" =>
       ("Authorization" \in b.headers <=> "Authorization" \in Given("request_header"))

AuthKept ==
  /\ b.auth_token = Latest("auth_token", None)
  /\ Made("auth_token") = {} <=> b.auth_token = None
  /\ b.auth_hosts = Given("allow_auth_host")
  /\ b.allow_insecure \in BOOLEAN
  /\ b.allow_insecure <=> Made("insecure_auth") # {}

TimingKept ==
  /\ b.retries = Latest("retries", 0) /\ b.retries \in Nat
  /\ b.backoff = Latest("retry_backoff", <<DefaultBase, DefaultMax>>)
  /\ b.backoff \in Millis \X Millis

(* What was built is what these fields build.                              *)
BuiltOK == built # None => built = BuildOf(site, b)

IInv ==
  /\ HistoryOK /\ SiteOK /\ DOMAIN b = Fields
  /\ NamesKept /\ TogglesKept /\ ClientsKept /\ HeadersKept /\ AuthKept
  /\ TimingKept /\ BuiltOK

(* An argument is no None, nor is what is made of it.                      *)
LEMMA ArgsOK ==
  ASSUME SiteOK, NEW op, NEW arg \in Args(op)
  PROVE  /\ op \in DOMAIN Menus[menu] /\ op \in Offers(site)
         /\ arg \in Arguments /\ arg \in Menus[menu][op]
         /\ arg # None /\ Injected(arg) # None
<1>1. op \in DOMAIN Menus[menu] /\ arg \in Menus[menu][op]
  BY DEF Args
<1>2. menu \in DOMAIN Menus /\ op \in Offers(site)
  BY <1>1 DEF SiteOK
<1>3. arg # None /\ Injected(arg) # None
  BY <1>1, <1>2, NoneAssumption
<1>4. arg \in UNION {Menus[menu][o] : o \in DOMAIN Menus[menu]}
  BY <1>1
<1>5. arg \in Arguments
  BY <1>2, <1>4, Zenon DEF Arguments
<1>. QED
  BY <1>1, <1>2, <1>3, <1>5

(* A call keeps whatever is not its own.                                   *)
LEMMA CallKeeps ==
  ASSUME IInv, NEW op \in Setters, NEW arg, NEW c, Call(op, arg, c), DOMAIN c = Fields,
         \/ op \notin {"bin_name", "bin_path_in_archive"} /\ \A f \in NameFields : c[f] = b[f]
         \/ NamesKept',
         \/ op \notin {"no_confirm", "show_output", "unattended"}
            /\ \A f \in ToggleFields : c[f] = b[f]
         \/ TogglesKept',
         \/ op \notin {"http_client", "http_client_async", "add_root_certificate"}
            /\ \A f \in ClientFields : c[f] = b[f]
         \/ ClientsKept',
         \/ op # "request_header" /\ \A f \in HeaderFields : c[f] = b[f]
         \/ HeadersKept',
         \/ op \notin {"auth_token", "allow_auth_host", "insecure_auth"}
            /\ \A f \in AuthFields : c[f] = b[f]
         \/ AuthKept',
         \/ op \notin {"retries", "retry_backoff"} /\ \A f \in TimingFields : c[f] = b[f]
         \/ TimingKept'
  PROVE  IInv'
<1>1. /\ calls' = Append(calls, [op |-> op, arg |-> arg])
      /\ b' = c /\ built' = None /\ site' = site /\ menu' = menu
      /\ arg \in Arguments
      /\ HistoryOK /\ SiteOK
  BY ArgsOK DEF Call, IInv
<1>2. /\ HistoryOK'
      /\ \A o \in Setters : Made(o) # {} => Made(o)' # {}
      /\ \A o \in Setters \ {op} : Made(o)' = Made(o)
      /\ \A o \in Setters \ {op} : Given(o)' = Given(o)
      /\ \A o \in Setters \ {op} : \A d : Latest(o, d)' = Latest(o, d)
  BY <1>1, History
<1>3. SiteOK'
  BY <1>1, <1>2 DEF SiteOK, Setters, CommonSetters
<1>4. NamesKept'
  <2>. SUFFICES ASSUME op \notin {"bin_name", "bin_path_in_archive"},
                       \A f \in NameFields : c[f] = b[f]
                PROVE  NamesKept'
    OBVIOUS
  <2>1. /\ b'.bin_name = b.bin_name /\ b'.bin_path_in_archive = b.bin_path_in_archive
        /\ b'.auto = b.auto
    BY <1>1 DEF NameFields
  <2>. QED
    BY <1>2, <2>1 DEF NamesKept, IInv, Setters, CommonSetters
<1>5. TogglesKept'
  <2>. SUFFICES ASSUME op \notin {"no_confirm", "show_output", "unattended"},
                       \A f \in ToggleFields : c[f] = b[f]
                PROVE  TogglesKept'
    OBVIOUS
  <2>1. b'.no_confirm = b.no_confirm /\ b'.show_output = b.show_output
    BY <1>1 DEF ToggleFields
  <2>a. op \notin Confirm /\ op \notin Show
    BY DEF Confirm, Show
  <2>2. /\ LastIn(calls', Confirm) = LastIn(calls, Confirm)
        /\ \A j \in LastIn(calls, Confirm) : calls'[j] = calls[j]
    BY <1>1, <2>a, LastOfOld
  <2>3. /\ LastIn(calls', Show) = LastIn(calls, Show)
        /\ \A j \in LastIn(calls, Show) : calls'[j] = calls[j]
    BY <1>1, <2>a, LastOfOld
  <2>. QED
    BY <2>1, <2>2, <2>3 DEF TogglesKept, IInv
<1>6. ClientsKept'
  <2>. SUFFICES ASSUME op \notin {"http_client", "http_client_async", "add_root_certificate"},
                       \A f \in ClientFields : c[f] = b[f]
                PROVE  ClientsKept'
    OBVIOUS
  <2>1. /\ b'.client = b.client /\ b'.async_client = b.async_client
        /\ b'.root_certificates = b.root_certificates
    BY <1>1 DEF ClientFields
  <2>. QED
    BY <1>2, <2>1 DEF ClientsKept, IInv, Setters, RequestSetters
<1>7. HeadersKept'
  <2>. SUFFICES ASSUME op # "request_header", \A f \in HeaderFields : c[f] = b[f]
                PROVE  HeadersKept'
    OBVIOUS
  <2>1. b'.headers = b.headers /\ b'.header_error = b.header_error
    BY <1>1 DEF HeaderFields
  <2>. QED
    BY <1>1, <1>2, <2>1 DEF HeadersKept, IInv, Setters, RequestSetters
<1>8. AuthKept'
  <2>. SUFFICES ASSUME op \notin {"auth_token", "allow_auth_host", "insecure_auth"},
                       \A f \in AuthFields : c[f] = b[f]
                PROVE  AuthKept'
    OBVIOUS
  <2>1. /\ b'.auth_token = b.auth_token /\ b'.auth_hosts = b.auth_hosts
        /\ b'.allow_insecure = b.allow_insecure
    BY <1>1 DEF AuthFields
  <2>. QED
    BY <1>2, <2>1 DEF AuthKept, IInv, Setters, RequestSetters
<1>9. BuiltOK' /\ DOMAIN b' = Fields
  BY <1>1 DEF BuiltOK
<1>10. TimingKept'
  <2>. SUFFICES ASSUME op \notin {"retries", "retry_backoff"}, \A f \in TimingFields : c[f] = b[f]
                PROVE  TimingKept'
    OBVIOUS
  <2>1. b'.retries = b.retries /\ b'.backoff = b.backoff
    BY <1>1 DEF TimingFields
  <2>. QED
    BY <1>2, <2>1 DEF TimingKept, IInv, Setters, RequestSetters
<1>. QED
  BY <1>2, <1>3, <1>4, <1>5, <1>6, <1>7, <1>8, <1>9, <1>10 DEF IInv

(* Each setter, in the order of Builder.                                  *)
USE DEF Fields, NameFields, ToggleFields, ClientFields, HeaderFields, AuthFields, TimingFields,
        Setters, RequestSetters, CommonSetters

LEMMA NoConfirmKeeps == IInv /\ NoConfirm => IInv'
<1>. SUFFICES ASSUME IInv, NoConfirm PROVE IInv'
  OBVIOUS
<1>1. PICK v \in Args("no_confirm") : Call("no_confirm", v, [b EXCEPT !.no_confirm = v])
  BY DEF NoConfirm
<1>. DEFINE c == [b EXCEPT !.no_confirm = v]
<1>2. /\ DOMAIN c = Fields /\ c.no_confirm = v
      /\ \A f \in Fields \ {"no_confirm"} : c[f] = b[f]
  BY DEF IInv
<1>. HIDE DEF c
<1>3. /\ HistoryOK /\ SiteOK /\ TogglesKept
      /\ v \in Arguments /\ v # None /\ Injected(v) # None
      /\ calls' = Append(calls, [op |-> "no_confirm", arg |-> v])
      /\ b' = c
      /\ "no_confirm" \in Setters
  BY <1>1, ArgsOK DEF Call, IInv, c
<1>a. "no_confirm" \in Confirm /\ "no_confirm" \notin Show
  BY DEF Confirm, Show
<1>4. PICK i \in DOMAIN calls' : /\ LastIn(calls', Confirm) = {i}
                                 /\ calls'[i].op = "no_confirm" /\ calls'[i].arg = v
  BY <1>3, <1>a, LastOfNew
<1>5. /\ LastIn(calls', Show) = LastIn(calls, Show)
      /\ \A j \in LastIn(calls, Show) : calls'[j] = calls[j]
  BY <1>3, <1>a, LastOfOld
<1>6. TogglesKept'
  <2>1. b'.no_confirm = v /\ b'.show_output = b.show_output
    BY <1>2, <1>3
  <2>2. \A j \in LastIn(calls', Confirm) : b'.no_confirm = calls'[j].arg
    BY <1>3, <1>4, <1>5, <2>1 DEF TogglesKept
  <2>3. \A j \in LastIn(calls', Show) :
          b'.show_output = (calls'[j].op = "show_output" /\ calls'[j].arg)
    <3>. SUFFICES ASSUME NEW j \in LastIn(calls, Show)
                  PROVE  b.show_output = (calls[j].op = "show_output" /\ calls[j].arg)
      BY <1>5, <2>1
    <3>. QED
      BY <1>3, Zenon DEF TogglesKept
  <2>. QED
    BY <2>2, <2>3, Zenon DEF TogglesKept
<1>. QED
  BY <1>1, <1>2, <1>6, CallKeeps DEF c

LEMMA ShowOutputKeeps == IInv /\ ShowOutput => IInv'
<1>. SUFFICES ASSUME IInv, ShowOutput PROVE IInv'
  OBVIOUS
<1>1. PICK v \in Args("show_output") : Call("show_output", v, [b EXCEPT !.show_output = v])
  BY DEF ShowOutput
<1>. DEFINE c == [b EXCEPT !.show_output = v]
<1>2. /\ DOMAIN c = Fields /\ c.show_output = v
      /\ \A f \in Fields \ {"show_output"} : c[f] = b[f]
  BY DEF IInv
<1>. HIDE DEF c
<1>3. /\ HistoryOK /\ SiteOK /\ TogglesKept
      /\ v \in Arguments /\ v # None /\ Injected(v) # None
      /\ calls' = Append(calls, [op |-> "show_output", arg |-> v])
      /\ b' = c
      /\ "show_output" \in Setters
  BY <1>1, ArgsOK DEF Call, IInv, c
<1>b. v \in BOOLEAN
  BY <1>1, <1>3, ArgsOK, TogglesAssumption DEF SiteOK
<1>a. "show_output" \in Show /\ "show_output" \notin Confirm
  BY DEF Show, Confirm
<1>4. PICK i \in DOMAIN calls' : /\ LastIn(calls', Show) = {i}
                                 /\ calls'[i].op = "show_output" /\ calls'[i].arg = v
  BY <1>3, <1>a, LastOfNew
<1>5. /\ LastIn(calls', Confirm) = LastIn(calls, Confirm)
      /\ \A j \in LastIn(calls, Confirm) : calls'[j] = calls[j]
  BY <1>3, <1>a, LastOfOld
<1>6. TogglesKept'
  <2>1. b'.show_output = v /\ b'.no_confirm = b.no_confirm
    BY <1>2, <1>3
  <2>2. \A j \in LastIn(calls', Confirm) : b'.no_confirm = calls'[j].arg
    BY <1>3, <1>4, <1>5, <2>1 DEF TogglesKept
  <2>3. \A j \in LastIn(calls', Show) :
          b'.show_output = (calls'[j].op = "show_output" /\ calls'[j].arg)
    BY <1>b, <1>3, <1>4, <1>5, <2>1 DEF TogglesKept
  <2>. QED
    BY <2>2, <2>3, Zenon DEF TogglesKept
<1>. QED
  BY <1>1, <1>2, <1>6, CallKeeps DEF c

LEMMA AuthTokenKeeps == IInv /\ AuthToken => IInv'
<1>. SUFFICES ASSUME IInv, AuthToken PROVE IInv'
  OBVIOUS
<1>1. PICK t \in Args("auth_token") : Call("auth_token", t, [b EXCEPT !.auth_token = t])
  BY DEF AuthToken
<1>. DEFINE c == [b EXCEPT !.auth_token = t]
<1>2. /\ DOMAIN c = Fields /\ c.auth_token = t
      /\ \A f \in Fields \ {"auth_token"} : c[f] = b[f]
  BY DEF IInv
<1>. HIDE DEF c
<1>3. /\ HistoryOK /\ SiteOK /\ AuthKept
      /\ t \in Arguments /\ t # None /\ Injected(t) # None
      /\ calls' = Append(calls, [op |-> "auth_token", arg |-> t])
      /\ b' = c
      /\ "auth_token" \in Setters
  BY <1>1, ArgsOK DEF Call, IInv, c
<1>4. AuthKept'
  <2>1. /\ Made("auth_token")' # {}
        /\ \A o \in Setters \ {"auth_token"} : Made(o)' = Made(o)
        /\ Given("auth_token")' = Given("auth_token") \union {t}
        /\ \A o \in Setters \ {"auth_token"} : Given(o)' = Given(o)
        /\ \A x : Latest("auth_token", x)' = t
        /\ \A o \in Setters \ {"auth_token"} : \A x : Latest(o, x)' = Latest(o, x)
    BY <1>3, History
  <2>. QED
    BY <1>2, <1>3, <2>1 DEF AuthKept
<1>. QED
  BY <1>1, <1>2, <1>4, CallKeeps DEF c

LEMMA TimeoutKeeps == IInv /\ Timeout => IInv'
<1>. SUFFICES ASSUME IInv, Timeout PROVE IInv'
  OBVIOUS
<1>1. PICK t \in Args("timeout") : Call("timeout", t, [b EXCEPT !.timeout = t])
  BY DEF Timeout
<1>. DEFINE c == [b EXCEPT !.timeout = t]
<1>2. /\ DOMAIN c = Fields /\ c.timeout = t
      /\ \A f \in Fields \ {"timeout"} : c[f] = b[f]
  BY DEF IInv
<1>. HIDE DEF c
<1>. QED
  BY <1>1, <1>2, CallKeeps DEF c

LEMMA RetriesKeeps == IInv /\ Retries => IInv'
<1>. SUFFICES ASSUME IInv, Retries PROVE IInv'
  OBVIOUS
<1>1. PICK n \in Args("retries") : Call("retries", n, [b EXCEPT !.retries = n])
  BY DEF Retries
<1>. DEFINE c == [b EXCEPT !.retries = n]
<1>2. /\ DOMAIN c = Fields /\ c.retries = n
      /\ \A f \in Fields \ {"retries"} : c[f] = b[f]
  BY DEF IInv
<1>. HIDE DEF c
<1>3. /\ HistoryOK /\ SiteOK /\ TimingKept
      /\ n \in Arguments
      /\ calls' = Append(calls, [op |-> "retries", arg |-> n])
      /\ b' = c
      /\ "retries" \in Setters
  BY <1>1, ArgsOK DEF Call, IInv, c
<1>4. n \in Nat
  BY <1>1, <1>3, ArgsOK, TimingAssumption DEF SiteOK
<1>5. TimingKept'
  <2>1. /\ \A x : Latest("retries", x)' = n
        /\ \A o \in Setters \ {"retries"} : \A x : Latest(o, x)' = Latest(o, x)
    BY <1>3, History
  <2>. QED
    BY <1>2, <1>3, <1>4, <2>1 DEF TimingKept
<1>. QED
  BY <1>1, <1>2, <1>5, CallKeeps DEF c

LEMMA RetryBackoffKeeps == IInv /\ RetryBackoff => IInv'
<1>. SUFFICES ASSUME IInv, RetryBackoff PROVE IInv'
  OBVIOUS
<1>1. PICK d \in Args("retry_backoff") : Call("retry_backoff", d, [b EXCEPT !.backoff = d])
  BY DEF RetryBackoff
<1>. DEFINE c == [b EXCEPT !.backoff = d]
<1>2. /\ DOMAIN c = Fields /\ c.backoff = d
      /\ \A f \in Fields \ {"backoff"} : c[f] = b[f]
  BY DEF IInv
<1>. HIDE DEF c
<1>3. /\ HistoryOK /\ SiteOK /\ TimingKept
      /\ d \in Arguments
      /\ calls' = Append(calls, [op |-> "retry_backoff", arg |-> d])
      /\ b' = c
      /\ "retry_backoff" \in Setters
  BY <1>1, ArgsOK DEF Call, IInv, c
<1>4. d \in Millis \X Millis
  BY <1>1, <1>3, ArgsOK, TimingAssumption DEF SiteOK
<1>5. TimingKept'
  <2>1. /\ \A x : Latest("retry_backoff", x)' = d
        /\ \A o \in Setters \ {"retry_backoff"} : \A x : Latest(o, x)' = Latest(o, x)
    BY <1>3, History
  <2>. QED
    BY <1>2, <1>3, <1>4, <2>1 DEF TimingKept
<1>. QED
  BY <1>1, <1>2, <1>5, CallKeeps DEF c

LEMMA HttpClientKeeps == IInv /\ HttpClient => IInv'
<1>. SUFFICES ASSUME IInv, HttpClient PROVE IInv'
  OBVIOUS
<1>1. PICK k \in Args("http_client") : Call("http_client", k, [b EXCEPT !.client = Injected(k)])
  BY DEF HttpClient
<1>. DEFINE c == [b EXCEPT !.client = Injected(k)]
<1>2. /\ DOMAIN c = Fields /\ c.client = Injected(k)
      /\ \A f \in Fields \ {"client"} : c[f] = b[f]
  BY DEF IInv
<1>. HIDE DEF c
<1>3. /\ HistoryOK /\ SiteOK /\ ClientsKept
      /\ k \in Arguments /\ k # None /\ Injected(k) # None
      /\ calls' = Append(calls, [op |-> "http_client", arg |-> k])
      /\ b' = c
      /\ "http_client" \in Setters
  BY <1>1, ArgsOK DEF Call, IInv, c
<1>4. ClientsKept'
  <2>1. /\ Made("http_client")' # {}
        /\ \A o \in Setters \ {"http_client"} : Made(o)' = Made(o)
        /\ Given("http_client")' = Given("http_client") \union {k}
        /\ \A o \in Setters \ {"http_client"} : Given(o)' = Given(o)
        /\ \A x : Latest("http_client", x)' = k
        /\ \A o \in Setters \ {"http_client"} : \A x : Latest(o, x)' = Latest(o, x)
    BY <1>3, History
  <2>. QED
    BY <1>2, <1>3, <2>1 DEF ClientsKept
<1>. QED
  BY <1>1, <1>2, <1>4, CallKeeps DEF c

LEMMA HttpClientAsyncKeeps == IInv /\ HttpClientAsync => IInv'
<1>. SUFFICES ASSUME IInv, HttpClientAsync PROVE IInv'
  OBVIOUS
<1>1. PICK k \in Args("http_client_async") : Call("http_client_async", k, [b EXCEPT !.async_client = Injected(k)])
  BY DEF HttpClientAsync
<1>. DEFINE c == [b EXCEPT !.async_client = Injected(k)]
<1>2. /\ DOMAIN c = Fields /\ c.async_client = Injected(k)
      /\ \A f \in Fields \ {"async_client"} : c[f] = b[f]
  BY DEF IInv
<1>. HIDE DEF c
<1>3. /\ HistoryOK /\ SiteOK /\ ClientsKept
      /\ k \in Arguments /\ k # None /\ Injected(k) # None
      /\ calls' = Append(calls, [op |-> "http_client_async", arg |-> k])
      /\ b' = c
      /\ "http_client_async" \in Setters
  BY <1>1, ArgsOK DEF Call, IInv, c
<1>4. ClientsKept'
  <2>1. /\ Made("http_client_async")' # {}
        /\ \A o \in Setters \ {"http_client_async"} : Made(o)' = Made(o)
        /\ Given("http_client_async")' = Given("http_client_async") \union {k}
        /\ \A o \in Setters \ {"http_client_async"} : Given(o)' = Given(o)
        /\ \A x : Latest("http_client_async", x)' = k
        /\ \A o \in Setters \ {"http_client_async"} : \A x : Latest(o, x)' = Latest(o, x)
    BY <1>3, History
  <2>. QED
    BY <1>2, <1>3, <2>1 DEF ClientsKept
<1>. QED
  BY <1>1, <1>2, <1>4, CallKeeps DEF c

LEMMA AddRootCertificateKeeps == IInv /\ AddRootCertificate => IInv'
<1>. SUFFICES ASSUME IInv, AddRootCertificate PROVE IInv'
  OBVIOUS
<1>1. PICK k \in Args("add_root_certificate") : Call("add_root_certificate", k, [b EXCEPT !.root_certificates = @ \cup {k}])
  BY DEF AddRootCertificate
<1>. DEFINE c == [b EXCEPT !.root_certificates = @ \cup {k}]
<1>2. /\ DOMAIN c = Fields /\ c.root_certificates = b.root_certificates \union {k}
      /\ \A f \in Fields \ {"root_certificates"} : c[f] = b[f]
  BY DEF IInv
<1>. HIDE DEF c
<1>3. /\ HistoryOK /\ SiteOK /\ ClientsKept
      /\ k \in Arguments /\ k # None /\ Injected(k) # None
      /\ calls' = Append(calls, [op |-> "add_root_certificate", arg |-> k])
      /\ b' = c
      /\ "add_root_certificate" \in Setters
  BY <1>1, ArgsOK DEF Call, IInv, c
<1>4. ClientsKept'
  <2>1. /\ Made("add_root_certificate")' # {}
        /\ \A o \in Setters \ {"add_root_certificate"} : Made(o)' = Made(o)
        /\ Given("add_root_certificate")' = Given("add_root_certificate") \union {k}
        /\ \A o \in Setters \ {"add_root_certificate"} : Given(o)' = Given(o)
        /\ \A x : Latest("add_root_certificate", x)' = k
        /\ \A o \in Setters \ {"add_root_certificate"} : \A x : Latest(o, x)' = Latest(o, x)
    BY <1>3, History
  <2>. QED
    BY <1>2, <1>3, <2>1 DEF ClientsKept
<1>. QED
  BY <1>1, <1>2, <1>4, CallKeeps DEF c

LEMMA AllowAuthHostKeeps == IInv /\ AllowAuthHost => IInv'
<1>. SUFFICES ASSUME IInv, AllowAuthHost PROVE IInv'
  OBVIOUS
<1>1. PICK h \in Args("allow_auth_host") : Call("allow_auth_host", h, [b EXCEPT !.auth_hosts = @ \cup {h}])
  BY DEF AllowAuthHost
<1>. DEFINE c == [b EXCEPT !.auth_hosts = @ \cup {h}]
<1>2. /\ DOMAIN c = Fields /\ c.auth_hosts = b.auth_hosts \union {h}
      /\ \A f \in Fields \ {"auth_hosts"} : c[f] = b[f]
  BY DEF IInv
<1>. HIDE DEF c
<1>3. /\ HistoryOK /\ SiteOK /\ AuthKept
      /\ h \in Arguments /\ h # None /\ Injected(h) # None
      /\ calls' = Append(calls, [op |-> "allow_auth_host", arg |-> h])
      /\ b' = c
      /\ "allow_auth_host" \in Setters
  BY <1>1, ArgsOK DEF Call, IInv, c
<1>4. AuthKept'
  <2>1. /\ Made("allow_auth_host")' # {}
        /\ \A o \in Setters \ {"allow_auth_host"} : Made(o)' = Made(o)
        /\ Given("allow_auth_host")' = Given("allow_auth_host") \union {h}
        /\ \A o \in Setters \ {"allow_auth_host"} : Given(o)' = Given(o)
        /\ \A x : Latest("allow_auth_host", x)' = h
        /\ \A o \in Setters \ {"allow_auth_host"} : \A x : Latest(o, x)' = Latest(o, x)
    BY <1>3, History
  <2>. QED
    BY <1>2, <1>3, <2>1 DEF AuthKept
<1>. QED
  BY <1>1, <1>2, <1>4, CallKeeps DEF c

LEMMA BinNameKeeps == IInv /\ BinName => IInv'
<1>. SUFFICES ASSUME IInv, BinName PROVE IInv'
  OBVIOUS
<1>1. PICK n \in Args("bin_name") : Call("bin_name", n, SetBinName(b, n))
  BY DEF BinName
<1>. DEFINE c == SetBinName(b, n)  derive == b.bin_path_in_archive = None \/ b.auto
<1>2. /\ DOMAIN c = Fields /\ c.bin_name = n
      /\ c.bin_path_in_archive = IF derive THEN n ELSE b.bin_path_in_archive
      /\ c.auto = derive
      /\ \A f \in Fields \ {"bin_name", "bin_path_in_archive", "auto"} : c[f] = b[f]
  BY DEF IInv, SetBinName
<1>. HIDE DEF c
<1>3. /\ HistoryOK /\ SiteOK /\ NamesKept
      /\ n \in Arguments /\ n # None
      /\ calls' = Append(calls, [op |-> "bin_name", arg |-> n])
      /\ b' = c
      /\ "bin_name" \in Setters
  BY <1>1, ArgsOK DEF Call, IInv, c
<1>4. /\ Made("bin_name")' # {}
      /\ Made("bin_path_in_archive")' = Made("bin_path_in_archive")
      /\ \A x : Latest("bin_name", x)' = n
      /\ \A x : Latest("bin_path_in_archive", x)' = Latest("bin_path_in_archive", x)
  BY <1>3, History
<1>5. derive <=> Made("bin_path_in_archive") = {}
  BY <1>3 DEF NamesKept, Latest
<1>6. b'.bin_path_in_archive = Latest("bin_path_in_archive", n)
  BY <1>2, <1>3, <1>5 DEF NamesKept, Latest
<1>7. NamesKept'
  BY <1>2, <1>3, <1>4, <1>5, <1>6 DEF NamesKept
<1>. QED
  BY <1>1, <1>2, <1>7, CallKeeps DEF c

LEMMA BinPathKeeps == IInv /\ BinPath => IInv'
<1>. SUFFICES ASSUME IInv, BinPath PROVE IInv'
  OBVIOUS
<1>1. PICK p \in Args("bin_path_in_archive") :
          Call("bin_path_in_archive", p, SetBinPath(b, p))
  BY DEF BinPath
<1>. DEFINE c == SetBinPath(b, p)
<1>2. /\ DOMAIN c = Fields /\ c.bin_path_in_archive = p /\ c.auto = FALSE
      /\ \A f \in Fields \ {"bin_path_in_archive", "auto"} : c[f] = b[f]
  BY DEF IInv, SetBinPath
<1>. HIDE DEF c
<1>3. /\ HistoryOK /\ SiteOK /\ NamesKept
      /\ p \in Arguments /\ p # None
      /\ calls' = Append(calls, [op |-> "bin_path_in_archive", arg |-> p])
      /\ b' = c
      /\ "bin_path_in_archive" \in Setters
  BY <1>1, ArgsOK DEF Call, IInv, c
<1>4. /\ Made("bin_path_in_archive")' # {}
      /\ Made("bin_name")' = Made("bin_name")
      /\ \A x : Latest("bin_path_in_archive", x)' = p
      /\ \A x : Latest("bin_name", x)' = Latest("bin_name", x)
  BY <1>3, History
<1>5. NamesKept'
  BY <1>2, <1>3, <1>4 DEF NamesKept
<1>. QED
  BY <1>1, <1>2, <1>5, CallKeeps DEF c

LEMMA UnattendedKeeps == IInv /\ Unattended => IInv'
<1>. SUFFICES ASSUME IInv, Unattended PROVE IInv'
  OBVIOUS
<1>. DEFINE c == [b EXCEPT !.no_confirm = TRUE, !.show_output = FALSE]
<1>1. Call("unattended", TRUE, c)
  BY DEF Unattended
<1>2. /\ DOMAIN c = Fields /\ c.no_confirm = TRUE /\ c.show_output = FALSE
      /\ \A f \in Fields \ {"no_confirm", "show_output"} : c[f] = b[f]
  BY DEF IInv
<1>. HIDE DEF c
<1>3. PICK v \in Arguments :
      /\ HistoryOK
      /\ v = TRUE
      /\ calls' = Append(calls, [op |-> "unattended", arg |-> v])
      /\ b' = c
      /\ "unattended" \in Setters
  BY <1>1 DEF Call, IInv, Arguments
<1>b. /\ HistoryOK /\ v \in Arguments /\ "unattended" \in Setters
      /\ calls' = Append(calls, [op |-> "unattended", arg |-> v])
  BY <1>3
<1>a. "unattended" \in Confirm /\ "unattended" \in Show
  BY DEF Confirm, Show
<1>4. PICK i \in DOMAIN calls' : /\ LastIn(calls', Confirm) = {i}
                                 /\ calls'[i].op = "unattended" /\ calls'[i].arg = v
  BY <1>b, <1>a, LastOfNew
<1>5. PICK k \in DOMAIN calls' : /\ LastIn(calls', Show) = {k}
                                 /\ calls'[k].op = "unattended" /\ calls'[k].arg = v
  BY <1>b, <1>a, LastOfNew
<1>6. TogglesKept'
  <2>1. b'.no_confirm = TRUE /\ b'.show_output = FALSE
    BY <1>2, <1>3
  <2>2. \A j \in LastIn(calls', Confirm) : b'.no_confirm = calls'[j].arg
    BY <1>3, <1>4, <2>1
  <2>3. \A j \in LastIn(calls', Show) :
          b'.show_output = (calls'[j].op = "show_output" /\ calls'[j].arg)
    BY <1>5, <2>1
  <2>. QED
    BY <2>2, <2>3, Zenon DEF TogglesKept
<1>. QED
  BY <1>1, <1>2, <1>3, <1>6, CallKeeps DEF c

LEMMA RequestHeaderKeeps == IInv /\ RequestHeader => IInv'
<1>. SUFFICES ASSUME IInv, RequestHeader PROVE IInv'
  OBVIOUS
<1>1. PICK h \in Args("request_header") : Call("request_header", h, InsertHeader(b, h))
  BY DEF RequestHeader
<1>. DEFINE c == InsertHeader(b, h)
<1>2. /\ DOMAIN c = Fields
      /\ h = "invalid" => c.header_error = TRUE /\ c.headers = b.headers
      /\ h # "invalid" => /\ c.header_error = b.header_error
                          /\ c.headers = b.headers \union {h}
      /\ \A f \in Fields \ {"headers", "header_error"} : c[f] = b[f]
  BY DEF IInv, InsertHeader
<1>. HIDE DEF c
<1>3. /\ HistoryOK /\ SiteOK /\ HeadersKept
      /\ h \in Arguments
      /\ calls' = Append(calls, [op |-> "request_header", arg |-> h])
      /\ b' = c /\ site' = site
      /\ "request_header" \in Setters
  BY <1>1, ArgsOK DEF Call, IInv, c
<1>4. Given("request_header")' = Given("request_header") \union {h}
  BY <1>3, History
<1>5. HeadersKept'
  BY <1>2, <1>3, <1>4 DEF HeadersKept
<1>. QED
  BY <1>1, <1>2, <1>5, CallKeeps DEF c

(* Only a Download has the setter that replaces the headers.               *)
LEMMA ReplaceHeadersKeeps == IInv /\ ReplaceHeaders => IInv'
<1>. SUFFICES ASSUME IInv, ReplaceHeaders PROVE IInv'
  OBVIOUS
<1>1. PICK hs \in Args("replace_headers") :
          Call("replace_headers", hs, [b EXCEPT !.headers = hs])
  BY DEF ReplaceHeaders
<1>. DEFINE c == [b EXCEPT !.headers = hs]
<1>2. DOMAIN c = Fields /\ \A f \in Fields \ {"headers"} : c[f] = b[f]
  BY DEF IInv
<1>. HIDE DEF c
<1>3. /\ HistoryOK /\ SiteOK /\ HeadersKept
      /\ hs \in Arguments /\ "replace_headers" \in Offers(site)
      /\ calls' = Append(calls, [op |-> "replace_headers", arg |-> hs])
      /\ b' = c /\ site' = site
      /\ "replace_headers" \in Setters
  BY <1>1, ArgsOK DEF Call, IInv, c
<1>4. site.kind = "download"
  BY <1>3 DEF Offers
<1>5. Given("request_header")' = Given("request_header")
  BY <1>3, History
<1>6. HeadersKept'
  BY <1>2, <1>3, <1>4, <1>5 DEF HeadersKept
<1>. QED
  BY <1>1, <1>2, <1>6, CallKeeps DEF c

LEMMA InsecureAuthKeeps == IInv /\ InsecureAuth => IInv'
<1>. SUFFICES ASSUME IInv, InsecureAuth PROVE IInv'
  OBVIOUS
<1>. DEFINE c == [b EXCEPT !.allow_insecure = TRUE]
<1>1. Call("insecure_auth", TRUE, c)
  BY DEF InsecureAuth
<1>2. /\ DOMAIN c = Fields /\ c.allow_insecure = TRUE
      /\ \A f \in Fields \ {"allow_insecure"} : c[f] = b[f]
  BY DEF IInv
<1>. HIDE DEF c
<1>3. /\ HistoryOK /\ AuthKept
      /\ TRUE \in Arguments
      /\ calls' = Append(calls, [op |-> "insecure_auth", arg |-> TRUE])
      /\ b' = c
      /\ "insecure_auth" \in Setters
  BY <1>1 DEF Call, IInv, Arguments
<1>4. /\ Made("insecure_auth")' # {}
      /\ Made("auth_token")' = Made("auth_token")
      /\ Given("allow_auth_host")' = Given("allow_auth_host")
      /\ \A x : Latest("auth_token", x)' = Latest("auth_token", x)
  BY <1>3, History
<1>5. AuthKept'
  BY <1>2, <1>3, <1>4 DEF AuthKept
<1>. QED
  BY <1>1, <1>2, <1>3, <1>5, CallKeeps DEF c

(* What leaves the calls and the fields alone.                             *)
LEMMA SameBuilderKeeps ==
  ASSUME IInv, UNCHANGED <<site, menu, calls, b>>, BuiltOK' PROVE IInv'
<1>1. /\ \A o : Made(o)' = Made(o) /\ Given(o)' = Given(o) /\ Final(o)' = Final(o)
      /\ \A o, x : Latest(o, x)' = Latest(o, x)
  BY DEF Made, Given, Final, LastOf, Latest
<1>2. HistoryOK' /\ SiteOK'
  BY <1>1 DEF IInv, HistoryOK, SiteOK
<1>3. NamesKept' /\ ClientsKept' /\ HeadersKept' /\ AuthKept' /\ TimingKept'
  BY <1>1 DEF IInv, NamesKept, ClientsKept, HeadersKept, AuthKept, TimingKept
<1>4. TogglesKept'
  BY DEF IInv, TogglesKept
<1>. QED
  BY <1>2, <1>3, <1>4 DEF IInv

(* build() and the requests leave the builder as it is.                    *)
LEMMA BuildKeeps == IInv /\ Build => IInv'
<1>. SUFFICES ASSUME IInv, Build PROVE IInv'
  OBVIOUS
<1>1. UNCHANGED <<site, menu, calls, b>> /\ built' = BuildOf(site, b)
  BY DEF Build
<1>2. BuiltOK'
  BY <1>1 DEF BuiltOK
<1>. QED
  BY <1>1, <1>2, SameBuilderKeeps

LEMMA IdleKeeps == IInv /\ UNCHANGED builderVars => IInv'
<1>. SUFFICES ASSUME IInv, UNCHANGED builderVars PROVE IInv'
  OBVIOUS
<1>1. UNCHANGED <<site, menu, calls, b>> /\ BuiltOK'
  BY DEF builderVars, BuiltOK, IInv
<1>. QED
  BY <1>1, SameBuilderKeeps

-----------------------------------------------------------------------------
(* The invariant holds.                                                    *)

(* A builder starts with its defaults and, where one is needed, its name.  *)
LEMMA InitInvariant == BuilderInit => IInv
<1>. SUFFICES ASSUME BuilderInit PROVE IInv
  OBVIOUS
<1>. DEFINE named == site.kind = "update" /\ site.missing # "bin_name"
            d     == DefaultBuilder
            first == [op |-> "bin_name", arg |-> "app"]
<1>1. /\ DOMAIN d = Fields
      /\ d.bin_name = None /\ d.bin_path_in_archive = None /\ d.auto = FALSE
      /\ d.client = None /\ d.async_client = None /\ d.root_certificates = {}
      /\ d.headers = {} /\ d.header_error = FALSE
      /\ d.auth_token = None /\ d.auth_hosts = {} /\ d.allow_insecure = FALSE
      /\ d.retries = 0 /\ d.backoff = <<DefaultBase, DefaultMax>>
  BY DEF DefaultBuilder, DefaultCommon, DefaultRequest
<1>. HIDE DEF d
<1>2. /\ site \in Sites /\ menu \in DOMAIN Menus /\ DOMAIN Menus[menu] \subseteq Offers(site)
      /\ built = None
      /\ calls = (IF named THEN <<first>> ELSE <<>>)
      /\ b = (IF named THEN SetBinName(d, "app") ELSE d)
  BY DEF BuilderInit, d
<1>3. CASE ~named
  <2>1. calls = <<>> /\ b = d /\ DOMAIN calls = {}
    BY <1>2, <1>3
  <2>2. /\ \A o : Made(o) = {} /\ Given(o) = {}
        /\ \A o, x : Latest(o, x) = x
    BY <2>1 DEF Made, Given, Latest
  <2>3. HistoryOK /\ SiteOK
    BY <1>2, <1>3, <2>1, <2>2 DEF HistoryOK, SiteOK
  <2>4. NamesKept /\ ClientsKept /\ HeadersKept /\ AuthKept
    BY <1>1, <2>1, <2>2 DEF NamesKept, ClientsKept, HeadersKept, AuthKept
  <2>5. TogglesKept
    BY <2>1 DEF TogglesKept, LastIn
  <2>6. TimingKept
    BY <1>1, <2>1, <2>2, TimingAssumption DEF TimingKept
  <2>. QED
    BY <1>1, <1>2, <2>1, <2>3, <2>4, <2>5, <2>6 DEF IInv, BuiltOK
<1>4. CASE named
  <2>1. /\ first \in Calls /\ first.op = "bin_name" /\ first.arg = "app"
    BY DEF Calls, Arguments
  <2>2. /\ calls \in Seq(Calls) /\ DOMAIN calls = {1} /\ calls[1] = first
        /\ b = SetBinName(d, "app")
    BY <1>2, <1>4, <2>1
  <2>3. /\ calls[1].op = "bin_name" /\ calls[1].arg = "app"
    BY <2>1, <2>2
  <2>. HIDE DEF first
  <2>4. /\ Made("bin_name") = {1} /\ Final("bin_name") = {1}
        /\ \A o : o # "bin_name" => Made(o) = {}
    BY <2>2, <2>3 DEF Made, Final, LastOf
  <2>5. /\ \A o : o # "bin_name" => Given(o) = {}
        /\ \A o, x : o # "bin_name" => Latest(o, x) = x
    BY <2>4 DEF Given, Latest
  <2>6. \A x : Latest("bin_name", x) = "app"
    <3>1. (CHOOSE i \in {1} : TRUE) = 1
      OBVIOUS
    <3>. QED
      BY <2>3, <2>4, <3>1 DEF Latest, Final
  <2>7. /\ DOMAIN b = Fields /\ b.bin_name = "app" /\ b.bin_path_in_archive = "app"
        /\ b.auto = TRUE
        /\ \A f \in Fields \ NameFields : b[f] = d[f]
    BY <1>1, <2>2 DEF SetBinName
  <2>8. None # "app"
    BY NoneAssumption
  <2>9. HistoryOK /\ SiteOK
    BY <1>2, <2>2, <2>4 DEF HistoryOK, SiteOK
  <2>a. /\ Made("bin_name") # {} /\ Made("bin_path_in_archive") = {}
        /\ Latest("bin_name", None) = "app"
        /\ Latest("bin_path_in_archive", "app") = "app"
    BY <2>4, <2>5, <2>6
  <2>10. NamesKept
    BY <2>a, <2>7, <2>8 DEF NamesKept
  <2>b. \A o \in Setters \ {"bin_name"} : Made(o) = {} /\ Given(o) = {} /\ Latest(o, None) = None
    BY <2>4, <2>5
  <2>11. ClientsKept /\ HeadersKept /\ AuthKept /\ TimingKept
    <3>1. ClientsKept
      BY <1>1, <2>b, <2>7 DEF ClientsKept
    <3>2. HeadersKept
      BY <1>1, <2>b, <2>7 DEF HeadersKept
    <3>3. AuthKept
      BY <1>1, <2>b, <2>7 DEF AuthKept
    <3>4. TimingKept
      BY <1>1, <2>5, <2>7, TimingAssumption DEF TimingKept
    <3>. QED
      BY <3>1, <3>2, <3>3, <3>4
  <2>12. TogglesKept
    BY <2>2, <2>3 DEF TogglesKept, LastIn, Confirm, Show
  <2>. QED
    BY <1>2, <2>7, <2>9, <2>10, <2>11, <2>12 DEF IInv, BuiltOK
<1>. QED
  BY <1>3, <1>4

LEMMA NextInvariant == IInv /\ [Next]_vars => IInv'
<1>. SUFFICES ASSUME IInv, [Next]_vars PROVE IInv'
  OBVIOUS
<1>1. ASSUME BuilderNext PROVE IInv'
  BY <1>1, NoConfirmKeeps, ShowOutputKeeps, AuthTokenKeeps, TimeoutKeeps, RetriesKeeps,
     RetryBackoffKeeps, HttpClientKeeps, HttpClientAsyncKeeps, AddRootCertificateKeeps,
     AllowAuthHostKeeps, BinNameKeeps, BinPathKeeps, UnattendedKeeps, RequestHeaderKeeps,
     ReplaceHeadersKeeps, InsecureAuthKeeps, BuildKeeps
     DEF BuilderNext
<1>2. ASSUME RequestStep PROVE UNCHANGED builderVars
  BY <1>2 DEF RequestStep, Start, Refused, TimedOut, Wake, Answered, BodyRead, BodyLost, Fail
<1>3. ASSUME UNCHANGED vars PROVE UNCHANGED builderVars
  BY <1>3 DEF vars
<1>. QED
  BY <1>1, <1>2, <1>3, IdleKeeps DEF Next

(* The fields of a builder are what its calls say, however many there are. *)
THEOREM InductiveInvariant == Spec => []IInv
<1>1. Init => IInv
  BY InitInvariant DEF Init
<1>. QED
  BY <1>1, NextInvariant, PTL DEF Spec

-----------------------------------------------------------------------------
(* What is built.                                                          *)

(* The clients of a built configuration, and what else of it was asked for. *)
LEMMA BuiltConfig ==
  ASSUME IInv, built # None
  PROVE  /\ built = BuildOf(site, b)
         /\ \A f \in Fields \ {"client", "async_client"} : built.config[f] = b[f]
         /\ \A slot \in {"client", "async_client"} :
              built.config[slot] = IF slot \in Slots(site) /\ MakesFromCerts(b, slot)
                                   THEN [from |-> "certs", trusts |-> b.root_certificates]
                                   ELSE b[slot]
<1>1. built = BuildOf(site, b) /\ DOMAIN b = Fields
  BY DEF IInv, BuiltOK
<1>2. built.config = BuildClient(site, b)
  BY <1>1 DEF BuildOf
<1>. QED
  BY <1>1, <1>2 DEF BuildClient

(* The first error of several is reported, and none when there is none.    *)
LEMMA FirstOfTwo ==
  ASSUME NEW e1, NEW e2
  PROVE  FirstOf(<<e1, e2>>) = None <=> e1 = None /\ e2 = None
<1>. DEFINE es == <<e1, e2>>  found == {i \in DOMAIN es : es[i] # None}
<1>1. found \subseteq {1, 2} /\ (1 \in found <=> e1 # None) /\ (2 \in found <=> e2 # None)
  OBVIOUS
<1>2. FirstOf(es) = IF found = {} THEN None
                    ELSE es[CHOOSE i \in found : \A j \in found : i <= j]
  BY DEF FirstOf
<1>3. ASSUME found # {} PROVE (CHOOSE i \in found : \A j \in found : i <= j) \in found
  <2>1. \E i \in found : \A j \in found : i <= j
    BY <1>1, <1>3
  <2>. QED
    BY <2>1
<1>. QED
  BY <1>1, <1>2, <1>3

LEMMA FirstOfThree ==
  ASSUME NEW e1, NEW e2, NEW e3
  PROVE  FirstOf(<<e1, e2, e3>>) = None <=> e1 = None /\ e2 = None /\ e3 = None
<1>. DEFINE es == <<e1, e2, e3>>  found == {i \in DOMAIN es : es[i] # None}
<1>1. /\ found \subseteq {1, 2, 3}
      /\ (1 \in found <=> e1 # None) /\ (2 \in found <=> e2 # None)
      /\ (3 \in found <=> e3 # None)
  OBVIOUS
<1>2. FirstOf(es) = IF found = {} THEN None
                    ELSE es[CHOOSE i \in found : \A j \in found : i <= j]
  BY DEF FirstOf
<1>3. ASSUME found # {} PROVE (CHOOSE i \in found : \A j \in found : i <= j) \in found
  <2>1. \E i \in found : \A j \in found : i <= j
    BY <1>1, <1>3
  <2>. QED
    BY <2>1
<1>. QED
  BY <1>1, <1>2, <1>3

(* The order of the setters and the builds in between do not matter:       *)
(* macros.rs, common.rs build_client.                                      *)
THEOREM BuildsWhatWasAsked == Spec => []BuiltAsAsked
<1>1. ASSUME IInv PROVE BuiltAsAsked
  <2>. SUFFICES ASSUME built # None PROVE BuiltAsAsked
    BY DEF BuiltAsAsked, IsBuilt
  <2>1. /\ built.config.bin_name = b.bin_name
        /\ built.config.bin_path_in_archive = b.bin_path_in_archive
        /\ built.config.no_confirm = b.no_confirm
        /\ built.config.show_output = b.show_output
    BY <1>1, BuiltConfig
  <2>2. /\ built.config.bin_name = Latest("bin_name", None)
        /\ built.config.bin_path_in_archive =
              Latest("bin_path_in_archive", Latest("bin_name", None))
    BY <1>1, <2>1 DEF IInv, NamesKept
  <2>3. \A i \in LastOf({"no_confirm", "unattended"}) : built.config.no_confirm = calls[i].arg
    <3>1. LastOf({"no_confirm", "unattended"}) = LastIn(calls, Confirm)
      BY DEF LastOf, LastIn, Confirm
    <3>. QED
      BY <1>1, <2>1, <3>1 DEF IInv, TogglesKept
  <2>4. \A i \in LastOf({"show_output", "unattended"}) :
          built.config.show_output = (calls[i].op = "show_output" /\ calls[i].arg)
    <3>1. LastOf({"show_output", "unattended"}) = LastIn(calls, Show)
      BY DEF LastOf, LastIn, Show
    <3>. QED
      BY <1>1, <2>1, <3>1, Zenon DEF IInv, TogglesKept
  <2>5. SlotAsAsked("client", "http_client")
    BY <1>1, BuiltConfig DEF SlotAsAsked, IInv, ClientsKept, MakesFromCerts, Slots
  <2>6. SlotAsAsked("async_client", "http_client_async")
    BY <1>1, BuiltConfig DEF SlotAsAsked, IInv, ClientsKept, MakesFromCerts, Slots
  <2>. QED
    BY <2>2, <2>3, <2>4, <2>5, <2>6, Zenon DEF BuiltAsAsked
<1>. QED
  BY <1>1, InductiveInvariant, PTL

(* build() reports exactly the mistakes and omissions that were made:      *)
(* common.rs header_error, cert_error, and the backends' build().          *)
THEOREM NoMistakeIsLost == Spec => []MistakesSurface
<1>1. ASSUME IInv, built # None
      PROVE  built.error = None <=>
               /\ \/ site.missing = None
                  \/ site.missing = "bin_name" /\ Made("bin_name") # {}
               /\ ~Mistakes
  <2>1. built.error = BuildError(site, b)
    BY <1>1, BuiltConfig DEF BuildOf
  <2>2. /\ None # "InvalidHeader" /\ None # "InvalidCertificate" /\ None # "MissingField"
        /\ None # "bin_name" /\ None # "current_version"
    BY NoneAssumption
  <2>3. Check(site, b) = None <=> ~Mistakes
    <3>1. CertError(site, b) <=>
            /\ Unparsable(site.lib, Given("add_root_certificate"))
            /\ \E slot \in Slots(site) :
                 Made(IF slot = "client" THEN "http_client" ELSE "http_client_async") = {}
      <4>1. b.root_certificates = Given("add_root_certificate")
        BY <1>1 DEF IInv, ClientsKept
      <4>2. Unparsable(site.lib, b.root_certificates) => b.root_certificates # {}
        BY DEF Unparsable, ReqwestRejects, UreqRejects
      <4>3. /\ b.client = None <=> Made("http_client") = {}
            /\ b.async_client = None <=> Made("http_client_async") = {}
        BY <1>1 DEF IInv, ClientsKept
      <4>4. \A slot \in Slots(site) :
              b[slot] = None <=>
                Made(IF slot = "client" THEN "http_client" ELSE "http_client_async") = {}
        BY <4>3 DEF Slots
      <4>. QED
        BY <4>1, <4>2, <4>4 DEF CertError, MakesFromCerts
    <3>2. b.header_error <=> "invalid" \in Given("request_header")
      BY <1>1 DEF IInv, HeadersKept
    <3>. QED
      BY <2>2, <3>1, <3>2 DEF Check, Mistakes
  <2>4. b.bin_name = None <=> Made("bin_name") = {}
    BY <1>1 DEF IInv, NamesKept
  <2>5. b.bin_name # None => b.bin_path_in_archive # None
    BY <1>1 DEF IInv, NamesKept, Latest
  <2>6. /\ site \in Sites
        /\ site.kind \in {"list", "update", "source", "download"}
        /\ site.kind = "update" /\ site.missing # "bin_name" => Made("bin_name") # {}
        /\ None \notin Backend(site).fields
        /\ site.missing # None =>
              \/ site.kind \in {"list", "update"} /\ site.missing \in Backend(site).fields
              \/ site.kind = "update" /\ site.missing \in {"current_version", "bin_name"}
    BY <1>1, SitesAssumption, NoneAssumption DEF IInv, SiteOK
  <2>7. "bin_name" \notin Backend(site).fields /\ "current_version" \notin Backend(site).fields
    BY DEF Backend, Github, Gitlab, Gitea, Gitee, S3, Manifest, Custom
  <2>. DEFINE own == IF site.missing \in Backend(site).fields THEN "MissingField" ELSE None
              common == IF site.missing = "current_version" \/ b.bin_name = None
                           \/ b.bin_path_in_archive = None THEN "MissingField" ELSE None
  <2>8. CASE site.kind = "list"
    <3>1. BuildError(site, b) = FirstOf(<<Check(site, b), own>>)
      BY <2>8 DEF BuildError
    <3>2. FirstOf(<<Check(site, b), own>>) = None <=> Check(site, b) = None /\ own = None
      BY FirstOfTwo
    <3>. QED
      BY <2>1, <2>2, <2>3, <2>6, <2>7, <2>8, <3>1, <3>2
  <2>9. CASE site.kind = "update"
    <3>1. BuildError(site, b) = FirstOf(<<own, Check(site, b), common>>)
      BY <2>9 DEF BuildError
    <3>2. FirstOf(<<own, Check(site, b), common>>) = None <=>
            own = None /\ Check(site, b) = None /\ common = None
      BY FirstOfThree
    <3>3. common = None <=> site.missing # "current_version" /\ Made("bin_name") # {}
      BY <2>2, <2>4, <2>5
    <3>4. own = None <=> site.missing \notin Backend(site).fields
      BY <2>2
    <3>. HIDE DEF own, common
    <3>5. built.error = None <=>
            /\ site.missing \notin Backend(site).fields /\ site.missing # "current_version"
            /\ Made("bin_name") # {} /\ ~Mistakes
      BY <2>1, <2>3, <3>1, <3>2, <3>3, <3>4
    <3>6. site.missing = None \/ site.missing = "bin_name"
            <=> /\ site.missing \notin Backend(site).fields
                /\ site.missing # "current_version"
      BY <2>2, <2>6, <2>7, <2>9
    <3>7. site.missing = None => Made("bin_name") # {}
      BY <2>2, <2>6, <2>9
    <3>. QED
      BY <3>5, <3>6, <3>7
  <2>10. CASE site.kind \in {"source", "download"}
    <3>1. BuildError(site, b) = Check(site, b)
      BY <2>10 DEF BuildError
    <3>. QED
      BY <2>1, <2>3, <2>6, <2>10, <3>1
  <2>. QED
    BY <2>6, <2>8, <2>9, <2>10
<1>2. IInv => MistakesSurface
  BY <1>1 DEF MistakesSurface
<1>. QED
  BY <1>2, InductiveInvariant, PTL

(* Both transports send the credential that the calls ask for, and only    *)
(* where it may go: common.rs apply_auth, send, build_download.            *)
THEOREM CredentialsAgree == Spec => []CredentialAgrees
<1>1. ASSUME IInv, IsBuilt, site.kind # "download", NEW url \in Urls
      PROVE  LET sent    == SendCredential(built, url)
                 own     == "Authorization" \in Given("request_header")
                 reached == /\ \/ url.host = ApiHost /\ site.backend \in ApiBackends
                                  /\ site.kind # "source"
                               \/ url.host \in Given("allow_auth_host")
                            /\ \/ url.scheme = "https" \/ url.host \in Loopback
                               \/ Made("insecure_auth") # {}
             IN  /\ DownloadCredential(built, url) = sent
                 /\ sent.by = IF ~reached \/ (~own /\ Made("auth_token") = {}) THEN "none"
                              ELSE IF own THEN "user"
                              ELSE IF Latest("auth_token", None) = "unencodable" THEN "error"
                              ELSE IF site.backend \in {"gitlab", "gitee"} THEN "Bearer"
                              ELSE "Token"
  <2>. DEFINE own     == "Authorization" \in Given("request_header")
              reached == /\ \/ url.host = ApiHost /\ site.backend \in ApiBackends
                               /\ site.kind # "source"
                            \/ url.host \in Given("allow_auth_host")
                         /\ \/ url.scheme = "https" \/ url.host \in Loopback
                            \/ Made("insecure_auth") # {}
              sent    == SendCredential(built, url)
  <2>1. /\ built = BuildOf(site, b)
        /\ built.config.headers = b.headers
        /\ built.config.auth_token = b.auth_token
        /\ built.config.auth_hosts = b.auth_hosts
        /\ built.config.allow_insecure = b.allow_insecure
    BY <1>1, BuiltConfig DEF IsBuilt
  <2>2. /\ "Authorization" \in built.config.headers <=> own
        /\ built.config.auth_token = Latest("auth_token", None)
        /\ built.config.auth_token = None <=> Made("auth_token") = {}
        /\ built.config.auth_hosts = Given("allow_auth_host")
        /\ built.config.allow_insecure <=> Made("insecure_auth") # {}
    BY <1>1, <2>1 DEF IInv, HeadersKept, AuthKept
  <2>3. site.kind \in {"list", "update", "source"}
    BY <1>1, SitesAssumption DEF IInv, SiteOK
  <2>4. Backend(site).host = IF site.backend \in ApiBackends THEN ApiHost ELSE None
    BY DEF Backend, ApiBackends, Github, Gitlab, Gitea, Gitee, S3, Manifest, Custom
  <2>5. built.scheme = IF site.backend \in {"gitlab", "gitee"} THEN "Bearer" ELSE "Token"
    <3>1. built.scheme = Backend(site).scheme
      BY <2>1 DEF BuildOf
    <3>. QED
      BY <3>1 DEF Backend, Github, Gitlab, Gitea, Gitee, S3, Manifest, Custom
  <2>6. built.base_host =
          IF site.backend \in ApiBackends /\ site.kind # "source" THEN ApiHost ELSE None
    BY <2>1, <2>3, <2>4 DEF BuildOf
  <2>7. url.host # None
    BY UrlsAssumption
  <2>8. AuthAllowedFor(built, url) <=> reached
    BY <2>2, <2>6, <2>7 DEF AuthAllowedFor
  <2>9. sent.by = IF ~reached \/ (~own /\ Made("auth_token") = {}) THEN "none"
                  ELSE IF own THEN "user"
                  ELSE IF Latest("auth_token", None) = "unencodable" THEN "error"
                  ELSE built.scheme
    <3>. HIDE DEF own, reached
    <3>. QED
      BY <2>2, <2>8 DEF SendCredential, ApplyAuth
  <2>10. DownloadCredential(built, url) = sent
    BY DEF DownloadCredential, SendCredential
  <2>. QED
    BY <2>5, <2>9, <2>10
<1>2. IInv => CredentialAgrees
  BY <1>1 DEF CredentialAgrees
<1>. QED
  BY <1>2, InductiveInvariant, PTL

-----------------------------------------------------------------------------
(* Doubling.                                                               *)

LEMMA Least ==
  ASSUME NEW S \in SUBSET Nat, S # {}
  PROVE  \E m \in S : \A n \in S : m <= n
<1>1. PICK m \in S : \A n \in S : <<n, m>> \notin OpToRel(<, Nat)
  BY NatLessThanWellFounded, WFMin
<1>2. ASSUME NEW n \in S PROVE m <= n
  <2>1. ~(n < m)
    BY <1>1 DEF OpToRel
  <2>. QED
    BY <2>1
<1>. QED
  BY <1>2

LEMMA Induction ==
  ASSUME NEW S \in SUBSET Nat, 0 \in S, \A n \in S : n + 1 \in S
  PROVE  S = Nat
<1>. SUFFICES ASSUME Nat \ S # {} PROVE FALSE
  OBVIOUS
<1>1. PICK m \in Nat \ S : \A n \in Nat \ S : m <= n
  BY Least
<1>2. m - 1 \in Nat \ S
  BY <1>1
<1>. QED
  BY <1>1, <1>2

(* One more doubling of every delay.                                       *)
Twice(d) == [base \in Nat |-> Smaller(d[base] * 2, MaxMillis)]

Same == [base \in Nat |-> base]

(* What doubling up to n times may be.                                     *)
Upto(g, n) ==
  /\ g \in [0..n -> [Nat -> Nat]]
  /\ g[0] = Same
  /\ \A i \in 0..n : i # 0 => g[i] = Twice(g[i - 1])

LEMMA TwiceIs == \A d \in [Nat -> Nat] : Twice(d) \in [Nat -> Nat]
BY MillisAssumption DEF Twice, Smaller

LEMMA UptoExists == \A n \in Nat : \E g : Upto(g, n)
<1>. DEFINE S == {n \in Nat : \E g : Upto(g, n)}
<1>1. 0 \in S
  <2>1. Upto([i \in 0..0 |-> Same], 0)
    BY DEF Upto, Same
  <2>. QED
    BY <2>1
<1>2. ASSUME NEW n \in S PROVE n + 1 \in S
  <2>1. PICK g : Upto(g, n)
    OBVIOUS
  <2>. DEFINE h == [i \in 0..(n + 1) |-> IF i = n + 1 THEN Twice(g[n]) ELSE g[i]]
  <2>2. /\ n \in Nat /\ g[n] \in [Nat -> Nat] /\ Twice(g[n]) \in [Nat -> Nat]
        /\ \A i \in 0..n : g[i] \in [Nat -> Nat]
    <3>1. n \in Nat /\ n \in 0..n
      OBVIOUS
    <3>2. g \in [0..n -> [Nat -> Nat]]
      BY <2>1 DEF Upto
    <3>3. \A i \in 0..n : g[i] \in [Nat -> Nat]
      BY <3>2
    <3>. QED
      BY <3>1, <3>3, TwiceIs
  <2>3. h \in [0..(n + 1) -> [Nat -> Nat]]
    <3>1. \A i \in 0..(n + 1) : i = n + 1 \/ i \in 0..n
      BY <2>2
    <3>. QED
      BY <2>2, <3>1
  <2>4. h[0] = Same
    BY <2>1, <2>2 DEF Upto
  <2>5. ASSUME NEW i \in 0..(n + 1), i # 0 PROVE h[i] = Twice(h[i - 1])
    <3>1. i - 1 \in 0..n /\ i - 1 # n + 1 /\ i - 1 \in 0..(n + 1)
      BY <2>2, <2>5
    <3>2. h[i - 1] = g[i - 1]
      BY <3>1
    <3>3. CASE i = n + 1
      <4>1. i - 1 = n /\ h[i] = Twice(g[n])
        BY <2>2, <3>3
      <4>. QED
        BY <3>2, <4>1
    <3>4. CASE i # n + 1
      <4>1. i \in 0..n /\ h[i] = g[i]
        BY <2>2, <3>4
      <4>. QED
        BY <2>1, <2>5, <3>2, <4>1 DEF Upto
    <3>. QED
      BY <3>3, <3>4
  <2>. HIDE DEF h
  <2>6. Upto(h, n + 1)
    BY <2>3, <2>4, <2>5 DEF Upto
  <2>. QED
    BY <2>2, <2>6
<1>3. S = Nat
  <2>. HIDE DEF S
  <2>1. S \in SUBSET Nat
    BY DEF S
  <2>. QED
    BY <1>1, <1>2, <2>1, Induction
<1>. QED
  BY <1>3

LEMMA UptoAgree ==
  ASSUME NEW n \in Nat, NEW m \in Nat, NEW g, NEW h, Upto(g, n), Upto(h, m), n <= m
  PROVE  g[n] = h[n]
<1>. DEFINE S == {i \in Nat : i <= n => g[i] = h[i]}
<1>1. 0 \in S
  BY DEF Upto
<1>2. ASSUME NEW i \in S PROVE i + 1 \in S
  <2>1. ASSUME i + 1 <= n PROVE g[i + 1] = h[i + 1]
    <3>1. i + 1 \in 0..n /\ i + 1 \in 0..m /\ i + 1 # 0 /\ (i + 1) - 1 = i /\ g[i] = h[i]
      BY <2>1
    <3>2. g[i + 1] = Twice(g[i]) /\ h[i + 1] = Twice(h[i])
      BY <3>1 DEF Upto
    <3>. QED
      BY <3>1, <3>2
  <2>. QED
    BY <2>1
<1>3. S = Nat
  <2>. HIDE DEF S
  <2>1. S \in SUBSET Nat
    BY DEF S
  <2>. QED
    BY <1>1, <1>2, <2>1, Induction
<1>. QED
  BY <1>3

(* The recursive definition defines what it says.                          *)
LEMMA DoubledIs ==
  /\ \A n \in Nat : Doubled[n] \in [Nat -> Nat]
  /\ Doubled[0] = Same
  /\ \A n \in Nat : Doubled[n + 1] = Twice(Doubled[n])
<1>. DEFINE G(n) == CHOOSE g : Upto(g, n)
            F == [n \in Nat |-> G(n)[n]]
            R(f) == [n \in Nat |-> [base \in Nat |->
                       IF n = 0 THEN base ELSE Smaller(f[n - 1][base] * 2, MaxMillis)]]
<1>1. \A n \in Nat : Upto(G(n), n)
  BY UptoExists
<1>. HIDE DEF G
<1>2. ASSUME NEW n \in Nat PROVE F[n] = G(n)[n] /\ F[n] \in [Nat -> Nat]
  <2>1. G(n) \in [0..n -> [Nat -> Nat]] /\ n \in 0..n
    BY <1>1 DEF Upto
  <2>2. G(n)[n] \in [Nat -> Nat]
    BY <2>1
  <2>. QED
    BY <2>2
<1>3. F[0] = Same
  BY <1>1, <1>2 DEF Upto
<1>4. ASSUME NEW n \in Nat PROVE F[n + 1] = Twice(F[n])
  <2>1. n + 1 \in Nat /\ n + 1 \in 0..(n + 1) /\ n + 1 # 0 /\ (n + 1) - 1 = n /\ n <= n + 1
    OBVIOUS
  <2>2. Upto(G(n + 1), n + 1) /\ Upto(G(n), n)
    BY <1>1, <2>1
  <2>3. G(n + 1)[n + 1] = Twice(G(n + 1)[n])
    BY <2>1, <2>2 DEF Upto
  <2>4. G(n)[n] = G(n + 1)[n]
    BY <2>1, <2>2, UptoAgree
  <2>. QED
    BY <1>2, <2>1, <2>3, <2>4
<1>5. F = R(F)
  <2>1. ASSUME NEW n \in Nat PROVE F[n] = R(F)[n]
    <3>1. CASE n = 0
      BY <1>3, <3>1 DEF Same
    <3>2. CASE n # 0
      <4>1. n - 1 \in Nat /\ (n - 1) + 1 = n
        BY <3>2
      <4>2. F[n] = Twice(F[n - 1])
        BY <1>4, <4>1
      <4>. HIDE DEF F
      <4>. QED
        BY <3>2, <4>2 DEF Twice
    <3>. QED
      BY <3>1, <3>2
  <2>2. F = [n \in Nat |-> F[n]] /\ R(F) = [n \in Nat |-> R(F)[n]]
    OBVIOUS
  <2>. HIDE DEF F, R
  <2>3. [n \in Nat |-> F[n]] = [n \in Nat |-> R(F)[n]]
    BY <2>1
  <2>. QED
    BY <2>2, <2>3
<1>6. Doubled = CHOOSE f : f = R(f)
  BY DEF Doubled
<1>. HIDE DEF F, R
<1>7. Doubled = R(Doubled)
  BY <1>5, <1>6
<1>8. \A n \in Nat : Doubled[n] = [base \in Nat |->
          IF n = 0 THEN base ELSE Smaller(Doubled[n - 1][base] * 2, MaxMillis)]
  BY <1>7 DEF R
<1>9. Doubled[0] = Same
  BY <1>8 DEF Same
<1>10. ASSUME NEW n \in Nat PROVE Doubled[n + 1] = Twice(Doubled[n])
  <2>1. n + 1 \in Nat /\ n + 1 # 0 /\ (n + 1) - 1 = n
    OBVIOUS
  <2>. QED
    BY <1>8, <2>1 DEF Twice
<1>11. \A n \in Nat : Doubled[n] \in [Nat -> Nat]
  <2>. DEFINE S == {n \in Nat : Doubled[n] \in [Nat -> Nat]}
  <2>1. 0 \in S
    BY <1>9 DEF Same
  <2>2. ASSUME NEW n \in S PROVE n + 1 \in S
    <3>1. n \in Nat /\ n + 1 \in Nat /\ Doubled[n] \in [Nat -> Nat]
      OBVIOUS
    <3>2. Doubled[n + 1] \in [Nat -> Nat]
      BY <1>10, <3>1, TwiceIs
    <3>. QED
      BY <3>1, <3>2
  <2>3. S = Nat
    <3>. HIDE DEF S
    <3>1. S \in SUBSET Nat
      BY DEF S
    <3>. QED
      BY <2>1, <2>2, <3>1, Induction
  <2>. QED
    BY <2>3
<1>. QED
  BY <1>9, <1>10, <1>11

-----------------------------------------------------------------------------
(* The delays of a request: one for each retry, and each what doubling     *)
(* says.                                                                   *)

Base == built.config.backoff[1]
Limit == built.config.backoff[2]

RequestKept ==
  req # Idle =>
    /\ built # None
    /\ DOMAIN req = {"phase", "client", "attempts", "delays"}
    /\ req.phase \in {"sent", "waiting", "body", "done", "failed"}
    /\ req.attempts \in Nat /\ req.delays \in Seq(Nat)
    /\ Len(req.delays) = IF req.phase = "waiting" THEN req.attempts + 1 ELSE req.attempts
    /\ Len(req.delays) <= built.config.retries
    /\ \A i \in 1..Len(req.delays) : req.delays[i] = RetryBackoffMs(i - 1, Base, Limit)

LEMMA BuiltTiming ==
  ASSUME IInv, built # None
  PROVE  /\ built.config.retries = Latest("retries", 0) /\ built.config.retries \in Nat
         /\ built.config.backoff = Latest("retry_backoff", <<DefaultBase, DefaultMax>>)
         /\ Base \in Millis /\ Limit \in Millis /\ Base \in Nat /\ Limit \in Nat
<1>1. built.config.retries = b.retries /\ built.config.backoff = b.backoff
  BY BuiltConfig
<1>2. TimingKept
  BY DEF IInv
<1>3. Base \in Millis /\ Limit \in Millis
  BY <1>1, <1>2 DEF TimingKept, Base, Limit
<1>4. \A n \in Millis : n \in Nat
  BY MillisAssumption DEF Millis
<1>. QED
  BY <1>1, <1>2, <1>3, <1>4 DEF TimingKept

LEMMA DelayIs ==
  ASSUME NEW n \in Nat, NEW base \in Nat, NEW max \in Nat
  PROVE  RetryBackoffMs(n, base, max) \in Nat
<1>1. Doubled[n][base] \in Nat
  BY DoubledIs
<1>. QED
  BY <1>1 DEF RetryBackoffMs, Smaller

LEMMA FailKeeps == ASSUME IInv, RequestKept, req.phase = "sent", Fail, UNCHANGED builderVars PROVE RequestKept'
<1>. DEFINE n == req.attempts  d == req.delays  delay == RetryBackoffMs(n, Base, Limit)
<1>0. req # Idle /\ Base' = Base /\ Limit' = Limit /\ built' = built
  BY DEF Idle, Base, Limit, builderVars
<1>1. /\ built # None /\ DOMAIN req = {"phase", "client", "attempts", "delays"}
      /\ n \in Nat /\ d \in Seq(Nat) /\ Len(d) = n /\ n <= built.config.retries
      /\ \A i \in 1..n : d[i] = RetryBackoffMs(i - 1, Base, Limit)
  BY <1>0 DEF RequestKept
<1>2. built.config.retries \in Nat /\ delay \in Nat
  BY <1>1, BuiltTiming, DelayIs
<1>3. CASE n >= built.config.retries
  <2>1. req' = [req EXCEPT !.phase = "failed"]
    BY <1>3 DEF Fail
  <2>2. /\ DOMAIN req' = DOMAIN req /\ req'.phase = "failed"
        /\ req'.attempts = n /\ req'.delays = d
    BY <1>1, <2>1
  <2>. QED
    BY <1>0, <1>1, <2>2 DEF RequestKept
<1>4. CASE ~(n >= built.config.retries)
  <2>1. req' = [req EXCEPT !.phase = "waiting", !.delays = Append(@, delay)]
    BY <1>4 DEF Fail, Base, Limit
  <2>. HIDE DEF delay
  <2>2. /\ DOMAIN req' = DOMAIN req /\ req'.phase = "waiting"
        /\ req'.attempts = n /\ req'.delays = Append(d, delay)
    BY <1>1, <2>1
  <2>. DEFINE e == Append(d, delay)
  <2>3. e \in Seq(Nat) /\ Len(e) = n + 1 /\ e[n + 1] = delay /\ \A i \in 1..n : e[i] = d[i]
    BY <1>1, <1>2
  <2>. HIDE DEF e
  <2>4. n + 1 <= built.config.retries
    BY <1>1, <1>2, <1>4
  <2>5. ASSUME NEW i \in 1..(n + 1) PROVE e[i] = RetryBackoffMs(i - 1, Base, Limit)
    <3>1. CASE i = n + 1
      <4>1. i - 1 = n
        BY <1>1, <3>1
      <4>. QED
        BY <2>3, <3>1, <4>1 DEF delay
    <3>2. CASE i # n + 1
      <4>1. i \in 1..n
        BY <1>1, <3>2
      <4>. QED
        BY <1>1, <2>3, <4>1
    <3>. QED
      BY <3>1, <3>2
  <2>6. Len(req'.delays) = n + 1 /\ req'.delays = e
    BY <2>2, <2>3 DEF e
  <2>. QED
    BY <1>0, <1>1, <2>2, <2>3, <2>4, <2>5, <2>6 DEF RequestKept
<1>. QED
  BY <1>3, <1>4

LEMMA RequestStays == IInv /\ RequestKept /\ [Next]_vars => RequestKept'
<1>. SUFFICES ASSUME IInv, RequestKept, [Next]_vars PROVE RequestKept'
  OBVIOUS
<1>1. CASE UNCHANGED vars
  BY <1>1 DEF vars, builderVars, RequestKept, Base, Limit
<1>2. CASE BuilderNext /\ req = Idle /\ UNCHANGED req
  BY <1>2 DEF RequestKept
<1>3. CASE Start
  <2>1. /\ UNCHANGED builderVars /\ built # None
        /\ DOMAIN req' = {"phase", "client", "attempts", "delays"}
        /\ req'.phase \in {"sent", "failed"} /\ req'.attempts = 0 /\ req'.delays = <<>>
    BY <1>3 DEF Start, IsBuilt
  <2>2. built' = built /\ built.config.retries \in Nat
    BY <2>1, BuiltTiming DEF builderVars
  <2>3. <<>> \in Seq(Nat) /\ Len(<<>>) = 0
    OBVIOUS
  <2>. QED
    BY <2>1, <2>2, <2>3 DEF RequestKept
<1>4. CASE Refused \/ TimedOut
  BY <1>4, FailKeeps DEF Refused, TimedOut
<1>5. CASE Wake
  <2>1. /\ req.phase = "waiting" /\ req' = [req EXCEPT !.phase = "sent", !.attempts = @ + 1]
        /\ UNCHANGED builderVars
    BY <1>5 DEF Wake
  <2>2. req # Idle /\ built' = built /\ Base' = Base /\ Limit' = Limit
    BY <2>1 DEF Idle, builderVars, Base, Limit
  <2>3. /\ DOMAIN req' = DOMAIN req /\ req'.phase = "sent" /\ req'.attempts = req.attempts + 1
        /\ req'.delays = req.delays
    BY <2>1, <2>2 DEF RequestKept
  <2>. QED
    BY <2>1, <2>2, <2>3 DEF RequestKept
<1>6. CASE Answered \/ BodyRead \/ BodyLost
  <2>1. PICK p \in {"body", "done", "failed"} :
          /\ req.phase \in {"sent", "body"} /\ req' = [req EXCEPT !.phase = p]
          /\ UNCHANGED builderVars
    BY <1>6 DEF Answered, BodyRead, BodyLost
  <2>2. req # Idle /\ built' = built /\ Base' = Base /\ Limit' = Limit
    BY <2>1 DEF Idle, builderVars, Base, Limit
  <2>3. /\ DOMAIN req' = DOMAIN req /\ req'.phase = p /\ req'.attempts = req.attempts
        /\ req'.delays = req.delays
    BY <2>1, <2>2 DEF RequestKept
  <2>. QED
    BY <2>1, <2>2, <2>3 DEF RequestKept
<1>. QED
  BY <1>1, <1>2, <1>3, <1>4, <1>5, <1>6 DEF Next, RequestStep

(* A delay is twice the one before, up to the limit, even where the code   *)
(* has saturated.                                                          *)
LEMMA NextDelay ==
  ASSUME NEW n \in Nat, NEW base \in Nat, NEW max \in Millis
  PROVE  RetryBackoffMs(n + 1, base, max) = Smaller(2 * RetryBackoffMs(n, base, max), max)
<1>1. Doubled[n][base] \in Nat /\ Doubled[n + 1][base] = Smaller(Doubled[n][base] * 2, MaxMillis)
  BY DoubledIs DEF Twice
<1>2. max \in Nat /\ MaxMillis \in Nat /\ max <= MaxMillis
  BY MillisAssumption DEF Millis
<1>. QED
  BY <1>1, <1>2 DEF RetryBackoffMs, Smaller

(* However many retries there are and whatever the delays, the delay       *)
(* doubles from the base up to the limit, and there are no more delays     *)
(* than retries asked for (retry, retry_backoff_ms).                       *)
THEOREM BackoffDoubles == Spec => []BackoffExact
<1>1. Init => RequestKept
  BY DEF Init, RequestKept
<1>2. IInv /\ RequestKept => BackoffExact
  <2>. SUFFICES ASSUME IInv, RequestKept, req # Idle PROVE BackoffExact
    BY DEF BackoffExact
  <2>. DEFINE d == req.delays
  <2>1. /\ built # None /\ d \in Seq(Nat) /\ DOMAIN d = 1..Len(d) /\ Len(d) \in Nat
        /\ Len(d) <= built.config.retries
        /\ \A i \in 1..Len(d) : d[i] = RetryBackoffMs(i - 1, Base, Limit)
    BY DEF RequestKept
  <2>2. /\ built.config.retries = Latest("retries", 0)
        /\ Latest("retry_backoff", <<DefaultBase, DefaultMax>>)[1] = Base
        /\ Latest("retry_backoff", <<DefaultBase, DefaultMax>>)[2] = Limit
        /\ Base \in Nat /\ Limit \in Millis
    BY <2>1, BuiltTiming DEF Base, Limit
  <2>3. ASSUME NEW i \in 1..Len(d)
        PROVE  d[i] = Smaller(IF i = 1 THEN Base ELSE 2 * d[i - 1], Limit)
    <3>1. CASE i = 1
      <4>1. Doubled[0][Base] = Base
        BY <2>2, DoubledIs DEF Same
      <4>2. d[i] = RetryBackoffMs(0, Base, Limit)
        BY <2>1, <3>1
      <4>. QED
        BY <3>1, <4>1, <4>2 DEF RetryBackoffMs
    <3>2. CASE i # 1
      <4>1. i - 1 \in 1..Len(d) /\ (i - 1) - 1 \in Nat /\ ((i - 1) - 1) + 1 = i - 1
        BY <2>1, <3>2
      <4>2. d[i] = RetryBackoffMs(i - 1, Base, Limit) /\ d[i - 1] = RetryBackoffMs((i - 1) - 1, Base, Limit)
        BY <2>1, <4>1
      <4>3. d[i] = Smaller(2 * d[i - 1], Limit)
        BY <2>2, <4>1, <4>2, NextDelay
      <4>. QED
        BY <3>2, <4>3
    <3>. QED
      BY <3>1, <3>2
  <2>. QED
    BY <2>1, <2>2, <2>3 DEF BackoffExact
<1>. QED
  BY <1>1, <1>2, RequestStays, InductiveInvariant, PTL DEF Spec
=============================================================================
