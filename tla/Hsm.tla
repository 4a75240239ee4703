-------------------------------- MODULE Hsm --------------------------------
(***************************************************************************)
(* libhsm (libhsm/src/lib/libhsm.c): the library through which the         *)
(* enforcer, the signer and ods-hsmutil reach the keys in their PKCS#11    *)
(* tokens.  A process opens one session per configured repository in the   *)
(* global context; a thread that needs keys clones that context, and the   *)
(* clones share one cache of keys.  Every call into a token may fail, a    *)
(* token may lose its sessions, and what one thread found may be gone when *)
(* it uses it: a step of a thread is one search or one read in a token.    *)
(*                                                                         *)
(* A thread that only finds, makes and removes keys stands for a thread of *)
(* another process as well: the tokens are all they share.                 *)
(*                                                                         *)
(* An object handle is the place of the object in hobjs, 0 is no object.   *)
(* A session is named by its owner, "global" or a thread, and the place of *)
(* its repository in the configuration.                                    *)
(***************************************************************************)
EXTENDS Integers, Sequences, FiniteSets, SequencesExt

CONSTANTS HsmRepos,     \* the configured repositories: lib, token, pubkey
                        \* (use_pubkey) and asks (no PIN is configured)
          HsmThreads,
          HsmIds,       \* the values of CKA_ID
          HsmTokens,    \* what the tokens may hold at first
          HsmScenarios  \* jobs, locators (ids), algorithms (kinds), what may fail
                        \* (fails: "open", "call" or "reset") and bounds:
                        \* faults, count (of jobs) and opens

HSM_MAX_SESSIONS == 100

ASSUME HsmAssumption == Len(HsmRepos) <= HSM_MAX_SESSIONS

VARIABLES
  hscen,   \* the scenario
  hlibs,   \* per library: refs, the count of dlopen, and whether initialised
  hsess,   \* the open sessions
  hlogin,  \* the tokens that are logged in
  hgctx,   \* _hsm_ctx: whether it exists, session_count and error
  hcache,  \* the cache of keys, from locator to key
  hobjs,   \* the objects ever made: token, id, class, kind and live
  hth,     \* the threads: their context and what they are doing
  hleft    \* how many faults, jobs and opens are left; reset, whether a
           \* token was reset since the last open

hsmvars == <<hscen, hlibs, hsess, hlogin, hgctx, hcache, hobjs, hth, hleft>>

NoObject == [repo |-> 0, priv |-> 0, pub |-> 0]

NoContext == [open |-> FALSE, n |-> 0, err |-> FALSE]

\* A thread without a context.  Besides what the code keeps in variables: at,
\* the private keys there were when the job began; fresh, whether its locator
\* was not in the cache then; left, the faults that were left.
NoThread == [n |-> -1, err |-> FALSE, job |-> "none", pc |-> "idle", id |-> 0,
             kind |-> "none", repo |-> 0, i |-> 0, key |-> NoObject, alg |-> "none",
             todo |-> {}, keys |-> {}, info |-> {}, retry |-> FALSE, res |-> "none",
             at |-> {}, fresh |-> FALSE, left |-> 0]

Handles == DOMAIN hobjs

Exists(h) == h \in Handles /\ hobjs[h].live

\* The live objects of a class in the token of repository i.
Objects(i, class) ==
  {h \in Handles : /\ hobjs[h].live /\ hobjs[h].class = class
                   /\ hobjs[h].token = HsmRepos[i].token}

Libs == {HsmRepos[i].lib : i \in DOMAIN HsmRepos}

\* The token behind a session: hsm_get_slot_id takes the slot whose token has
\* the label of the repository.
TokenOf(s) == HsmRepos[s[2]].token

LibOf(s) == HsmRepos[s[2]].lib

\* A cache without keys, as keycache_create makes it.
keycache_create == <<>>

HsmInit ==
  /\ hscen \in HsmScenarios
  /\ hlibs = [l \in Libs |-> [refs |-> 0, init |-> FALSE]]
  /\ hsess = {} /\ hlogin = {} /\ hgctx = NoContext /\ hcache = keycache_create
  /\ hobjs \in HsmTokens
  /\ hth = [t \in HsmThreads |-> NoThread]
  /\ hleft = [faults |-> hscen.faults, jobs |-> hscen.count,
              opens |-> hscen.opens, reset |-> FALSE]

---------------------------------------------------------------------------
(* The global context. *)

\* The library is loaded with dlopen, and dlclose takes that back.
hsm_pkcs11_load_functions(s, lib) == [s EXCEPT !.libs[lib].refs = @ + 1]

hsm_pkcs11_unload_functions(s, lib) == [s EXCEPT !.libs[lib].refs = @ - 1]

\* The session becomes the last of the global context.  One beyond
\* HSM_MAX_SESSIONS (libhsm.c:719) would stay logged in and belong to no
\* context: HsmAssumption leaves that out.
hsm_ctx_add_session(s, i) ==
  [s EXCEPT !.login = @ \cup {HsmRepos[i].token}, !.n = @ + 1]

\* hsm_session_init and hsm_attach: the library is loaded and initialised, a
\* session is opened and logged in; o is how far that goes.  What was reached
\* is left as it is, but a failed login closes the session again ("stuck" is
\* when that fails too), and the library if it was this call that opened it.
hsm_session_init(s, i, o) ==
  LET lib == HsmRepos[i].lib
      first == ~s.libs[lib].init
      loaded == hsm_pkcs11_load_functions(s, lib)
      inited == [loaded EXCEPT !.libs[lib].init = TRUE]
      opened == [inited EXCEPT !.sess = @ \cup {<<"global", i>>}]
  IN CASE o = "noload" -> s
       [] o = "noinit" -> IF first THEN loaded ELSE inited
       [] o \in {"noslot", "nosession"} -> inited
       [] o = "stuck" -> opened
       [] o = "nologin" -> [inited EXCEPT !.libs[lib].init = ~first]
       [] o = "ok" -> hsm_ctx_add_session(opened, i)

\* The attempts at one repository, in order: wrong PINs first.  A PIN that is
\* configured is tried once; one that is asked for is tried three times, as
\* long as the user or the shared memory gives one.
Attempts(i) ==
  LET tries == IF HsmRepos[i].asks THEN 0 .. 2 ELSE {0}
      ends == {"noload", "noinit", "noslot", "nosession", "stuck", "nologin", "ok"}
      pins(k) == [j \in 1 .. k |-> "nologin"]
  IN {Append(pins(k), e) : k \in tries, e \in ends}
     \cup (IF HsmRepos[i].asks THEN {pins(k) : k \in 0 .. 2} ELSE {})

Attached(attempts) == attempts # <<>> /\ Last(attempts) = "ok"

Attach(s, i, attempts) ==
  FoldLeft(LAMBDA u, o : hsm_session_init(u, i, o), s, attempts)

\* hsm_open2: the repositories in their order until one cannot be attached,
\* which is repository stop.  The context stays as far as it has come.
hsm_open2 ==
  \E stop \in 1 .. Len(HsmRepos) : \E attempts \in Attempts(stop) :
    LET ok == Attached(attempts)
        begin == [libs |-> hlibs, sess |-> hsess, login |-> hlogin, n |-> 0]
        upto == FoldLeft(LAMBDA u, i : Attach(u, i, IF i = stop THEN attempts ELSE <<"ok">>),
                         begin, [i \in 1 .. (IF ok THEN Len(HsmRepos) ELSE stop) |-> i])
    IN /\ ~hgctx.open /\ hleft.opens > 0
       /\ ~ok => hleft.faults > 0 /\ "open" \in hscen.fails
       /\ hlibs' = upto.libs /\ hsess' = upto.sess /\ hlogin' = upto.login
       /\ hgctx' = [open |-> TRUE, n |-> upto.n, err |-> ~ok]
       /\ hcache' = keycache_create
       /\ hleft' = [hleft EXCEPT !.opens = @ - 1, !.reset = FALSE,
                                 !.faults = IF ok THEN @ ELSE @ - 1]
       /\ UNCHANGED <<hscen, hobjs, hth>>

\* hsm_session_close with unload: the first session of a library finalises
\* it, which ends every session with it; for the others the library is not
\* initialised any more, which is ignored, and it is not unloaded again.
hsm_session_close(s, i) ==
  LET lib == HsmRepos[i].lib
  IN IF ~s.libs[lib].init THEN s
     ELSE [hsm_pkcs11_unload_functions(s, lib) EXCEPT
             !.libs[lib].init = FALSE,
             !.sess = {x \in @ : LibOf(x) # lib},
             !.login = {t \in @ : \A j \in DOMAIN HsmRepos :
                          HsmRepos[j].token = t => HsmRepos[j].lib # lib}]

\* hsm_close, when the engine has stopped its workers.
hsm_close ==
  LET begin == [libs |-> hlibs, sess |-> hsess, login |-> hlogin]
      end == FoldLeft(hsm_session_close, begin, [i \in 1 .. hgctx.n |-> i])
  IN /\ hgctx.open /\ \A t \in HsmThreads : hth[t].n = -1
     /\ hlibs' = end.libs /\ hsess' = end.sess /\ hlogin' = end.login
     /\ hgctx' = NoContext /\ hcache' = keycache_create
     /\ UNCHANGED <<hscen, hobjs, hth, hleft>>

\* The sessions of a context are closed; a token whose last session is closed
\* is logged out.
CloseSessions(closed) ==
  /\ hsess' = hsess \ closed
  /\ hlogin' = {t \in hlogin : \E s \in hsess \ closed : TokenOf(s) = t}

hsm_session_clone(t, i) == <<t, i>>

\* A session for every session of the global context.
hsm_ctx_clone(t) == {hsm_session_clone(t, i) : i \in 1 .. hgctx.n}

\* hsm_create_context: hsm_ctx_clone opens all of its sessions, or keeps none
\* when one cannot be opened.
hsm_create_context ==
  \E t \in HsmThreads, fault \in BOOLEAN :
    /\ hgctx.open /\ hth[t].n = -1 /\ hleft.jobs > 0
    /\ fault => hleft.faults > 0 /\ hgctx.n > 0 /\ "open" \in hscen.fails
    /\ IF fault
       THEN /\ hleft' = [hleft EXCEPT !.faults = @ - 1]
            /\ hgctx' = [hgctx EXCEPT !.err = TRUE]
            /\ UNCHANGED <<hsess, hth>>
       ELSE /\ hsess' = hsess \cup hsm_ctx_clone(t)
            /\ hth' = [hth EXCEPT ![t] = [NoThread EXCEPT !.n = hgctx.n]]
            /\ UNCHANGED <<hleft, hgctx>>
    /\ UNCHANGED <<hscen, hlibs, hlogin, hcache, hobjs>>

hsm_destroy_context ==
  \E t \in HsmThreads :
    /\ hth[t].n >= 0 /\ hth[t].pc = "idle"
    /\ CloseSessions({<<t, i>> : i \in 1 .. hth[t].n})
    /\ hth' = [hth EXCEPT ![t] = NoThread]
    /\ UNCHANGED <<hscen, hlibs, hgctx, hcache, hobjs, hleft>>

\* hsm_check_context, before a zone is signed: every session of the global
\* context is open and logged in, and another one can be opened.
hsm_check_context ==
  /\ hgctx.open
  /\ \E i \in 1 .. hgctx.n :
       \/ <<"global", i>> \notin hsess
       \/ HsmRepos[i].token \notin hlogin
  /\ hgctx' = [hgctx EXCEPT !.err = TRUE]
  /\ UNCHANGED <<hscen, hlibs, hsess, hlogin, hcache, hobjs, hth, hleft>>

\* A token loses its sessions and its login.
TokenReset ==
  \E token \in hlogin :
    /\ hleft.faults > 0 /\ "reset" \in hscen.fails
    /\ hsess' = {s \in hsess : TokenOf(s) # token}
    /\ hlogin' = hlogin \ {token}
    /\ hleft' = [hleft EXCEPT !.faults = @ - 1, !.reset = TRUE]
    /\ UNCHANGED <<hscen, hlibs, hgctx, hcache, hobjs, hth>>

---------------------------------------------------------------------------
(* What a thread does with its context, r the record of the thread. *)

\* A call into the token of session i of the thread fails.
Fails(t, i, fault) == fault \/ <<t, i>> \notin hsess

\* An object can be used: it is still there and, if it is private, the token
\* is logged in.
Usable(t, i, h, fault) ==
  /\ ~Fails(t, i, fault) /\ Exists(h)
  /\ hobjs[h].class = "priv" => HsmRepos[i].token \in hlogin

Failed(r) == [r EXCEPT !.err = TRUE]

Done(r, res) == [r EXCEPT !.pc = "done", !.res = res]

\* The signer reads the error, which clears it, before it gives up.
GivenUp(r) == [Done(r, "fail") EXCEPT !.err = FALSE]

\* The key after hsm_find_key_by_id, or NoObject.
AfterFind(r, key) ==
  LET q == [r EXCEPT !.key = key]
  IN CASE r.job \in {"getkey", "sign"} ->
            IF key = NoObject THEN GivenUp(q) ELSE [q EXCEPT !.pc = "insert"]
       [] r.job \in {"generate", "test"} ->
            [q EXCEPT !.pc = IF key = NoObject THEN "make" ELSE "draw"]
       [] r.job = "remove" ->
            IF key = NoObject THEN Done(q, "fail") ELSE [q EXCEPT !.pc = "destroy"]
       [] r.job = "dnskey" ->
            IF key = NoObject THEN Done(q, "fail") ELSE [q EXCEPT !.pc = "alg"]

\* hsm_find_key_by_id_bin: the sessions in their order, from number i on.
FindFrom(r, i) ==
  IF i > r.n THEN AfterFind(r, NoObject) ELSE [r EXCEPT !.i = i, !.pc = "priv"]

\* hsm_find_object_handle_for_id: an object with that id, if there is one.
hsm_find_object_handle_for_id(i, id, class) ==
  LET found == {h \in Objects(i, class) : hobjs[h].id = id}
  IN IF found = {} THEN {0} ELSE found

\* The search for the private key shows the objects of a token only to those
\* who are logged in.
FindPrivate(t, r, fault) ==
  /\ r.pc = "priv"
  /\ \E h \in IF Fails(t, r.i, fault) \/ HsmRepos[r.i].token \notin hlogin THEN {0}
              ELSE hsm_find_object_handle_for_id(r.i, r.id, "priv") :
       LET q == IF Fails(t, r.i, fault) THEN Failed(r) ELSE r
       IN hth' = [hth EXCEPT ![t] =
            IF h = 0 THEN FindFrom(q, r.i + 1)
            ELSE [q EXCEPT !.pc = "id", !.key = [NoObject EXCEPT !.repo = r.i, !.priv = h]]]
  /\ UNCHANGED <<hobjs, hcache>>

\* hsm_get_id_for_object, which fails when the object is gone by now.
ReadId(t, r, fault) ==
  /\ r.pc = "id"
  /\ hth' = [hth EXCEPT ![t] =
       IF Usable(t, r.i, r.key.priv, fault) THEN [r EXCEPT !.pc = "pub"]
       ELSE FindFrom(Failed(r), r.i + 1)]
  /\ UNCHANGED <<hobjs, hcache>>

\* The search for the public key; a key without one is a key as well.
FindPublic(t, r, fault) ==
  /\ r.pc = "pub"
  /\ \E h \in IF Fails(t, r.i, fault) THEN {0}
              ELSE hsm_find_object_handle_for_id(r.i, r.id, "pub") :
       hth' = [hth EXCEPT ![t] =
         AfterFind(IF Fails(t, r.i, fault) THEN Failed(r) ELSE r,
                   [r.key EXCEPT !.pub = h])]
  /\ UNCHANGED <<hobjs, hcache>>

\* What the signer does with a key it has looked up.
UseKey(r, key) == [r EXCEPT !.key = key,
                            !.pc = IF r.job = "sign" THEN "sign" ELSE "alg"]

\* keycache_lookup, in two parts: the cache is not locked while the tokens
\* are searched.
SearchCache(t, r) ==
  /\ r.pc = "search"
  /\ hth' = [hth EXCEPT ![t] = IF r.id \in DOMAIN hcache THEN UseKey(r, hcache[r.id])
                               ELSE FindFrom(r, 1)]
  /\ UNCHANGED <<hobjs, hcache>>

\* The tree takes no second node for a locator: who comes second has no key.
InsertKey(t, r) ==
  /\ r.pc = "insert"
  /\ IF r.id \in DOMAIN hcache
     THEN hth' = [hth EXCEPT ![t] = GivenUp(r)] /\ UNCHANGED hcache
     ELSE /\ hcache' = [id \in DOMAIN hcache \cup {r.id} |->
                          IF id = r.id THEN r.key ELSE hcache[id]]
          /\ hth' = [hth EXCEPT ![t] = UseKey(r, r.key)]
  /\ UNCHANGED hobjs

---------------------------------------------------------------------------
(* What is read from a key. *)

\* hsm_get_key_algorithm: without an answer the key is taken for an RSA key.
hsm_get_key_algorithm(t, key, fault) ==
  IF Usable(t, key.repo, key.priv, fault) THEN hobjs[key.priv].kind ELSE "RSA"

ReadAlgorithm(t, r, fault) ==
  /\ r.pc = "alg"
  /\ hth' = [hth EXCEPT ![t] =
          [IF Usable(t, r.key.repo, r.key.priv, fault) THEN r ELSE Failed(r) EXCEPT
             !.alg = hsm_get_key_algorithm(t, r.key, fault),
             !.pc = IF r.job \in {"list", "purge"} THEN "size" ELSE "data"]]
  /\ UNCHANGED <<hobjs, hcache>>

\* The object that hsm_get_key_size_rsa and hsm_get_key_rdata_rsa read.
hsm_get_key_rdata_rsa(key) == IF key.pub # 0 THEN key.pub ELSE key.priv

hsm_get_key_size_rsa(key) == IF key.pub # 0 THEN key.pub ELSE key.priv

hsm_get_key_size_dsa(key) == key.priv

hsm_get_key_rdata_dsa(key) == key.pub

hsm_get_key_rdata_gost(key) == key.pub

hsm_get_key_ecdsa_value(key) == key.pub

hsm_get_key_eddsa_value(key) == key.pub

hsm_get_key_rdata_ecdsa(key) == hsm_get_key_ecdsa_value(key)

hsm_get_key_size_ecdsa(key) == hsm_get_key_ecdsa_value(key)

hsm_get_key_rdata_eddsa(key) == hsm_get_key_eddsa_value(key)

hsm_get_key_size_eddsa(key) == hsm_get_key_eddsa_value(key)

\* hsm_get_key_rdata: the object the DNSKEY is made of, for the algorithm that
\* was read; an algorithm libhsm does not know is not looked at.
hsm_get_key_rdata(alg, key) ==
  CASE alg = "RSA" -> hsm_get_key_rdata_rsa(key)
    [] alg = "DSA" -> hsm_get_key_rdata_dsa(key)
    [] alg = "GOST" -> hsm_get_key_rdata_gost(key)
    [] alg = "ECDSA" -> hsm_get_key_rdata_ecdsa(key)
    [] alg = "EDDSA" -> hsm_get_key_rdata_eddsa(key)

hsm_get_key_size(alg, key) ==
  CASE alg = "RSA" -> hsm_get_key_size_rsa(key)
    [] alg = "DSA" -> hsm_get_key_size_dsa(key)
    [] alg = "ECDSA" -> hsm_get_key_size_ecdsa(key)
    [] alg = "EDDSA" -> hsm_get_key_size_eddsa(key)

\* The algorithms that libhsm has a mechanism for.
KnownAlgorithms == {"RSA", "DSA", "GOST", "ECDSA", "EDDSA"}

\* An object has the attributes of its own algorithm only.
Readable(t, repo, h, alg, fault) ==
  Usable(t, repo, h, fault) /\ hobjs[h].kind = alg

\* What follows the DNSKEY, got or not.  lhsm_get_key starts once more when
\* it has no DNSKEY and there is no error.
AfterDnskey(r, got) ==
  CASE r.job = "test" -> [r EXCEPT !.pc = "sign"]
    [] r.job # "test" /\ got -> Done(r, "ok")
    [] r.job = "dnskey" /\ ~got -> Done(r, "fail")
    [] r.job = "getkey" /\ ~got ->
         IF r.err THEN GivenUp(r)
         ELSE IF ~r.retry THEN [r EXCEPT !.retry = TRUE, !.pc = "search"]
         ELSE Done(r, "fail")

\* hsm_get_dnskey.
ReadDnskey(t, r, fault) ==
  /\ r.pc = "data"
  /\ hth' = [hth EXCEPT ![t] =
       IF r.alg \notin KnownAlgorithms THEN AfterDnskey(r, FALSE)
       ELSE LET got == Readable(t, r.key.repo, hsm_get_key_rdata(r.alg, r.key), r.alg, fault)
            IN AfterDnskey(IF got THEN r ELSE Failed(r), got)]
  /\ UNCHANGED <<hobjs, hcache>>

\* hsm_digest_through_hsm: the token of the key also makes the digest.
hsm_digest_through_hsm(t, key, fault) == ~Fails(t, key.repo, fault)

\* hsm_sign_buffer: the mechanism is that of the algorithm asked for, which a
\* key of another kind does not take.
hsm_sign_buffer(t, key, alg, fault) ==
  /\ alg \in KnownAlgorithms /\ hsm_digest_through_hsm(t, key, fault)
  /\ Readable(t, key.repo, key.priv, alg, fault)

\* hsm_sign_rrset, for lhsm_sign and for the test.
SignRrset(t, r, fault) ==
  /\ r.pc = "sign"
  /\ LET got == hsm_sign_buffer(t, r.key, r.kind, fault)
     IN hth' = [hth EXCEPT ![t] =
          CASE r.job = "test" -> [IF got THEN r ELSE Failed(r) EXCEPT !.pc = "destroy"]
            [] r.job = "sign" /\ got -> Done(r, "ok")
            [] r.job = "sign" /\ ~got -> GivenUp(Failed(r))]
  /\ UNCHANGED <<hobjs, hcache>>

---------------------------------------------------------------------------
(* Keys that are made and removed. *)

\* The ids that threads have drawn for keys they are about to make.
Drawn == {hth[t].id : t \in {u \in HsmThreads : hth[u].job \in {"generate", "test"}
                                                 /\ hth[u].pc # "done"}}

\* hsm_random_buffer: 16 random bytes have not been drawn before; when no token
\* has random bytes the buffer is left as it was, and may hold the id of a key
\* that exists, though not one that another thread has just drawn.
hsm_random_buffer(fault) ==
  IF fault THEN HsmIds ELSE HsmIds \ {hobjs[h].id : h \in Handles}

\* generate_unique_id; the search that follows tells whether it is unique.
DrawId(t, r, fault) ==
  /\ r.pc = "draw"
  /\ \E id \in hsm_random_buffer(fault) :
       /\ id \notin Drawn \ {r.id}
       /\ hth' = [hth EXCEPT ![t] = FindFrom([r EXCEPT !.id = id], 1)]
  /\ UNCHANGED <<hobjs, hcache>>

\* The objects a call of hsm_generate_..._key leaves in repository i.  Only of
\* an RSA key the public key can be dispensed with.
hsm_generate_rsa_key(i) == IF HsmRepos[i].pubkey THEN {"priv", "pub"} ELSE {"priv"}

hsm_generate_dsa_key(i) == {"priv", "pub"}

hsm_generate_gost_key(i) == {"priv", "pub"}

hsm_generate_ecdsa_key(i) == {"priv", "pub"}

hsm_generate_eddsa_key(i) == {"priv", "pub"}

Generated(kind, i) ==
  CASE kind = "RSA" -> hsm_generate_rsa_key(i)
    [] kind = "DSA" -> hsm_generate_dsa_key(i)
    [] kind = "GOST" -> hsm_generate_gost_key(i)
    [] kind = "ECDSA" -> hsm_generate_ecdsa_key(i)
    [] kind = "EDDSA" -> hsm_generate_eddsa_key(i)

MakeKey(t, r, fault) ==
  LET object(class) == [token |-> HsmRepos[r.repo].token, id |-> r.id,
                        class |-> class, kind |-> r.kind, live |-> TRUE]
      both == "pub" \in Generated(r.kind, r.repo)
      h == Len(hobjs) + 1
  IN /\ r.pc = "make"
     /\ IF Fails(t, r.repo, fault) \/ HsmRepos[r.repo].token \notin hlogin
        THEN hth' = [hth EXCEPT ![t] = Done(Failed(r), "fail")] /\ UNCHANGED hobjs
        ELSE /\ hobjs' = hobjs \o (IF both THEN <<object("priv"), object("pub")>>
                                   ELSE <<object("priv")>>)
             /\ hth' = [hth EXCEPT ![t] = [r EXCEPT !.pc = "infoid",
                  !.key = [repo |-> r.repo, priv |-> h, pub |-> IF both THEN h + 1 ELSE 0]]]
     /\ UNCHANGED hcache

\* The next key of ods-hsmutil list and purge.
NextKey(r) ==
  IF r.keys = {} THEN Done(r, "ok")
  ELSE LET k == CHOOSE x \in r.keys : TRUE
       IN [r EXCEPT !.key = k, !.keys = @ \ {k}, !.pc = "infoid"]

\* hsm_test, the test of ods-hsmutil: is a key of this kind used and deleted
\* after it was made?  A key on a NIST curve is not.
hsm_test_curves(kind) == kind = "EDDSA"

hsm_test(kind) == kind \in {"RSA", "DSA", "GOST"} \/ hsm_test_curves(kind)

\* hsm_get_key_id.
ReadKeyId(t, r, fault) ==
  /\ r.pc = "infoid"
  /\ LET bad == ~Usable(t, r.key.repo, r.key.priv, fault)
         q == IF bad THEN Failed(r) ELSE r
     IN hth' = [hth EXCEPT ![t] =
          CASE r.job = "generate" \/ (r.job = "test" /\ ~hsm_test(r.kind)) ->
                 Done(q, IF bad THEN "fail" ELSE "ok")
            [] r.job \in {"list", "purge"} \/ (r.job = "test" /\ hsm_test(r.kind)) ->
                 [q EXCEPT !.pc = "alg"]]
  /\ UNCHANGED <<hobjs, hcache>>

\* The rest of hsm_get_key_info.  GOST keys have a fixed size.
ReadSize(t, r, fault) ==
  /\ r.pc = "size"
  /\ LET asks == r.alg \in KnownAlgorithms \ {"GOST"}
         got == asks /\ Readable(t, r.key.repo, hsm_get_key_size(r.alg, r.key), r.alg, fault)
         q == [IF asks /\ ~got THEN Failed(r) ELSE r EXCEPT
                 !.info = @ \cup {[priv |-> r.key.priv, alg |-> r.alg, sized |-> got]}]
     IN hth' = [hth EXCEPT ![t] = IF r.job = "purge" THEN [q EXCEPT !.pc = "destroy"]
                                  ELSE NextKey(q)]
  /\ UNCHANGED <<hobjs, hcache>>

AfterRemove(r, ok) ==
  IF r.job = "purge" THEN NextKey(r) ELSE Done(r, IF ok THEN "ok" ELSE "fail")

\* hsm_remove_key: the private key first, then the public key.
DestroyPrivate(t, r, fault) ==
  /\ r.pc = "destroy"
  /\ IF Usable(t, r.key.repo, r.key.priv, fault)
     THEN /\ hobjs' = [hobjs EXCEPT ![r.key.priv].live = FALSE]
          /\ hth' = [hth EXCEPT ![t] =
               LET q == [r EXCEPT !.key.priv = 0]
               IN IF r.key.pub = 0 THEN AfterRemove(q, TRUE)
                  ELSE [q EXCEPT !.pc = "destroypub"]]
     ELSE hth' = [hth EXCEPT ![t] = AfterRemove(Failed(r), FALSE)] /\ UNCHANGED hobjs
  /\ UNCHANGED hcache

DestroyPublic(t, r, fault) ==
  /\ r.pc = "destroypub"
  /\ IF Usable(t, r.key.repo, r.key.pub, fault)
     THEN /\ hobjs' = [hobjs EXCEPT ![r.key.pub].live = FALSE]
          /\ hth' = [hth EXCEPT ![t] = AfterRemove([r EXCEPT !.key.pub = 0], TRUE)]
     ELSE hth' = [hth EXCEPT ![t] = AfterRemove(Failed(r), FALSE)] /\ UNCHANGED hobjs
  /\ UNCHANGED hcache

---------------------------------------------------------------------------
(* Lists of keys. *)

\* The sessions of a list: that of its repository, or all of them.
NextList(r) ==
  IF r.repo = 0 /\ r.i < r.n THEN [r EXCEPT !.i = @ + 1, !.pc = "list"] ELSE NextKey(r)

\* hsm_list_keys_session_internal: first the handles of all private keys ...
ListHandles(t, r, fault) ==
  /\ r.pc = "list"
  /\ LET i == IF r.repo = 0 THEN r.i ELSE r.repo
         seen == IF HsmRepos[i].token \in hlogin THEN Objects(i, "priv") ELSE {}
     IN hth' = [hth EXCEPT ![t] =
          IF Fails(t, i, fault) THEN NextList(Failed(r))
          ELSE IF seen = {} THEN NextList(r)
          ELSE [r EXCEPT !.todo = seen, !.pc = "listkey"]]
  /\ UNCHANGED <<hobjs, hcache>>

\* Mutant: a key that cannot be read is passed over.
ListKey_skips(t, r, fault) ==
  /\ r.pc = "listkey"
  /\ \E h \in {CHOOSE x \in r.todo : TRUE} :
       LET i == IF r.repo = 0 THEN r.i ELSE r.repo
           q == [r EXCEPT !.todo = @ \ {h}, !.keys = IF Exists(h) /\ ~Fails(t, i, fault)
                   THEN @ \cup {[repo |-> i, priv |-> h, pub |-> 0]} ELSE @]
       IN hth' = [hth EXCEPT ![t] = IF q.todo = {} THEN NextList(q) ELSE q]
  /\ UNCHANGED <<hobjs, hcache>>

\* ... then the id and the public key of each.  If an id cannot be read the
\* keys of this session are all given up; a public key may be missing.
ListKey(t, r, fault) ==
  /\ r.pc = "listkey"
  /\ LET i == IF r.repo = 0 THEN r.i ELSE r.repo
         h == CHOOSE x \in r.todo : TRUE
         listed(q, p) == [q EXCEPT !.todo = @ \ {h},
                                   !.keys = @ \cup {[repo |-> i, priv |-> h, pub |-> p]}]
         after(q) == hth' = [hth EXCEPT ![t] = IF q.todo = {} THEN NextList(q) ELSE q]
     IN \/ /\ ~Usable(t, i, h, fault)
           /\ after([Failed(r) EXCEPT !.todo = {}, !.keys = {k \in @ : k.repo # i}])
        \/ /\ Usable(t, i, h, FALSE) /\ fault
           /\ after(listed(Failed(r), 0))
        \/ /\ Usable(t, i, h, fault)
           /\ \E p \in hsm_find_object_handle_for_id(i, hobjs[h].id, "pub") :
                after(listed(r, p))
  /\ UNCHANGED <<hobjs, hcache>>

---------------------------------------------------------------------------
(* The jobs of the threads. *)

hsm_token_attached(r) == 1 .. r.n

\* A thread with a context takes up a job: the signer looks a key up or signs
\* with it, the enforcer makes keys and asks for the DNSKEY of one, and
\* ods-hsmutil has its commands.  repo is a repository that is attached.
StartJob ==
  \E t \in HsmThreads, job \in hscen.jobs :
    LET r == [NoThread EXCEPT !.n = hth[t].n, !.err = hth[t].err, !.job = job, !.left = hleft.faults,
                !.at = {h \in Handles : hobjs[h].live /\ hobjs[h].class = "priv"}]
    IN /\ hth[t].n >= 0 /\ hth[t].pc = "idle" /\ hleft.jobs > 0
       /\ \/ /\ job \in {"getkey", "sign"}
             /\ \E id \in hscen.ids, kind \in hscen.kinds :
                  hth' = [hth EXCEPT ![t] = [r EXCEPT !.id = id, !.kind = kind, !.pc = "search",
                                                      !.fresh = id \notin DOMAIN hcache]]
          \/ /\ job \in {"remove", "dnskey"}
             /\ \E id \in hscen.ids :
                  hth' = [hth EXCEPT ![t] = FindFrom([r EXCEPT !.id = id], 1)]
          \/ /\ job \in {"generate", "test"}
             /\ \E kind \in hscen.kinds, repo \in hsm_token_attached(r) :
                  hth' = [hth EXCEPT ![t] = [r EXCEPT !.kind = kind, !.repo = repo,
                                                      !.pc = "draw"]]
          \/ /\ job = "list" /\ r.n > 0
             /\ \E repo \in 0 .. r.n :
                  hth' = [hth EXCEPT ![t] = [r EXCEPT !.repo = repo, !.i = 1, !.pc = "list"]]
          \/ /\ job = "purge"
             /\ \E repo \in hsm_token_attached(r) :
                  hth' = [hth EXCEPT ![t] = [r EXCEPT !.repo = repo, !.pc = "list"]]
       /\ hleft' = [hleft EXCEPT !.jobs = @ - 1]
       /\ UNCHANGED <<hscen, hlibs, hsess, hlogin, hgctx, hcache, hobjs>>

HsmStep(t, fault) ==
  LET r == hth[t]
  IN \/ FindPrivate(t, r, fault) \/ ReadId(t, r, fault) \/ FindPublic(t, r, fault)
     \/ ReadAlgorithm(t, r, fault) \/ ReadDnskey(t, r, fault) \/ SignRrset(t, r, fault)
     \/ DrawId(t, r, fault) \/ MakeKey(t, r, fault) \/ ReadKeyId(t, r, fault)
     \/ ReadSize(t, r, fault) \/ DestroyPrivate(t, r, fault) \/ DestroyPublic(t, r, fault)
     \/ ListHandles(t, r, fault) \/ ListKey(t, r, fault)
     \/ ~fault /\ SearchCache(t, r)
     \/ ~fault /\ InsertKey(t, r)

ThreadStep ==
  \E t \in HsmThreads, fault \in BOOLEAN :
    /\ fault => hleft.faults > 0 /\ "call" \in hscen.fails
    /\ HsmStep(t, fault)
    /\ hleft' = [hleft EXCEPT !.faults = IF fault THEN @ - 1 ELSE @]
    /\ UNCHANGED <<hscen, hlibs, hsess, hlogin, hgctx>>

\* The job is over; the result is used and the context is kept.
EndJob ==
  \E t \in HsmThreads :
    /\ hth[t].pc = "done"
    /\ hth' = [hth EXCEPT ![t] = [NoThread EXCEPT !.n = hth[t].n, !.err = hth[t].err]]
    /\ UNCHANGED <<hscen, hlibs, hsess, hlogin, hgctx, hcache, hobjs, hleft>>

HsmNext ==
  \/ hsm_open2 \/ hsm_close \/ hsm_create_context \/ hsm_destroy_context
  \/ hsm_check_context \/ TokenReset \/ StartJob \/ ThreadStep \/ EndJob

HsmSpec == HsmInit /\ [][HsmNext]_hsmvars

---------------------------------------------------------------------------
(* Properties. *)

\* Every context can be used: its sessions are open, the library behind them
\* is loaded once for every session of the global context and initialised,
\* and the token is logged in, unless a token was reset; and when the global
\* context is closed no token is left logged in, also after an hsm_open2 that
\* failed half way and with several repositories on one library, where the
\* first hsm_session_close finalises it for all (hsm_open2, hsm_close).
ContextsUsable ==
  /\ ~hgctx.open => hlogin = {}
  /\ \A i \in 1 .. hgctx.n :
       /\ hlibs[HsmRepos[i].lib].init
       /\ hlibs[HsmRepos[i].lib].refs >=
            Cardinality({j \in 1 .. hgctx.n : HsmRepos[j].lib = HsmRepos[i].lib})
       /\ (<<"global", i>> \in hsess /\ HsmRepos[i].token \in hlogin) \/ hleft.reset
  /\ \A t \in HsmThreads, i \in DOMAIN HsmRepos :
       i <= hth[t].n => i <= hgctx.n /\ (<<t, i>> \in hsess \/ hleft.reset)

\* A key of the cache is the key of its locator, in the token of the
\* repository it names (keycache_lookup).
CacheNamesItsKey ==
  \A id \in DOMAIN hcache :
    LET key == hcache[id]
        is(h, class) == hobjs[h].id = id /\ hobjs[h].class = class
                        /\ hobjs[h].token = HsmRepos[key.repo].token
    IN is(key.priv, "priv") /\ (key.pub # 0 => is(key.pub, "pub"))

\* The private key h can be found by the context of the thread.
Reachable(r, h) == \E i \in 1 .. r.n : HsmRepos[i].token = hobjs[h].token
                                         /\ HsmRepos[i].token \in hlogin

Whole(h) ==
  Exists(h) /\ (hobjs[h].kind = "RSA"
              \/ \E p \in Handles : Exists(p) /\ hobjs[p].class = "pub" /\ hobjs[p].id = hobjs[h].id)

\* A key that was there all the time, of a kind libhsm knows, is found when no
\* call has failed, but for two cases of the cache: another thread put the key
\* in between this thread's search and its insert, or the key that was put in
\* had lost its public key to a failed search (keycache_lookup, lhsm_get_key,
\* lhsm_sign).
LookupFailsOnlyOverCache ==
  \A t \in HsmThreads :
    LET r == hth[t]
    IN /\ r.pc = "done" /\ r.res = "fail" /\ r.job \in {"getkey", "sign", "dnskey"}
       /\ r.left = hleft.faults
       /\ \E h \in r.at : /\ hobjs[h].id = r.id /\ Reachable(r, h) /\ Whole(h)
                          /\ hobjs[h].kind \in KnownAlgorithms
                          /\ r.job = "sign" => hobjs[h].kind = r.kind
       => /\ r.job # "dnskey" /\ r.id \in DOMAIN hcache
          /\ r.fresh \/ hcache[r.id].pub = 0

\* What is handed out is of the key that was asked for and of its kind: a
\* DNSKEY also when the algorithm could not be read and RSA was assumed, a
\* signature only when the configuration names the right algorithm
\* (hsm_get_key_algorithm, hsm_get_key_rdata, hsm_sign_buffer).
RightKeyHandedOut ==
  \A t \in HsmThreads :
    LET r == hth[t]
    IN r.pc = "done" /\ r.res = "ok" /\ r.job \in {"getkey", "dnskey", "sign"} =>
         /\ hobjs[r.key.priv].id = r.id
         /\ hobjs[r.key.priv].kind = IF r.job = "sign" THEN r.kind ELSE r.alg

\* Two keys have one id only when both the random numbers and a search have
\* failed (generate_unique_id).
IdsUnique ==
  \A g, h \in Handles :
    /\ g < h /\ Exists(g) /\ Exists(h) /\ hobjs[g].id = hobjs[h].id
    /\ hobjs[g].class = "priv" /\ hobjs[h].class = "priv"
    => hscen.faults - hleft.faults >= 2

\* A list without an error has every key that was there all the time, with
\* the right algorithm, and a purge without an error leaves none of them
\* (hsm_list_keys_session_internal, cmd_list, cmd_purge).
ListsComplete ==
  \A t \in HsmThreads :
    LET r == hth[t]
        mine(h) == /\ Exists(h) /\ Reachable(r, h)
                   /\ r.repo # 0 => hobjs[h].token = HsmRepos[r.repo].token
    IN r.pc = "done" /\ r.job \in {"list", "purge"} /\ ~r.err =>
         /\ \A h \in r.at : mine(h) => r.job = "list" /\ \E x \in r.info : x.priv = h
         /\ \A x \in r.info : x.alg = hobjs[x.priv].kind

\* As long as no call fails the public key goes with the private key, however
\* many threads remove the same key (hsm_remove_key), and the test of
\* ods-hsmutil leaves no key behind but an ECDSA key (hsm_test).
NothingLeftBehind ==
  /\ hleft.faults = hscen.faults =>
       \A p \in Handles : Exists(p) /\ hobjs[p].class = "pub" =>
         \/ \E h \in Handles : Exists(h) /\ hobjs[h].class = "priv" /\ hobjs[h].id = hobjs[p].id
         \/ \E t \in HsmThreads : hth[t].pc = "destroypub" /\ hth[t].key.pub = p
  /\ \A t \in HsmThreads :
       hth[t].pc = "done" /\ hth[t].job = "test" /\ hth[t].left = hleft.faults =>
         (Exists(hth[t].key.priv) <=> hth[t].kind = "ECDSA")

\* The keys in the tokens are found, used, listed and removed as they should.
HsmSound ==
  /\ ContextsUsable /\ CacheNamesItsKey /\ LookupFailsOnlyOverCache
  /\ RightKeyHandedOut /\ IdsUnique /\ ListsComplete /\ NothingLeftBehind

=============================================================================
