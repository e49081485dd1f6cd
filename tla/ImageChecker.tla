----------------------------- MODULE ImageChecker -----------------------------
(***************************************************************************)
(* The check of the job's image before the task container starts           *)
(* (src/src/init.d/image_checker.py): a few requests to the registry, of   *)
(* which each one may also be answered by something unexpected or not at   *)
(* all.  Only a process that exits with 1 fails the job; any doubt has to  *)
(* let the job go on.                                                      *)
(***************************************************************************)

\* What the registry and the image are like, and how the job names them.
\*   name       the reference is one that the regular expressions take, or it
\*              has a digest or an upper-case tag, or is no image name at all
\*   default    the image is of the default registry
\*   exists, private, asks
\*              it exists; it needs credentials; the registry wants to be
\*              asked with a token or credentials even for public images
\*   scheme     of the Www-Authenticate header: basic, bearer, a bearer with a
\*              comma within a value (scope="repository:x:pull,push") or without
\*              a realm, something else, or no header
\*   access     the server of the tokens gives them as access_token, and not
\*              only as token, which the specification that line 39 cites allows
\*   auth       the credentials of the job: none, right or wrong
\*   uri        registryuri in them: that of the image's registry, of another
\*              one, or not given
\*   v2         the registry speaks version 2
\*   moved      what it answers with a redirect to another place (301, 307): a
\*              request for its root, for a manifest, both or neither
Names == {"taken", "digest", "upper", "bad"}
Schemes == {"basic", "bearer", "commas", "norealm", "other", "none"}
Jobs == [name : Names, default : BOOLEAN, exists : BOOLEAN, private : BOOLEAN,
         asks : BOOLEAN, scheme : Schemes, access : BOOLEAN,
         auth : {"none", "right", "wrong"}, uri : {"same", "other", "absent"},
         v2 : BOOLEAN, moved : SUBSET {"ping", "manifest"}]

CONSTANT Job   \* the jobs considered

ASSUME JobAssumption == Job \subseteq Jobs

VARIABLES
    job,      \* one of them
    headers,  \* whether _basic_auth_headers is set
    token,    \* whether _bearer_auth_headers is set, _registry_auth_type
    pc,       \* the next request
    odd,      \* a request was not answered as it should
    result    \* of the process: "found", "failed" (exit 1) or "ignored"

checkerVars == <<job, headers, token, pc, odd, result>>

CheckerTypeOK ==
    /\ job \in Jobs /\ headers \in BOOLEAN /\ token \in BOOLEAN /\ odd \in BOOLEAN
    /\ pc \in {"auth", "name", "ping", "login", "token", "manifest", "done"}
    /\ result \in {"none", "found", "failed", "ignored"}
    /\ pc = "done" <=> result # "none"
    /\ token => job.scheme = "bearer"

CheckerInit ==
    /\ job \in Job
    /\ headers = FALSE /\ token = FALSE /\ odd = FALSE
    /\ pc = "auth" /\ result = "none"

-----------------------------------------------------------------------------
(* The registry. *)

Right == job.auth = "right" /\ job.uri = "same"   \* the credentials are good for it

\* Whether a request for the manifest is let in, by how it is authorized.
LetIn(with) ==
    \/ ~ job.private /\ ~ job.asks
    \/ with = "basic" /\ job.scheme = "basic" /\ Right
    \/ with = "bearer" /\ (~ job.private \/ Right)

\* The answers to it: what a registry that works says, and 5xx or 429 or an
\* error of the connection, here "odd".  A registry that registryuri puts in
\* the place of the image's own one does not have the image.
Answers(with) ==
    CASE "manifest" \in job.moved -> {"301", "odd"}
      [] "manifest" \notin job.moved /\ headers /\ job.uri = "other" -> {"401", "404", "odd"}
      [] OTHER -> {IF ~ LetIn(with) THEN "401" ELSE IF job.exists THEN "200" ELSE "404", "odd"}

\* Whether there is a registry of version 2, by a request for its root; one that
\* wants to be asked with a token says so here already.
PingAnswers ==
    IF "ping" \in job.moved THEN {"301", "odd"}
    ELSE IF job.v2 THEN {"200", "401", "odd"} ELSE {"404", "odd"}

\* The answers of the server that gives tokens: anybody gets one, but nobody
\* who gives wrong credentials.
TokenAnswers == {IF headers /\ ~ Right THEN "401" ELSE "200", "odd"}

-----------------------------------------------------------------------------
(* The checker. *)

\* The exceptions ImageCheckError make the check fail (lines 229-242); all the
\* others are caught in main, and the check is ignored (282-283).
Go(to) == pc' = to /\ UNCHANGED result
Finish(res) == pc' = "done" /\ result' = res
Heard(code) == odd' = (odd \/ code = "odd")

\* resp.ok of a head request, which follows no redirect: any code below 400.
Ok(code) == code \in {"200", "301"}

\* Lines 111-142: credentials for another registry are left aside if the image
\* is of the default one.  Without a registryuri line 142 reads a variable that
\* was never assigned, in the constructor and outside of any try.
InitAuthInfo ==
    /\ pc = "auth"
    /\ IF job.auth = "none" \/ (job.default /\ job.uri = "other")
         THEN Go("name") /\ UNCHANGED headers
         ELSE /\ headers' = TRUE
              /\ IF job.uri = "absent" THEN Finish("failed") ELSE Go("name")
    /\ UNCHANGED <<job, token, odd>>

\* Lines 203-218, 227-233.
NormalizeName ==
    /\ pc = "name"
    /\ IF job.name = "taken" THEN Go("ping") ELSE Finish("failed")
    /\ UNCHANGED <<job, headers, token, odd>>

\* Lines 173-187: only a registry of version 2 is asked any further.
Ping ==
    /\ pc = "ping"
    /\ \E code \in PingAnswers :
         /\ Heard(code)
         /\ IF Ok(code) \/ code = "401" THEN Go("login") ELSE Finish("ignored")
    /\ UNCHANGED <<job, headers, token>>

\* A mutant of Login: any challenge but a basic one asks for a token.
LoginAnyScheme ==
    /\ pc = "login"
    /\ \E code \in Answers("no") :
         /\ Heard(code)
         /\ \/ Ok(code) /\ Go("manifest")
            \/ code = "401" /\ job.scheme = "none" /\ Finish("failed")
            \/ code = "401" /\ job.scheme \notin {"none", "basic"} /\ Go("token")
            \/ code = "401" /\ job.scheme = "basic" /\ Go("manifest")
            \/ code \in {"404", "odd"} /\ Finish("ignored")
    /\ UNCHANGED <<job, headers, token>>

\* Lines 188-201, 64-76, 151-156: a request without credentials tells how to
\* authorize the next one; with any other challenge than a bearer's with a
\* realm the basic headers are used, which may be empty.  The challenge is
\* split at its commas, so that one within a value is an IndexError (line 75).
Login ==
    /\ pc = "login"
    /\ \E code \in Answers("no") :
         /\ Heard(code)
         /\ \/ Ok(code) /\ Go("manifest")
            \/ code = "401" /\ job.scheme = "none" /\ Finish("failed")
            \/ code = "401" /\ job.scheme = "commas" /\ Finish("ignored")
            \/ code = "401" /\ job.scheme = "bearer" /\ Go("token")
            \/ code = "401" /\ job.scheme \in {"basic", "norealm", "other"} /\ Go("manifest")
            \/ code \in {"404", "odd"} /\ Finish("ignored")
    /\ UNCHANGED <<job, headers, token>>

\* Mutants of GetToken: a server that has no token to give fails the check; the
\* token is not used.
GetTokenOddly ==
    /\ pc = "token"
    /\ \E code \in TokenAnswers :
         /\ Heard(code)
         /\ IF code = "200" /\ job.access
              THEN Go("manifest") /\ token' = TRUE
              ELSE Finish("failed") /\ UNCHANGED token
    /\ UNCHANGED <<job, headers>>

GetTokenUnused ==
    /\ pc = "token"
    /\ \E code \in TokenAnswers :
         /\ Heard(code)
         /\ \/ code = "200" /\ job.access /\ Go("manifest")
            \/ code = "200" /\ ~ job.access /\ Finish("ignored")
            \/ code = "401" /\ Finish("failed")
            \/ code = "odd" /\ Finish("ignored")
    /\ UNCHANGED <<job, headers, token>>

\* Lines 157-171: a body that has the token under the other name only is a
\* KeyError (line 170).
GetToken ==
    /\ pc = "token"
    /\ \E code \in TokenAnswers :
         /\ Heard(code)
         /\ \/ code = "200" /\ job.access /\ Go("manifest") /\ token' = TRUE
            \/ code = "200" /\ ~ job.access /\ Finish("ignored") /\ UNCHANGED token
            \/ code = "401" /\ Finish("failed") /\ UNCHANGED token
            \/ code = "odd" /\ Finish("ignored") /\ UNCHANGED token
    /\ UNCHANGED <<job, headers>>

\* A mutant of Manifest: a registry that cannot tell has the image.
ManifestOptimist ==
    /\ pc = "manifest"
    /\ \E code \in Answers(IF token THEN "bearer" ELSE IF headers THEN "basic" ELSE "no") :
         /\ Heard(code)
         /\ Finish(IF code \in {"401", "404"} THEN "failed" ELSE "found")
    /\ UNCHANGED <<job, headers, token>>

\* Lines 244-258, 280-283.
Manifest ==
    /\ pc = "manifest"
    /\ \E code \in Answers(IF token THEN "bearer" ELSE IF headers THEN "basic" ELSE "no") :
         /\ Heard(code)
         /\ \/ Ok(code) /\ Finish("found")
            \/ code \in {"401", "404"} /\ Finish("failed")
            \/ code = "odd" /\ Finish("ignored")
    /\ UNCHANGED <<job, headers, token>>

CheckerNext == InitAuthInfo \/ NormalizeName \/ Ping \/ Login \/ GetToken \/ Manifest

CheckerSpec == CheckerInit /\ [][CheckerNext]_checkerVars

-----------------------------------------------------------------------------
\* Credentials for the image's registry are given.
Given == job.auth # "none" /\ ~ (job.default /\ job.uri = "other")

\* The user is not let in, although the image may be there.
Unauthorized ==
    \/ Given /\ ~ Right
    \/ ~ Right /\ (job.private \/ (job.asks /\ job.scheme = "basic"))

\* The jobs and registries that the checker was made for, and those whose
\* proper answers it cannot read.
Usual ==
    /\ job.name \in {"taken", "bad"}
    /\ job.scheme \in {"basic", "bearer", "commas"}
    /\ Given => job.uri = "same"

\* Proper answers that the checker stumbles over: a challenge with a comma within
\* a value, and a token under the other of its two names.
Misread ==
    /\ job.name = "taken"
    /\ \/ job.scheme = "commas"
       \/ job.scheme = "bearer" /\ ~ job.access /\ (Given => Right)

Sure == ~ job.exists \/ job.name = "bad" \/ Unauthorized

\* Whatever goes wrong on the way, the job fails only for an image that does
\* not exist or that the user has no access to (is_docker_image_accessible).
FailsOnlyIfSure == result = "failed" /\ Usual => Sure

\* An image is said to be found only if the task container can have it, with
\* one exception: a registry that redirects the request for the manifest is
\* taken to have whatever it is asked for (lines 189 and 248).
FoundIsThere ==
    result = "found" =>
        /\ job.name # "bad"
        /\ "manifest" \in job.moved \/ (job.exists /\ (job.private => Right))

\* If every answer was a proper one, a registry that asks for authorization and
\* does not redirect decides the matter, failed or found, and the check is given
\* up exactly for the answers it misreads (lines 64-76, 150-171, 188-201,
\* 244-258).
Decided ==
    /\ pc = "done" /\ ~ odd
    /\ Usual /\ job.v2 /\ (job.private \/ job.asks) /\ "manifest" \notin job.moved
    => result = (IF Misread THEN "ignored" ELSE IF Sure THEN "failed" ELSE "found")

-----------------------------------------------------------------------------
\* "We only failed the image checker when we make sure the image is not exist
\* or authentication failed." (image_checker.py:88-89).
OnlyIfSure == result = "failed" => Sure
=============================================================================
