------------------------------- MODULE Bundle -------------------------------
(***************************************************************************)
(* The certificate material: how certwarden/client.go classifies and splits *)
(* an answer of the server, and when certutil.go takes a chain and a key    *)
(* for a usable pair.                                                       *)
(*                                                                          *)
(* A file or an answer is a sequence of blocks [kind, value].  Kinds are    *)
(* "certificate" and "key", whose value is None if it does not parse,       *)
(* "encrypted" (a key), "foreign" (a private key of any other type, which   *)
(* is not supported), "other" (any other PEM block), "broken" (a PEM block  *)
(* that does not decode) and "text" (no PEM at all).  A certificate has     *)
(* subject, issuer, by (the key that signed it), key, ca, maxPath (-1 for   *)
(* none), valid (at this time) and server (usable by a server).  A key is   *)
(* the name of its key pair.                                                *)
(***************************************************************************)
EXTENDS Integers, SequencesExt

CONSTANT None

Values(body, kind) == LET those(b) == b.kind = kind IN SelectSeq(body, those)
Certificates(body) == [i \in DOMAIN Values(body, "certificate") |-> Values(body, "certificate")[i].value]
Keys(body)         == [i \in DOMAIN Values(body, "key") |-> Values(body, "key")[i].value]
Kinds(body)        == {b.kind : b \in ToSet(body)}

\* The loop over pem.Decode: text is an error at the place where a block is
\* looked for; a broken block is skipped, with what follows it, up to the next
\* one that decodes, and is an error if there is none.
Clean(body) ==
    LET read(s, b) == CASE b.kind = "text"   -> IF s = "between" THEN "error" ELSE s
                        [] b.kind = "broken" -> IF s = "error" THEN s ELSE "skipping"
                        [] OTHER             -> IF s = "error" THEN s ELSE "between"
    IN FoldLeft(read, "between", body) = "between"

\* splitMaterial: certificates and one key, in any order, and nothing else.
Split(body) ==
    LET certs == Certificates(body)
        keys  == Keys(body)
    IN IF /\ Clean(body) /\ Kinds(body) \cap {"encrypted", "foreign", "other"} = {}
          /\ certs # <<>> /\ None \notin ToSet(certs)
          /\ Len(keys) = 1 /\ keys[1] # None
       THEN [certs |-> certs, key |-> keys[1]] ELSE None

----------------------------------------------------------------------------
(* certutil.go *)

SelfIssued(c) == c.subject = c.issuer

\* x509: CheckSignatureFrom.
Signed(child, issuer) == issuer.ca /\ child.by = issuer.key

\* Mutation: the constraint is taken to count the leaf as well.
PresentedStrictly(chain) ==
    \A i \in 1..(Len(chain) - 1) :
        /\ chain[i].issuer = chain[i + 1].subject
        /\ Signed(chain[i], chain[i + 1])
        /\ \/ chain[i + 1].maxPath < 0
           \/ Cardinality({j \in 1..i : ~SelfIssued(chain[j])}) <= chain[i + 1].maxPath

\* validatePresentedChain: every certificate is signed by the next one, whose path
\* length allows for the CA certificates below it that are not self-issued.
Presented(chain) ==
    \A i \in 1..(Len(chain) - 1) :
        /\ chain[i].issuer = chain[i + 1].subject
        /\ Signed(chain[i], chain[i + 1])
        /\ \/ chain[i + 1].maxPath < 0
           \/ Cardinality({j \in 2..i : ~SelfIssued(chain[j])}) <= chain[i + 1].maxPath

\* ValidatePEMPair, once the chain and the key are read.
Pair(certs, key) ==
    /\ certs[1].key = key
    /\ \A i \in DOMAIN certs : certs[i].valid
    /\ ~certs[1].ca /\ certs[1].server
    /\ Presented(certs)

\* ValidatePEMPair of an answer that was split.
AnswerValid(material) == Pair(material.certs, material.key)

\* LoadAndValidate: the certificate file holds certificates only, of the key file
\* the first private key counts (tls.X509KeyPair), whatever its type, and what is
\* no private key does not matter.
FilesValid(certFile, keyFile) ==
    LET certs == Certificates(certFile)
        private(b) == b.kind \in {"key", "foreign"}
        first == Head(SelectSeq(keyFile, private))
    IN /\ "encrypted" \notin Kinds(keyFile)
       /\ Clean(certFile) /\ Kinds(certFile) \subseteq {"certificate", "broken", "text"}
       /\ certs # <<>> /\ None \notin ToSet(certs)
       /\ \E b \in ToSet(keyFile) : private(b)
       /\ first.kind = "key" /\ first.value # None
       /\ Pair(certs, first.value)

----------------------------------------------------------------------------
(* Fetch: the answer of the server *)

\* An answer is [got, detail]: "error" (no response, detail is the cause), "status"
\* (not 2xx), "cut" (reading the body fails), "large" (over the limit), "body".

\* transportErrorKind
TransportKind(cause) ==
    IF cause \in {"deadline", "net timeout"} THEN "timeout"
    ELSE IF cause \in {"unknown authority", "host name", "invalid certificate", "no roots",
                       "not tls", "tls alert"} THEN "tls"
    ELSE "network"

\* statusErrorKind
StatusKind(status) ==
    CASE status \in {401, 403} -> "authentication"
      [] status = 404          -> "not_found"
      [] status >= 500         -> "server"
      [] OTHER                 -> "invalid_response"

\* The kind of the FetchError, "none" if material is returned.
FetchKind(a) ==
    CASE a.got \in {"error", "cut"}  -> TransportKind(a.detail)
      [] a.got = "status"            -> StatusKind(a.detail)
      [] a.got = "large"             -> "response_too_large"
      [] a.got = "body"              -> IF Split(a.detail) = None THEN "invalid_response" ELSE "none"
=============================================================================
