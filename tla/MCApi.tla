------------------------------- MODULE MCApi -------------------------------
(* Constants of the run of Api. *)
EXTENDS Api

MCTokens  == STRING
SrcRoots  == <<<<"src">>, <<"cert_warden_plugin">>>>
DestRoots == <<<<"opt">>, <<"certs">>>>
Servers   == {<<"s1">>, <<"s2">>}

\* Directory trees: what every path of up to three names is, given the directories
\* and where the links lead (None: nowhere), through links below links too.
Parts == {"src", "c", "certs", "alias", "opt", "out", "gone", "link", "etc", "x"}
Tree(dirs, links) ==
    LET found[p \in BoundedSeq(Parts, 3)] ==
            IF p = <<>> THEN [is |-> TRUE, at |-> p]
            ELSE LET parent == found[Front(p)]
                     q == Append(parent.at, Last(p))
                 IN IF ~parent.is \/ parent.at = None THEN [is |-> FALSE, at |-> None]
                    ELSE IF q \in DOMAIN links THEN [is |-> TRUE, at |-> links[q]]
                    ELSE [is |-> q \in dirs, at |-> q]
    IN [p \in {r \in DOMAIN found : found[r].is} |-> found[p].at]

Dirs  == {<<"src">>, <<"src", "c">>, <<"certs">>, <<"etc">>, <<"etc", "x">>}
Links == <<"link">> :> <<"certs">> @@ <<"certs", "out">> :> <<"etc">>
            @@ <<"certs", "gone">> :> None @@ <<"src", "out">> :> <<"etc", "x">>
Alias == <<"certs", "alias">>

\* alias is a link to certs, or a directory of its own; the root opt may lead nowhere.
Trees == {Tree(Dirs \cup {<<"opt">>}, Links @@ Alias :> <<"certs">>),
          Tree(Dirs \cup {<<"opt">>, Alias}, Links),
          Tree(Dirs, Links @@ Alias :> <<"certs">> @@ <<"opt">> :> None)}

File(n) ==
    [name |-> n, type |-> "local", certificate |-> <<"src", "c">>, privateKey |-> <<"src", "k">>,
     remote |-> None, dir |-> <<"certs">>, target |-> <<"t">>, watch |-> TRUE, poll |-> 0,
     fallback |-> FALSE]
Server(n, url) ==
    [File(n) EXCEPT !.type = "cert_warden", !.certificate = <<>>, !.privateKey = <<>>,
                    !.remote = [url |-> url, certificate |-> <<"n">>],
                    !.watch = FALSE, !.target = <<"u">>]

A == <<"a">>
B == <<"b">>
MCNames == {A, B, <<" ", "a", " ">>, <<"c">>}
Valids ==
    {File(A), [File(B) EXCEPT !.dir = <<"link">>, !.type = "", !.poll = 1],
     [File(A) EXCEPT !.name = <<" ", "a", " ">>, !.dir = <<"certs", "alias">>, !.fallback = TRUE],
     [File(B) EXCEPT !.dir = <<"certs", "new", "sub">>, !.fallback = TRUE, !.poll = 86400],
     [File(B) EXCEPT !.dir = <<" ", "certs">>, !.target = <<"v">>, !.fallback = TRUE],
     Server(A, <<"s1">>), Server(A, <<"s2", "/">>), Server(B, <<"s1">>),
     [Server(A, <<"s1">>) EXCEPT !.poll = 60, !.fallback = TRUE, !.dir = <<"link", "alias">>]}
Invalids ==
    {Server(A, <<"s1", " ">>), Server(A, <<>>), Server(A, <<"http">>),
     [Server(A, <<"s1">>) EXCEPT !.remote.certificate = <<"n", "\n", "n">>],
     [Server(A, <<"s1">>) EXCEPT !.remote = None], [Server(A, <<"s1">>) EXCEPT !.watch = TRUE],
     [Server(A, <<"s1">>) EXCEPT !.poll = 59], [Server(B, <<"s1">>) EXCEPT !.privateKey = <<"src", "k">>],
     [File(A) EXCEPT !.remote = [url |-> <<"s1">>, certificate |-> <<"n">>]],
     [File(A) EXCEPT !.certificate = <<"src", "out">>], [File(A) EXCEPT !.dir = <<"certs", "out", "x">>],
     [File(B) EXCEPT !.dir = <<"certs", "gone", "x">>], [File(B) EXCEPT !.dir = <<"certs", "..", "etc">>],
     [File(A) EXCEPT !.type = "other"], [File(<<"a", "*">>) EXCEPT !.target = <<"v">>],
     [File(A) EXCEPT !.target = <<>>], [File(B) EXCEPT !.poll = 86401], [File(B) EXCEPT !.poll = -1]}
Offers == Valids \cup Invalids

K1 == <<"k1">>
Inputs == {<<None, None>>, <<<<" ">>, <<>>>>, <<K1, <<"k2", "\n">>>>, <<<<"k3">>, K1>>, <<K1, None>>, <<K1, <<" ">>>>}

Level(c, level) == [certs |-> c, level |-> level]
PostsOf == {Level(<<>>, <<>>), Level(<<File(A)>>, <<"warn", " ">>), Level(<<File(A)>>, <<"loud">>),
            Level(<<Server(A, <<"s1">>), File(B)>>, <<"info">>),
            Level(<<Server(B, <<"s1">>), Server(A, <<"s1">>)>>, <<"debug">>),
            Level(<<File(A), [File(B) EXCEPT !.dir = <<"link">>]>>, <<>>)}
Found == {None, NoConfig, Level(<<[File(A) EXCEPT !.type = ""]>>, <<>>),
          Level(<<[Server(A, <<"s1">>) EXCEPT !.remote = None]>>, <<>>)}

----------------------------------------------------------------------------
(* Certificates and answers *)

Cert(subject, issuer, key, by) ==
    [subject |-> subject, issuer |-> issuer, key |-> key, by |-> by, ca |-> TRUE,
     maxPath |-> -1, valid |-> TRUE, server |-> TRUE]
Leaf  == [Cert("leaf", "i", "kl", "ki") EXCEPT !.ca = FALSE]
Inter == [Cert("i", "j", "ki", "kj") EXCEPT !.maxPath = 0]
Upper == [Cert("j", "r", "kj", "kr") EXCEPT !.maxPath = 1]
Renew == [Cert("j", "j", "kj", "kj") EXCEPT !.maxPath = 0]  \* self-issued
Root  == [Cert("r", "r", "kr", "kr") EXCEPT !.maxPath = 1]
Low   == [Root EXCEPT !.maxPath = 0]
Certs == {Leaf, [Leaf EXCEPT !.valid = FALSE], [Leaf EXCEPT !.server = FALSE], [Leaf EXCEPT !.ca = TRUE],
          Inter, [Inter EXCEPT !.ca = FALSE], [Inter EXCEPT !.by = "other"], Upper, Renew, Root, Low}

Block(kind, value) == [kind |-> kind, value |-> value]
Good    == Block("key", "kl")
Chained(seq) == [i \in DOMAIN seq |-> Block("certificate", seq[i])]
Odds    == {Good, Block("key", "kx"), Block("key", None), Block("certificate", None),
            Block("broken", None), Block("text", None), Block("encrypted", None),
            Block("foreign", None), Block("other", None)}

\* Chains of up to four certificates with their key, and everything that can be put
\* around a leaf.
Chains  == {Chained(c) : c \in BoundedSeq(Certs \ {[Leaf EXCEPT !.valid = FALSE]}, 4)}
Around  == BoundedSeq(Odds \cup {Block("certificate", Leaf)}, 4)
Bodies  == {Append(c, Good) : c \in Chains} \cup Around
Replies == {[got |-> "body", detail |-> b] : b \in Bodies}
              \cup {[got |-> "status", detail |-> s] : s \in {302, 400, 401, 403, 404, 500, 503}}
              \cup {[got |-> g, detail |-> c] : g \in {"error", "cut"},
                       c \in {"deadline", "unknown authority", "refused"}}
              \cup {[got |-> "large", detail |-> <<>>]}

Test(url, certificate, keys, reply) ==
    [what |-> "connection", url |-> url, certificate |-> certificate, keys |-> keys, reply |-> reply]
Fine == [got |-> "body", detail |-> <<Block("certificate", Leaf), Good>>]
ConnectionTests ==
    {Test(<<"s1", " ">>, <<"n">>, <<K1, K1>>, r) : r \in Replies}
       \cup {Test(u, n, k, Fine) : u \in {<<"s1">>, <<"http">>}, n \in {<<"n">>, <<" ">>},
                                  k \in {<<K1, K1>>, <<K1, <<" ">>>>}}

Pairs == {[what |-> "files", certFile |-> c, keyFile |-> k] :
             c \in {Chained(s) : s \in BoundedSeq({Leaf, [Leaf EXCEPT !.valid = FALSE], Inter}, 2)}
                      \cup BoundedSeq(Odds \cup {Block("certificate", Leaf)}, 2),
             k \in BoundedSeq(Odds \cup {Block("certificate", Leaf)}, 2)}
=============================================================================
