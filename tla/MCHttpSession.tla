---------------------------- MODULE MCHttpSession ----------------------------
(* An instance of HttpSession for TLC. *)
EXTENDS HttpSession

Path == <<":path">>
Host == <<":auth">>
Method == <<":method">>

CanonicalNames == Path :> Path @@ Host :> Host @@ Method :> Method @@ <<"host">> :> Host

LowerCases == [p \in {"X", "y", "host", "Host"} |-> IF p = "X" THEN "x" ELSE IF p = "Host" THEN "host" ELSE p]

Header(name, value) == [name |-> name, value |-> value]

Request(url, method, headers, body, chunked, trailers, http10) ==
    [url |-> url, method |-> method, headers |-> headers, body |-> body, chunked |-> chunked,
     trailers |-> trailers, http10 |-> http10]

ResponseBody == <<"p">>

\* The shortest request there is; one in HTTP/1.0 for an absolute url; and one with names
\* that are the same to HTTP, a body and trailers.
Short == Request(<<"/">>, <<"GET">>, <<>>, <<>>, FALSE, <<>>, FALSE)
Old   == Request(<<"http:", "y">>, <<"GET">>, <<Header(<<"host">>, <<>>)>>, <<>>, FALSE, <<>>, TRUE)
Long  == Request(<<"*">>, <<"PUT">>,
                 <<Header(<<"X", "y">>, <<"a", "b">>), Header(<<"Host">>, <<"a">>), Header(<<"host">>, <<"b">>)>>,
                 <<"d">>, TRUE, <<Header(<<"X">>, <<"a">>)>>, FALSE)

SomeConversations == {<<Long>>, <<Short, Short>>, <<Old, Short>>}
=============================================================================
