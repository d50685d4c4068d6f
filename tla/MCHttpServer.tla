---------------------------- MODULE MCHttpServer ----------------------------
EXTENDS HttpServer

msg(method, query, version, fields, body) ==
  [method |-> method, path |-> "/a", query |-> query, version |-> version,
   fields |-> fields, body |-> body]

MCMessages ==
  { msg("GET", <<"x">>, "HTTP/1.1", <<>>, <<>>),
    msg("GET", <<>>, "HTTP/1.1", << <<"Connection", "close">> >>, <<>>),
    msg("HEAD", <<>>, "HTTP/1.0", << <<"Connection", "x">>,
                                   <<"Connection", "Keep-Alive">> >>, <<>>),
    msg("POST", <<>>, "HTTP/1.0", <<>>, <<"GET">>),
    msg("GET", <<>>, "x", <<>>, <<>>) }
=============================================================================
