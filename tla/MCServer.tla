------------------------------ MODULE MCServer ------------------------------
(***************************************************************************)
(* The command lines of the runs: every combination of credentials, ports  *)
(* at the limits of u16, and the files a user may name.                    *)
(***************************************************************************)
EXTENDS Server

CertFiles == { <<None>>, <<Missing>>, <<>>, <<"cert">>, <<"cert", "malformed">>,
               <<"pkcs8", "cert">> }
KeyFiles  == { <<None>>, <<Missing>>, <<"other">>, <<"pkcs8">>, <<"rsa">>,
               <<"cert", "rsa", "pkcs8">>, <<"rsa", "malformed">>, <<"pkcs8", "malformed">> }
ProxyPorts == {0, 8080, 65535, 65536}

MCCommandLines ==
  [ no_creds : BOOLEAN, username : BOOLEAN, password : BOOLEAN,
    proxy_port : ProxyPorts, tls_certificate : CertFiles, tls_private_key : KeyFiles ]
=============================================================================
