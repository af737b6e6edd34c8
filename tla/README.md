# TLA+ models of the Efficiency crates

This directory holds TLA+ specifications of the Rust code under
`src/deconet/Efficiency/`, together with the TLC configurations that check them.
`PROJECT.json` records the following:

- which module models which source lines (`map`);
- the runs and what each one shows;
- a mutant per checked property;
- the findings;
- the hazards the code is exposed to.

## The system and how its parts interact

The repository is a collection of small Rust programs. Every file has its own
`main`, and no file calls another. So the parts interact only through what they
share with the outside world: a TCP port, a file, or a stream peer. Each part is
modelled as its own component module. The MC modules then check several
programs at once as a **disjoint union**:

- `Init` chooses the program that runs (`program`);
- only that program's variables change;
- a program that does not run is held in one of its initial states.

The state space is therefore the sum of the programs' state spaces, not their
product. Every property of a component is re-exported under a name of the MC
module, with a comment.

| Part (source) | Module | State ↔ code |
|---|---|---|
| `epic_auth/authentication.rs` | `AuthManager`, `TokenIssuer` | `users`/`tokens` are the two HashMaps; `returned`/`presented` record which caller got and showed which token. `TokenIssuer` is the abstract issuer of spec 4.2 (fresh token per issue); `ImplementsTokenIssuer` is the refinement check. |
| `authentication/logout.rs` | `Session` | `logged_in`, `user_id` per Session value; one action per login method, `logout`, `set_user_id`. |
| `authentication/login.rs` | `UserDirectory` | `user_map` of User records and the last login's result. |
| `register.rs`, `verify.rs`, `reset_password.rs` | `Account` | the User fields; one action per method. |
| `encryption/key_management.rs`, `encrypt_data.rs`, `decrypt_data.rs` | `KeyManagement`, `XorCipher`, `XorStream` | the key, its origin, the key file, the `stretch_key` loop as steps (`StretchKeyLoop`), the last encryption/decryption. `XorStream` is the `*_from_stream` loop: its `buffer` persists across iterations, reads may be short, and the peer may send, shut its write half, or reset. |
| `epic_auth/encryption.rs` | `AesCbc` over `BlockCipher` | the encryptions made and the last decryption. AES is a small invertible block cipher (2-byte blocks of 4 values) with CBC chaining, zero IV and PKCS#7 padding written out. |
| `encryption/secure_communication.rs` | `SecureMessage` | encryptions with their drawn IV; arrivals may lose the last byte; `from_slice` length panics. |
| `encryption/generate_key.rs` | `HexKey` | the last result; `{:02X}` formatting is modelled digit by digit. |
| `epic_auth/communication.rs` | `EchoExchange` | the server thread and the client as two processes; port 8080 free or held by a foreign process; partial reads and writes as chunks; connection resets, including the reset the server's drop sends when its read left bytes unread. |
| `utility/helper_functions.rs` | `Int32Helpers` | two's-complement at width `W`; the build (debug panics on overflow, release wraps) is chosen in `Init`. |
| `processing/analyze_data.rs`, `clean_data.rs`, `process_data.rs` | `Statistics` | the HashMap (keys → values or NaN). `median` is modelled by what it does: `sort_by(partial_cmp.unwrap)` panics on NaN, and `mid - 1` underflows on an empty map. `standard_deviation` is its exact square (`Variance`), NaN when the mean is. `process_data` maps one of `main`'s three closures over a copy of the map. The `mean`, `median` and `standard_deviation` of `process_data.rs` are the same code as those of `analyze_data.rs`, and are modelled once. |
| `processing/transform_data.rs` | `Pipeline` | the Vec of transformations; a value carries the closures applied to it. |
| `network/routing.rs` | `RoutingTable` | the HashMap of entries and the last lookups. |
| `epic_disco/configuration.rs`, `epic_disco/error_handling.rs` | `Settings` | `settings` is the HashMap; `settings.txt` is its complete `lines` plus the line being written (`tail`, cut at any piece: name, `=`, a prefix of the value). `save_to_file` truncates, then writes in any iteration order, and may fail part way. `RunMain` is error_handling.rs `main` reading the file at any moment, with `load_setting` as the first line that starts with `"port"`, `parse_setting`, `validate_configuration`, and `log_error` to `error.log`, which may itself fail. |
| `utility/configuration.rs` | `AppConfig` | `config` is the struct; `config.json` is its document and its length. `save_to_file` is `File::create` followed by one `write_all`, which may fail. `read_configuration` runs at any moment. |
| `epic_disco/logging.rs`, `utility/logging.rs` | `LogFile` | The six log functions of epic_disco and utility's `log_message` (level `utility`: the formatted line, then the newline; `expect` panics where the others return `Err`), called by two writers at once. Each call opens the file in append mode and writes the prefix, the message and the newline as separate writes, and any of these may fail. `wrote` is a ghost holding what each writer's writes returned Ok for. |
| `network/establish_connection.rs` | `TcpServer` | `listen_for_tcp_connections` is one server thread: `bind`, then for each connection in turn `accept`, one `read`, `write_all` of the greeting, and every `?` returning from the whole function. Dropping the listener resets the connections still in the `backlog`. The client helpers (`establish_tcp_connection`, `send_data_over_tcp`, `receive_data_over_tcp`, `close_tcp_connection`) are actions of two clients. Reads and writes may be short, and a client may die and reset its connection. |
| `network/network_configuration.rs` | `NetworkConfig` | the struct's `ip_address` and `port`; `new`, the setters and `reset_to_default` as actions; the getters as one action recording what they return. |
| `processing/visualize_data.rs` | `Chart` | the caller's chart (`data_sets`), and `shown`/`drawn`/`result` for the chart `plot` last drew. `visualize_data` builds its own chart from the HashMap's keys in any iteration order, colour `colors[idx % len]`, and plots it. `plot`'s calls into plotters may fail where the code meets them: before the loop, at a data set's circles (`unwrap`, a panic) or line (`?`), or at the legend. |
| `epic_auth/storage.rs` | `Storage` | directories and files, plus the OS failures each helper can meet (missing path, partial `write_all`, partial `remove_dir_all`), and a ghost `writes`: the contents of the calls that made each file what it is. `read_file` strips a CR only where a LF follows it, as `BufRead::lines` does. |

The MC modules are as follows:

- `MCAuthentication` composes AuthManager, Session, UserDirectory, Account, EchoExchange, TcpServer, KeyManagement, AesCbc, SecureMessage, HexKey and XorStream.
- `MCProcessing` composes Int32Helpers, Statistics, Pipeline, RoutingTable, Storage, Settings, AppConfig, LogFile, NetworkConfig and Chart.

`MCAuthentication` holds every program whose properties need fairness. Each fairness condition applies only to its own program's steps (`EchoStep`, `TcpStep`, `KeysStep`, `StreamStep`), so it constrains no other program. `MCProcessing` holds no liveness property. Its `Int32Helpers` results are integers in one state and booleans in the next, and TLC's liveness checking cannot compare such states.

## Runs

Pass runs:

- **authentication** (`MCAuthentication.cfg`, 222k states, about a minute):
  - `validate_token` accepts only tokens backed by the stored password, whoever presents them;
  - in the echo program, the client reads its own server's answer only after the server read the request;
  - main always ends when port 8080 is free at start (`MainTerminates`, under the fairness below);
  - keys from `derive_key_from_password` stay rotatable;
  - XOR, AES-CBC and the secure-message cipher each decrypt their own output;
  - hex keys decode to the bytes drawn;
  - the stream loop echoes what the peer sent, in order, whatever the read sizes and whatever stale bytes the buffer holds;
  - once the peer has closed or reset, the stream loop returns or panics (`StreamEnds`).
- **processing** (`MCProcessing.cfg`, 334k states, about 30 s):
  - parity is right for negatives;
  - `median` is the order statistic, `standard_deviation` is the population deviation, and both it and `mean` are NaN only for an empty map or one holding NaN (`StatisticsMatchDefinitions`);
  - the pipeline and the routing table answer according to the history of calls;
  - every file holds a prefix of what the `write_file` that created or truncated it wrote, then a prefix of each append since, in order, whichever `write_all` calls failed part way and whatever copies, moves and removals came between (`FilesArePrefixesOfWrites`, checked against a ghost `writes` of the calls per file);
  - after a settings save that returned Ok, `settings.txt` holds exactly one line per saved setting, whatever an earlier save left (`FileReflectsSettings`);
  - `read_configuration` returns no configuration but the last one saved, and does return it once that save returned Ok (`ReadReturnsLastSaved`);
  - concurrent log calls, of epic_disco's functions or utility's `log_message`, lose and reorder none of a writer's pieces (`KeepsEveryWritersPieces`). Lines of two writers may mix, which is what the code does;
  - the `netconf` and `chart` programs have no property. Their actions are explored, but the configuration struct holds no invariant beyond its Rust types. The chart's one hazard is that `plot`'s first `draw_series(..).unwrap()` panics where the rest of `plot` returns `Err`. That is a violation of `plot`'s `Result`, and the run budget is spent on the findings listed below.

Violation runs. Each checks one property, and the counterexample is a finding in `PROJECT.json`:

| Run | Finding |
|---|---|
| `tokens_forgeable` | A token is `"<user>_token"`, so a caller that never logged in can present it. |
| `token_reissued` | Every login of a user returns the same token, so the refinement of `TokenIssuer` fails. |
| `admin_logged_out` | `set_user_id(1)` on a logged-out session makes `is_admin` true. |
| `rotated_identity` | Rotating a derived key zeroes `key[0]` (`'$' ^ '$'`), and `encrypt_data` then returns the plaintext. |
| `stretch_loops` | `stretch_key`'s empty salt always fails, so the loop never ends. |
| `failed_save` | A failing `write_all` after `File::create` destroys the saved key. |
| `aes_fail_open` | CBC decryption under another key returns plaintext when the padding happens to be valid. |
| `port_prefix` | `load_setting` takes the first line that *starts with* `port`. A `ports=9` line, or a `port=80` cut from `port=8080` by a save in progress, is then parsed as the port. |
| `one_client_stops_server` | `listen_for_tcp_connections` serves one connection at a time with a blocking `read` and returns on any `?`. A client that dies before its read, or that connects and sends nothing, keeps every later client from ever being greeted. |
| `connect_race` | The one-second sleep does not order connect after bind, so main panics. |

Every property of a pass run has a mutant in `PROJECT.json`. A mutant replaces one mapped definition with a plausible bug (a dropped check, an off-by-one, a swapped field). TLC finds each property violated under its mutant.

## Bounds

Data are model values or small sets:

- two or three users, sessions, keys, destinations and names;
- byte values of 0..3 in the block cipher;
- messages below, at and above one block;
- `W = 3` for i32, so `MIN = -4` and every overflow edge is reachable;
- four calls of history in the pipeline and the routing table;
- files of at most three characters, contents `a LF`, `a` and `CR LF`, so a shorter write over a longer file and a CR left without its LF both occur;
- one connection reset;
- two TCP clients with requests and a greeting of two bytes each, so reads can be short, and one client that dies;
- settings `port` and `ports`, with values 8080 (four digits, so there are cut prefixes), 9 and a word, and two runs of `main`;
- two writers with two calls each, at the levels `message` (no prefix), `error` and utility's `log_message`;
- three data-set labels and a palette of two colours (ten in the code), so `visualize_data`'s colours wrap around;
- two addresses and two ports for the network configuration, main's default and updated ones.

These bounds are enough for the following reasons:

- Every property concerns the order or combination of a few calls: an overwrite, a removal of duplicates, a partial failure, a rotation, a stale buffer.
- Each of these needs two or three calls over two values to show up, and the mutants confirm that the bounds reach them.
- The hex and XOR code work byte by byte, so a few byte values stand for all 256.

## Fairness

- **The echo program (`MCAuthentication`'s `FairSpec`):** `MainTerminates` assumes weak fairness of the server thread and of the client, which the OS scheduler runs whenever they can run. Nothing is assumed of a foreign process holding the port: it may keep the client's connection open forever, so `MainTerminates` is stated for the behaviours that start with the port free. Resets and the sleep have no fairness.
- **The keys program:** weak fairness of the `stretch_key` loop only. The program is single-threaded, and inside `stretch_key` the loop is the only thing it can do.
- **The stream program:** weak fairness of the `*_from_stream` loop's own steps (read, write back). It is the program's only thread. The peer is not assumed to send, close or reset.
- **The tcp program:** weak fairness of the `listen_for_tcp_connections` thread, which the OS schedules whenever it can run. The clients are other processes and are assumed to do nothing. This is why one idle client can hold up the others.
- **Other runs:** no fairness is assumed. Their callers may stop at any time.

## Not modelled

| Source | Why it is left out |
|---|---|
| `main` of `utility/configuration.rs` | It uses `default_config` after moving it, so it does not compile. Its methods are modelled in `AppConfig`. |
| The read-only methods of `epic_disco/configuration.rs` | They change no state. |
| `get_remote_address`, `is_tcp_stream_open` of `establish_connection.rs` | They only read. |
| Both `network_discovery.rs` and `epic_disco/routing.rs` | Simulated, print only. |
| `log_message_custom` of `utility/logging.rs` | It passes a runtime string to `format!`, which does not compile. |
| `utility/error_handling.rs` | `read_file` reads a file once with `?`. The other functions return constant errors: `parse_int_and_chain_error` parses the literal `"not a number"`, not its argument. There is no state to explore. |
| The pixels `plotters` draws | External crate. `plot` is modelled by its calls and their failures. |
| The `*_to_stream` and `*_file` functions of `encrypt_data.rs`/`decrypt_data.rs` | The file functions are stubs that read and write nothing. |
| f64 arithmetic and hashing | Abstracted: closures are model values, and argon2's output is a `$`-prefixed encoded string whose fields are constants. |
