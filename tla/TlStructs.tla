----------------------------- MODULE TlStructs -----------------------------
(***************************************************************************)
(* The TL types of layer 72 as the C++ structs hold them: the              *)
(* constructors hasType() accepts, the bits of the flags, and the members  *)
(* with their types. A struct has one member for all the constructors      *)
(* that use it.                                                            *)
(***************************************************************************)
EXTENDS TlStream

\* The structs from TLAccountDaysTTL to TLAuthExportedAuthorization.
StructsFromAccountDaysTTL ==
  [AccountDaysTTL |-> Struct({"AccountDaysTTL"}, NoFlags, [days |-> quint32]),
   AccountPassword |->
     Struct({"AccountNoPassword", "AccountPassword"}, NoFlags,
            [newSalt |-> QByteArray, emailUnconfirmedPattern |-> QString,
                currentSalt |-> QByteArray, hint |-> QString, hasRecovery |-> bool]),
   AccountPasswordInputSettings |->
     Struct({"AccountPasswordInputSettings"},
            [Hint |-> 0, NewPasswordHash |-> 0, NewSalt |-> 0, Email |-> 1],
            [flags |-> quint32, newSalt |-> QByteArray, newPasswordHash |-> QByteArray,
                hint |-> QString, email |-> QString]),
   AccountPasswordSettings |->
     Struct({"AccountPasswordSettings"}, NoFlags, [email |-> QString]),
   AccountTmpPassword |->
     Struct({"AccountTmpPassword"}, NoFlags,
            [tmpPassword |-> QByteArray, validUntil |-> quint32]),
   AuthCheckedPhone |-> Struct({"AuthCheckedPhone"}, NoFlags, [phoneRegistered |-> bool]),
   AuthCodeType |->
     Struct({"AuthCodeTypeSms", "AuthCodeTypeCall", "AuthCodeTypeFlashCall"}, NoFlags, NoFields),
   AuthExportedAuthorization |->
     Struct({"AuthExportedAuthorization"}, NoFlags, [id |-> quint32, bytes |-> QByteArray])]

\* The structs from TLAuthPasswordRecovery to TLCdnFileHash.
StructsFromAuthPasswordRecovery ==
  [AuthPasswordRecovery |->
     Struct({"AuthPasswordRecovery"}, NoFlags, [emailPattern |-> QString]),
   AuthSentCodeType |->
     Struct({"AuthSentCodeTypeApp", "AuthSentCodeTypeSms", "AuthSentCodeTypeCall",
         "AuthSentCodeTypeFlashCall"},
            NoFlags,
            [length |-> quint32, pattern |-> QString]),
   Authorization |->
     Struct({"Authorization"}, NoFlags,
            [hash |-> quint64, flags |-> quint32, deviceModel |-> QString, platform |-> QString,
                systemVersion |-> QString, apiId |-> quint32, appName |-> QString,
                appVersion |-> QString, dateCreated |-> quint32, dateActive |-> quint32,
                ip |-> QString, country |-> QString, region |-> QString]),
   BadMsgNotification |->
     Struct({"BadMsgNotification", "BadServerSalt"}, NoFlags,
            [badMsgId |-> quint64, badMsgSeqno |-> quint32, errorCode |-> quint32,
                newServerSalt |-> quint64]),
   BotCommand |->
     Struct({"BotCommand"}, NoFlags, [command |-> QString, description |-> QString]),
   BotInfo |->
     Struct({"BotInfo"}, NoFlags,
            [userId |-> quint32, description |-> QString, commands |-> Vector(Tl("BotCommand"))]),
   CdnFileHash |->
     Struct({"CdnFileHash"}, NoFlags,
            [offset |-> quint32, limit |-> quint32, hash |-> QByteArray])]

\* The structs from TLCdnPublicKey to TLContactBlocked.
StructsFromCdnPublicKey ==
  [CdnPublicKey |->
     Struct({"CdnPublicKey"}, NoFlags, [dcId |-> quint32, publicKey |-> QString]),
   ChannelParticipantsFilter |->
     Struct({"ChannelParticipantsRecent", "ChannelParticipantsAdmins",
         "ChannelParticipantsKicked", "ChannelParticipantsBots", "ChannelParticipantsBanned",
         "ChannelParticipantsSearch"},
            NoFlags,
            [q |-> QString]),
   ChatParticipant |->
     Struct({"ChatParticipant", "ChatParticipantCreator", "ChatParticipantAdmin"}, NoFlags,
            [userId |-> quint32, inviterId |-> quint32, date |-> quint32]),
   ChatParticipants |->
     Struct({"ChatParticipantsForbidden", "ChatParticipants"}, [SelfParticipant |-> 0],
            [flags |-> quint32, chatId |-> quint32, selfParticipant |-> Tl("ChatParticipant"),
                participants |-> Vector(Tl("ChatParticipant")), version |-> quint32]),
   ClientDHInnerData |->
     Struct({"ClientDHInnerData"}, NoFlags,
            [nonce |-> TLNumber128, serverNonce |-> TLNumber128, retryId |-> quint64,
                gB |-> QString]),
   Contact |-> Struct({"Contact"}, NoFlags, [userId |-> quint32, mutual |-> bool]),
   ContactBlocked |->
     Struct({"ContactBlocked"}, NoFlags, [userId |-> quint32, date |-> quint32])]

\* The structs from TLContactLink to TLEncryptedFile.
StructsFromContactLink ==
  [ContactLink |->
     Struct({"ContactLinkUnknown", "ContactLinkNone", "ContactLinkHasPhone",
         "ContactLinkContact"},
            NoFlags,
            NoFields),
   DataJSON |-> Struct({"DataJSON"}, NoFlags, [data |-> QString]),
   DestroyAuthKeyRes |->
     Struct({"DestroyAuthKeyOk", "DestroyAuthKeyNone", "DestroyAuthKeyFail"}, NoFlags, NoFields),
   DestroySessionRes |->
     Struct({"DestroySessionOk", "DestroySessionNone"}, NoFlags, [sessionId |-> quint64]),
   DisabledFeature |->
     Struct({"DisabledFeature"}, NoFlags, [feature |-> QString, description |-> QString]),
   EncryptedChat |->
     Struct({"EncryptedChatEmpty", "EncryptedChatWaiting", "EncryptedChatRequested",
         "EncryptedChat", "EncryptedChatDiscarded"},
            NoFlags,
            [id |-> quint32, accessHash |-> quint64, date |-> quint32, adminId |-> quint32,
                participantId |-> quint32, gA |-> QByteArray, gAOrB |-> QByteArray,
                keyFingerprint |-> quint64]),
   EncryptedFile |->
     Struct({"EncryptedFileEmpty", "EncryptedFile"}, NoFlags,
            [id |-> quint64, accessHash |-> quint64, size |-> quint32, dcId |-> quint32,
                keyFingerprint |-> quint32])]

\* The structs from TLEncryptedMessage to TLGeoPoint.
StructsFromEncryptedMessage ==
  [EncryptedMessage |->
     Struct({"EncryptedMessage", "EncryptedMessageService"}, NoFlags,
            [randomId |-> quint64, chatId |-> quint32, date |-> quint32, bytes |-> QByteArray,
                file |-> Tl("EncryptedFile")]),
   Error |-> Struct({"Error"}, NoFlags, [code |-> quint32, text |-> QString]),
   ExportedChatInvite |->
     Struct({"ChatInviteEmpty", "ChatInviteExported"}, NoFlags, [link |-> QString]),
   ExportedMessageLink |-> Struct({"ExportedMessageLink"}, NoFlags, [link |-> QString]),
   FileLocation |->
     Struct({"FileLocationUnavailable", "FileLocation"}, NoFlags,
            [volumeId |-> quint64, localId |-> quint32, secret |-> quint64, dcId |-> quint32]),
   FutureSalt |->
     Struct({"FutureSalt"}, NoFlags,
            [validSince |-> quint32, validUntil |-> quint32, salt |-> quint64]),
   FutureSalts |->
     Struct({"FutureSalts"}, NoFlags,
            [reqMsgId |-> quint64, now |-> quint32, salts |-> Vector(Tl("FutureSalt"))]),
   GeoPoint |->
     Struct({"GeoPointEmpty", "GeoPoint"}, NoFlags, [longitude |-> double, latitude |-> double])]

\* The structs from TLHelpAppUpdate to TLInputAppEvent.
StructsFromHelpAppUpdate ==
  [HelpAppUpdate |->
     Struct({"HelpAppUpdate", "HelpNoAppUpdate"}, NoFlags,
            [id |-> quint32, critical |-> bool, url |-> QString, text |-> QString]),
   HelpInviteText |-> Struct({"HelpInviteText"}, NoFlags, [message |-> QString]),
   HelpTermsOfService |-> Struct({"HelpTermsOfService"}, NoFlags, [text |-> QString]),
   HighScore |->
     Struct({"HighScore"}, NoFlags, [pos |-> quint32, userId |-> quint32, score |-> quint32]),
   HttpWait |->
     Struct({"HttpWait"}, NoFlags,
            [maxDelay |-> quint32, waitAfter |-> quint32, maxWait |-> quint32]),
   ImportedContact |->
     Struct({"ImportedContact"}, NoFlags, [userId |-> quint32, clientId |-> quint64]),
   InlineBotSwitchPM |->
     Struct({"InlineBotSwitchPM"}, NoFlags, [text |-> QString, startParam |-> QString]),
   InputAppEvent |->
     Struct({"InputAppEvent"}, NoFlags,
            [time |-> double, type |-> QString, peer |-> quint64, data |-> QString])]

\* The structs from TLInputBotInlineMessageID to TLInputFile.
StructsFromInputBotInlineMessageID ==
  [InputBotInlineMessageID |->
     Struct({"InputBotInlineMessageID"}, NoFlags,
            [dcId |-> quint32, id |-> quint64, accessHash |-> quint64]),
   InputChannel |->
     Struct({"InputChannelEmpty", "InputChannel"}, NoFlags,
            [channelId |-> quint32, accessHash |-> quint64]),
   InputContact |->
     Struct({"InputPhoneContact"}, NoFlags,
            [clientId |-> quint64, phone |-> QString, firstName |-> QString,
                lastName |-> QString]),
   InputDocument |->
     Struct({"InputDocumentEmpty", "InputDocument"}, NoFlags,
            [id |-> quint64, accessHash |-> quint64]),
   InputEncryptedChat |->
     Struct({"InputEncryptedChat"}, NoFlags, [chatId |-> quint32, accessHash |-> quint64]),
   InputEncryptedFile |->
     Struct({"InputEncryptedFileEmpty", "InputEncryptedFileUploaded", "InputEncryptedFile",
         "InputEncryptedFileBigUploaded"},
            NoFlags,
            [id |-> quint64, parts |-> quint32, md5Checksum |-> QString,
                keyFingerprint |-> quint32, accessHash |-> quint64]),
   InputFile |->
     Struct({"InputFile", "InputFileBig"}, NoFlags,
            [id |-> quint64, parts |-> quint32, name |-> QString, md5Checksum |-> QString])]

\* The structs from TLInputFileLocation to TLInputPrivacyKey.
StructsFromInputFileLocation ==
  [InputFileLocation |->
     Struct({"InputFileLocation", "InputEncryptedFileLocation", "InputDocumentFileLocation"},
            NoFlags,
            [volumeId |-> quint64, localId |-> quint32, secret |-> quint64, id |-> quint64,
                accessHash |-> quint64, version |-> quint32]),
   InputGeoPoint |->
     Struct({"InputGeoPointEmpty", "InputGeoPoint"}, NoFlags,
            [latitude |-> double, longitude |-> double]),
   InputPeer |->
     Struct({"InputPeerEmpty", "InputPeerSelf", "InputPeerChat", "InputPeerUser",
         "InputPeerChannel"},
            NoFlags,
            [chatId |-> quint32, userId |-> quint32, accessHash |-> quint64,
                channelId |-> quint32]),
   InputPeerNotifyEvents |->
     Struct({"InputPeerNotifyEventsEmpty", "InputPeerNotifyEventsAll"}, NoFlags, NoFields),
   InputPhoneCall |->
     Struct({"InputPhoneCall"}, NoFlags, [id |-> quint64, accessHash |-> quint64]),
   InputPhoto |->
     Struct({"InputPhotoEmpty", "InputPhoto"}, NoFlags, [id |-> quint64, accessHash |-> quint64]),
   InputPrivacyKey |->
     Struct({"InputPrivacyKeyStatusTimestamp", "InputPrivacyKeyChatInvite",
         "InputPrivacyKeyPhoneCall"},
            NoFlags,
            NoFields)]

\* The structs from TLInputStickerSet to TLLangPackLanguage.
StructsFromInputStickerSet ==
  [InputStickerSet |->
     Struct({"InputStickerSetEmpty", "InputStickerSetID", "InputStickerSetShortName"}, NoFlags,
            [id |-> quint64, accessHash |-> quint64, shortName |-> QString]),
   InputStickeredMedia |->
     Struct({"InputStickeredMediaPhoto", "InputStickeredMediaDocument"}, NoFlags,
            [inputPhotoId |-> Tl("InputPhoto"), inputDocumentId |-> Tl("InputDocument")]),
   InputUser |->
     Struct({"InputUserEmpty", "InputUserSelf", "InputUser"}, NoFlags,
            [userId |-> quint32, accessHash |-> quint64]),
   InputWebFileLocation |->
     Struct({"InputWebFileLocation"}, NoFlags, [url |-> QString, accessHash |-> quint64]),
   IpPort |-> Struct({"IpPort"}, NoFlags, [ipv4 |-> quint32, port |-> quint32]),
   LabeledPrice |->
     Struct({"LabeledPrice"}, NoFlags, [label |-> QString, amount |-> quint64]),
   LangPackLanguage |->
     Struct({"LangPackLanguage"}, NoFlags,
            [name |-> QString, nativeName |-> QString, langCode |-> QString])]

\* The structs from TLLangPackString to TLMessagesAffectedHistory.
StructsFromLangPackString ==
  [LangPackString |->
     Struct({"LangPackString", "LangPackStringPluralized", "LangPackStringDeleted"},
            [ZeroValue |-> 0, OneValue |-> 1, TwoValue |-> 2, FewValue |-> 3, ManyValue |-> 4],
            [key |-> QString, value |-> QString, flags |-> quint32, zeroValue |-> QString,
                oneValue |-> QString, twoValue |-> QString, fewValue |-> QString,
                manyValue |-> QString, otherValue |-> QString]),
   MaskCoords |->
     Struct({"MaskCoords"}, NoFlags,
            [n |-> quint32, x |-> double, y |-> double, zoom |-> double]),
   MessageEntity |->
     Struct({"MessageEntityUnknown", "MessageEntityMention", "MessageEntityHashtag",
         "MessageEntityBotCommand", "MessageEntityUrl", "MessageEntityEmail",
         "MessageEntityBold", "MessageEntityItalic", "MessageEntityCode", "MessageEntityPre",
         "MessageEntityTextUrl", "MessageEntityMentionName", "InputMessageEntityMentionName"},
            NoFlags,
            [offset |-> quint32, length |-> quint32, language |-> QString, url |-> QString,
                userId |-> quint32, inputUserUserId |-> Tl("InputUser")]),
   MessageFwdHeader |->
     Struct({"MessageFwdHeader"},
            [FromId |-> 0, ChannelId |-> 1, ChannelPost |-> 2, PostAuthor |-> 3],
            [flags |-> quint32, fromId |-> quint32, date |-> quint32, channelId |-> quint32,
                channelPost |-> quint32, postAuthor |-> QString]),
   MessageRange |-> Struct({"MessageRange"}, NoFlags, [minId |-> quint32, maxId |-> quint32]),
   MessagesAffectedHistory |->
     Struct({"MessagesAffectedHistory"}, NoFlags,
            [pts |-> quint32, ptsCount |-> quint32, offset |-> quint32])]

\* The structs from TLMessagesAffectedMessages to TLMsgsStateInfo.
StructsFromMessagesAffectedMessages ==
  [MessagesAffectedMessages |->
     Struct({"MessagesAffectedMessages"}, NoFlags, [pts |-> quint32, ptsCount |-> quint32]),
   MessagesDhConfig |->
     Struct({"MessagesDhConfigNotModified", "MessagesDhConfig"}, NoFlags,
            [random |-> QByteArray, g |-> quint32, p |-> QByteArray, version |-> quint32]),
   MessagesSentEncryptedMessage |->
     Struct({"MessagesSentEncryptedMessage", "MessagesSentEncryptedFile"}, NoFlags,
            [date |-> quint32, file |-> Tl("EncryptedFile")]),
   MsgDetailedInfo |->
     Struct({"MsgDetailedInfo", "MsgNewDetailedInfo"}, NoFlags,
            [msgId |-> quint64, answerMsgId |-> quint64, bytes |-> quint32, status |-> quint32]),
   MsgResendReq |-> Struct({"MsgResendReq"}, NoFlags, [msgIds |-> Vector(quint64)]),
   MsgsAck |-> Struct({"MsgsAck"}, NoFlags, [msgIds |-> Vector(quint64)]),
   MsgsAllInfo |->
     Struct({"MsgsAllInfo"}, NoFlags, [msgIds |-> Vector(quint64), info |-> QString]),
   MsgsStateInfo |->
     Struct({"MsgsStateInfo"}, NoFlags, [reqMsgId |-> quint64, info |-> QString])]

\* The structs from TLMsgsStateReq to TLPeerNotifyEvents.
StructsFromMsgsStateReq ==
  [MsgsStateReq |-> Struct({"MsgsStateReq"}, NoFlags, [msgIds |-> Vector(quint64)]),
   NearestDc |->
     Struct({"NearestDc"}, NoFlags,
            [country |-> QString, thisDc |-> quint32, nearestDc |-> quint32]),
   NewSession |->
     Struct({"NewSessionCreated"}, NoFlags,
            [firstMsgId |-> quint64, uniqueId |-> quint64, serverSalt |-> quint64]),
   PQInnerData |->
     Struct({"PQInnerData"}, NoFlags,
            [pq |-> QString, p |-> QString, q |-> QString, nonce |-> TLNumber128,
                serverNonce |-> TLNumber128, newNonce |-> TLNumber256]),
   PaymentCharge |->
     Struct({"PaymentCharge"}, NoFlags, [id |-> QString, providerChargeId |-> QString]),
   PaymentSavedCredentials |->
     Struct({"PaymentSavedCredentialsCard"}, NoFlags, [id |-> QString, title |-> QString]),
   Peer |->
     Struct({"PeerUser", "PeerChat", "PeerChannel"}, NoFlags,
            [userId |-> quint32, chatId |-> quint32, channelId |-> quint32]),
   PeerNotifyEvents |->
     Struct({"PeerNotifyEventsEmpty", "PeerNotifyEventsAll"}, NoFlags, NoFields)]

\* The structs from TLPhoneCallDiscardReason to TLPrivacyKey.
StructsFromPhoneCallDiscardReason ==
  [PhoneCallDiscardReason |->
     Struct({"PhoneCallDiscardReasonMissed", "PhoneCallDiscardReasonDisconnect",
         "PhoneCallDiscardReasonHangup", "PhoneCallDiscardReasonBusy"},
            NoFlags,
            NoFields),
   PhoneConnection |->
     Struct({"PhoneConnection"}, NoFlags,
            [id |-> quint64, ip |-> QString, ipv6 |-> QString, port |-> quint32,
                peerTag |-> QByteArray]),
   PhotoSize |->
     Struct({"PhotoSizeEmpty", "PhotoSize", "PhotoCachedSize"}, NoFlags,
            [type |-> QString, location |-> Tl("FileLocation"), w |-> quint32, h |-> quint32,
                size |-> quint32, bytes |-> QByteArray]),
   Pong |-> Struct({"Pong"}, NoFlags, [msgId |-> quint64, pingId |-> quint64]),
   PopularContact |->
     Struct({"PopularContact"}, NoFlags, [clientId |-> quint64, importers |-> quint32]),
   PostAddress |->
     Struct({"PostAddress"}, NoFlags,
            [streetLine1 |-> QString, streetLine2 |-> QString, city |-> QString,
                state |-> QString, countryIso2 |-> QString, postCode |-> QString]),
   PrivacyKey |->
     Struct({"PrivacyKeyStatusTimestamp", "PrivacyKeyChatInvite", "PrivacyKeyPhoneCall"},
            NoFlags,
            NoFields)]

\* The structs from TLPrivacyRule to TLResPQ.
StructsFromPrivacyRule ==
  [PrivacyRule |->
     Struct({"PrivacyValueAllowContacts", "PrivacyValueAllowAll", "PrivacyValueAllowUsers",
         "PrivacyValueDisallowContacts", "PrivacyValueDisallowAll", "PrivacyValueDisallowUsers"},
            NoFlags,
            [users |-> Vector(quint32)]),
   ReceivedNotifyMessage |->
     Struct({"ReceivedNotifyMessage"}, NoFlags, [id |-> quint32, flags |-> quint32]),
   ReportReason |->
     Struct({"InputReportReasonSpam", "InputReportReasonViolence",
         "InputReportReasonPornography", "InputReportReasonOther"},
            NoFlags,
            [text |-> QString]),
   ResPQ |->
     Struct({"ResPQ"}, NoFlags,
            [nonce |-> TLNumber128, serverNonce |-> TLNumber128, pq |-> QString,
                serverPublicKeyFingerprints |-> Vector(quint64)])]

\* The structs from TLRichText to TLServerDHParams.
StructsFromRichText ==
  [RichText |->
     Struct({"TextEmpty", "TextPlain", "TextBold", "TextItalic", "TextUnderline", "TextStrike",
         "TextFixed", "TextUrl", "TextEmail", "TextConcat"},
            NoFlags,
            [stringText |-> QString, richText |-> Ptr(Tl("RichText")), url |-> QString,
                webpageId |-> quint64, email |-> QString, texts |-> Vector(Ptr(Tl("RichText")))]),
   RpcDropAnswer |->
     Struct({"RpcAnswerUnknown", "RpcAnswerDroppedRunning", "RpcAnswerDropped"}, NoFlags,
            [msgId |-> quint64, seqNo |-> quint32, bytes |-> quint32]),
   RpcError |->
     Struct({"RpcError"}, NoFlags, [errorCode |-> quint32, errorMessage |-> QString]),
   SendMessageAction |->
     Struct({"SendMessageTypingAction", "SendMessageCancelAction",
         "SendMessageRecordVideoAction", "SendMessageUploadVideoAction",
         "SendMessageRecordAudioAction", "SendMessageUploadAudioAction",
         "SendMessageUploadPhotoAction", "SendMessageUploadDocumentAction",
         "SendMessageGeoLocationAction", "SendMessageChooseContactAction",
         "SendMessageGamePlayAction", "SendMessageRecordRoundAction",
         "SendMessageUploadRoundAction"},
            NoFlags,
            [progress |-> quint32]),
   ServerDHInnerData |->
     Struct({"ServerDHInnerData"}, NoFlags,
            [nonce |-> TLNumber128, serverNonce |-> TLNumber128, g |-> quint32,
                dhPrime |-> QString, gA |-> QString, serverTime |-> quint32]),
   ServerDHParams |->
     Struct({"ServerDHParamsFail", "ServerDHParamsOk"}, NoFlags,
            [nonce |-> TLNumber128, serverNonce |-> TLNumber128, newNonceHash |-> TLNumber128,
                encryptedAnswer |-> QString])]

\* The structs from TLSetClientDHParamsAnswer to TLTopPeerCategoryPeers.
StructsFromSetClientDHParamsAnswer ==
  [SetClientDHParamsAnswer |->
     Struct({"DhGenOk", "DhGenRetry", "DhGenFail"}, NoFlags,
            [nonce |-> TLNumber128, serverNonce |-> TLNumber128, newNonceHash1 |-> TLNumber128,
                newNonceHash2 |-> TLNumber128, newNonceHash3 |-> TLNumber128]),
   ShippingOption |->
     Struct({"ShippingOption"}, NoFlags,
            [id |-> QString, title |-> QString, prices |-> Vector(Tl("LabeledPrice"))]),
   StickerPack |->
     Struct({"StickerPack"}, NoFlags, [emoticon |-> QString, documents |-> Vector(quint64)]),
   StorageFileType |->
     Struct({"StorageFileUnknown", "StorageFilePartial", "StorageFileJpeg", "StorageFileGif",
         "StorageFilePng", "StorageFilePdf", "StorageFileMp3", "StorageFileMov",
         "StorageFileMp4", "StorageFileWebp"},
            NoFlags,
            NoFields),
   TopPeer |-> Struct({"TopPeer"}, NoFlags, [peer |-> Tl("Peer"), rating |-> double]),
   TopPeerCategory |->
     Struct({"TopPeerCategoryBotsPM", "TopPeerCategoryBotsInline",
         "TopPeerCategoryCorrespondents", "TopPeerCategoryGroups", "TopPeerCategoryChannels",
         "TopPeerCategoryPhoneCalls"},
            NoFlags,
            NoFields),
   TopPeerCategoryPeers |->
     Struct({"TopPeerCategoryPeers"}, NoFlags,
            [category |-> Tl("TopPeerCategory"), count |-> quint32,
                peers |-> Vector(Tl("TopPeer"))])]

\* The structs from TLUpdatesState to TLWallPaper.
StructsFromUpdatesState ==
  [UpdatesState |->
     Struct({"UpdatesState"}, NoFlags,
            [pts |-> quint32, qts |-> quint32, date |-> quint32, seq |-> quint32,
                unreadCount |-> quint32]),
   UploadCdnFile |->
     Struct({"UploadCdnFileReuploadNeeded", "UploadCdnFile"}, NoFlags,
            [requestToken |-> QByteArray, bytes |-> QByteArray]),
   UploadFile |->
     Struct({"UploadFile", "UploadFileCdnRedirect"}, NoFlags,
            [type |-> Tl("StorageFileType"), mtime |-> quint32, bytes |-> QByteArray,
                dcId |-> quint32, fileToken |-> QByteArray, encryptionKey |-> QByteArray,
                encryptionIv |-> QByteArray, cdnFileHashes |-> Vector(Tl("CdnFileHash"))]),
   UploadWebFile |->
     Struct({"UploadWebFile"}, NoFlags,
            [size |-> quint32, mimeType |-> QString, fileType |-> Tl("StorageFileType"),
                mtime |-> quint32, bytes |-> QByteArray]),
   UserProfilePhoto |->
     Struct({"UserProfilePhotoEmpty", "UserProfilePhoto"}, NoFlags,
            [photoId |-> quint64, photoSmall |-> Tl("FileLocation"),
                photoBig |-> Tl("FileLocation")]),
   UserStatus |->
     Struct({"UserStatusEmpty", "UserStatusOnline", "UserStatusOffline", "UserStatusRecently",
         "UserStatusLastWeek", "UserStatusLastMonth"},
            NoFlags,
            [expires |-> quint32, wasOnline |-> quint32]),
   WallPaper |->
     Struct({"WallPaper", "WallPaperSolid"}, NoFlags,
            [id |-> quint32, title |-> QString, sizes |-> Vector(Tl("PhotoSize")),
                color |-> quint32, bgColor |-> quint32])]

\* The structs from TLAccountAuthorizations to TLChannelAdminRights.
StructsFromAccountAuthorizations ==
  [AccountAuthorizations |->
     Struct({"AccountAuthorizations"}, NoFlags, [authorizations |-> Vector(Tl("Authorization"))]),
   AuthSentCode |->
     Struct({"AuthSentCode"}, [PhoneRegistered |-> 0, NextType |-> 1, Timeout |-> 2],
            [flags |-> quint32, type |-> Tl("AuthSentCodeType"), phoneCodeHash |-> QString,
                nextType |-> Tl("AuthCodeType"), timeout |-> quint32]),
   CdnConfig |-> Struct({"CdnConfig"}, NoFlags, [publicKeys |-> Vector(Tl("CdnPublicKey"))]),
   ChannelAdminLogEventsFilter |->
     Struct({"ChannelAdminLogEventsFilter"},
            [Join |-> 0, Leave |-> 1, Invite |-> 2, Ban |-> 3, Unban |-> 4, Kick |-> 5,
                Unkick |-> 6, Promote |-> 7, Demote |-> 8, Info |-> 9, Settings |-> 10,
                Pinned |-> 11, Edit |-> 12, Deleted |-> 13],
            [flags |-> quint32]),
   ChannelAdminRights |->
     Struct({"ChannelAdminRights"},
            [ChangeInfo |-> 0, PostMessages |-> 1, EditMessages |-> 2, DeleteMessages |-> 3,
                BanUsers |-> 4, InviteUsers |-> 5, InviteLink |-> 6, PinMessages |-> 7,
                AddAdmins |-> 9],
            [flags |-> quint32])]

\* The structs from TLChannelBannedRights to TLContactStatus.
StructsFromChannelBannedRights ==
  [ChannelBannedRights |->
     Struct({"ChannelBannedRights"},
            [ViewMessages |-> 0, SendMessages |-> 1, SendMedia |-> 2, SendStickers |-> 3,
                SendGifs |-> 4, SendGames |-> 5, SendInline |-> 6, EmbedLinks |-> 7],
            [flags |-> quint32, untilDate |-> quint32]),
   ChannelMessagesFilter |->
     Struct({"ChannelMessagesFilterEmpty", "ChannelMessagesFilter"}, [ExcludeNewMessages |-> 1],
            [flags |-> quint32, ranges |-> Vector(Tl("MessageRange"))]),
   ChannelParticipant |->
     Struct({"ChannelParticipant", "ChannelParticipantSelf", "ChannelParticipantCreator",
         "ChannelParticipantAdmin", "ChannelParticipantBanned"},
            [Left |-> 0, CanEdit |-> 0],
            [userId |-> quint32, date |-> quint32, inviterId |-> quint32, flags |-> quint32,
                promotedBy |-> quint32, adminRights |-> Tl("ChannelAdminRights"),
                kickedBy |-> quint32, bannedRights |-> Tl("ChannelBannedRights")]),
   ChatPhoto |->
     Struct({"ChatPhotoEmpty", "ChatPhoto"}, NoFlags,
            [photoSmall |-> Tl("FileLocation"), photoBig |-> Tl("FileLocation")]),
   ContactStatus |->
     Struct({"ContactStatus"}, NoFlags, [userId |-> quint32, status |-> Tl("UserStatus")])]

\* The structs from TLDcOption to TLInputChatPhoto.
StructsFromDcOption ==
  [DcOption |->
     Struct({"DcOption"},
            [Ipv6 |-> 0, MediaOnly |-> 1, TcpoOnly |-> 2, Cdn |-> 3, IsStatic |-> 4],
            [flags |-> quint32, id |-> quint32, ipAddress |-> QString, port |-> quint32]),
   DocumentAttribute |->
     Struct({"DocumentAttributeImageSize", "DocumentAttributeAnimated",
         "DocumentAttributeSticker", "DocumentAttributeVideo", "DocumentAttributeAudio",
         "DocumentAttributeFilename", "DocumentAttributeHasStickers"},
            [Title |-> 0, RoundMessage |-> 0, MaskCoords |-> 0, Performer |-> 1, Mask |-> 1,
                Waveform |-> 2, Voice |-> 10],
            [w |-> quint32, h |-> quint32, flags |-> quint32, alt |-> QString,
                stickerset |-> Tl("InputStickerSet"), maskCoords |-> Tl("MaskCoords"),
                duration |-> quint32, title |-> QString, performer |-> QString,
                waveform |-> QByteArray, fileName |-> QString]),
   DraftMessage |->
     Struct({"DraftMessageEmpty", "DraftMessage"},
            [ReplyToMsgId |-> 0, NoWebpage |-> 1, Entities |-> 3],
            [flags |-> quint32, replyToMsgId |-> quint32, message |-> QString,
                entities |-> Vector(Tl("MessageEntity")), date |-> quint32]),
   HelpConfigSimple |->
     Struct({"HelpConfigSimple"}, NoFlags,
            [date |-> quint32, expires |-> quint32, dcId |-> quint32,
                ipPortList |-> Vector(Tl("IpPort"))]),
   InputChatPhoto |->
     Struct({"InputChatPhotoEmpty", "InputChatUploadedPhoto", "InputChatPhoto"}, NoFlags,
            [file |-> Tl("InputFile"), id |-> Tl("InputPhoto")])]

\* The structs from TLInputGame to TLInputStickerSetItem.
StructsFromInputGame ==
  [InputGame |->
     Struct({"InputGameID", "InputGameShortName"}, NoFlags,
            [id |-> quint64, accessHash |-> quint64, botId |-> Tl("InputUser"),
                shortName |-> QString]),
   InputNotifyPeer |->
     Struct({"InputNotifyPeer", "InputNotifyUsers", "InputNotifyChats", "InputNotifyAll"},
            NoFlags,
            [peer |-> Tl("InputPeer")]),
   InputPaymentCredentials |->
     Struct({"InputPaymentCredentialsSaved", "InputPaymentCredentials",
         "InputPaymentCredentialsApplePay", "InputPaymentCredentialsAndroidPay"},
            [Save |-> 0],
            [id |-> QString, tmpPassword |-> QByteArray, flags |-> quint32,
                data |-> Tl("DataJSON"), paymentData |-> Tl("DataJSON"),
                paymentToken |-> Tl("DataJSON")]),
   InputPeerNotifySettings |->
     Struct({"InputPeerNotifySettings"}, [ShowPreviews |-> 0, Silent |-> 1],
            [flags |-> quint32, muteUntil |-> quint32, sound |-> QString]),
   InputPrivacyRule |->
     Struct({"InputPrivacyValueAllowContacts", "InputPrivacyValueAllowAll",
         "InputPrivacyValueAllowUsers", "InputPrivacyValueDisallowContacts",
         "InputPrivacyValueDisallowAll", "InputPrivacyValueDisallowUsers"},
            NoFlags,
            [users |-> Vector(Tl("InputUser"))]),
   InputStickerSetItem |->
     Struct({"InputStickerSetItem"}, [MaskCoords |-> 0],
            [flags |-> quint32, document |-> Tl("InputDocument"), emoji |-> QString,
                maskCoords |-> Tl("MaskCoords")])]

\* The structs from TLInputWebDocument to TLMessagesBotCallbackAnswer.
StructsFromInputWebDocument ==
  [InputWebDocument |->
     Struct({"InputWebDocument"}, NoFlags,
            [url |-> QString, size |-> quint32, mimeType |-> QString,
                attributes |-> Vector(Tl("DocumentAttribute"))]),
   Invoice |->
     Struct({"Invoice"},
            [Test |-> 0, NameRequested |-> 1, PhoneRequested |-> 2, EmailRequested |-> 3,
                ShippingAddressRequested |-> 4, Flexible |-> 5],
            [flags |-> quint32, currency |-> QString, prices |-> Vector(Tl("LabeledPrice"))]),
   KeyboardButton |->
     Struct({"KeyboardButton", "KeyboardButtonUrl", "KeyboardButtonCallback",
         "KeyboardButtonRequestPhone", "KeyboardButtonRequestGeoLocation",
         "KeyboardButtonSwitchInline", "KeyboardButtonGame", "KeyboardButtonBuy"},
            [SamePeer |-> 0],
            [text |-> QString, url |-> QString, data |-> QByteArray, flags |-> quint32,
                query |-> QString]),
   KeyboardButtonRow |->
     Struct({"KeyboardButtonRow"}, NoFlags, [buttons |-> Vector(Tl("KeyboardButton"))]),
   LangPackDifference |->
     Struct({"LangPackDifference"}, NoFlags,
            [langCode |-> QString, fromVersion |-> quint32, version |-> quint32,
                strings |-> Vector(Tl("LangPackString"))]),
   MessagesBotCallbackAnswer |->
     Struct({"MessagesBotCallbackAnswer"},
            [Message |-> 0, Alert |-> 1, Url |-> 2, HasUrl |-> 3, NativeUi |-> 4],
            [flags |-> quint32, message |-> QString, url |-> QString, cacheTime |-> quint32])]

\* The structs from TLMessagesFilter to TLPaymentsValidatedRequestedInfo.
StructsFromMessagesFilter ==
  [MessagesFilter |->
     Struct({"InputMessagesFilterEmpty", "InputMessagesFilterPhotos", "InputMessagesFilterVideo",
         "InputMessagesFilterPhotoVideo", "InputMessagesFilterDocument",
         "InputMessagesFilterUrl", "InputMessagesFilterGif", "InputMessagesFilterVoice",
         "InputMessagesFilterMusic", "InputMessagesFilterChatPhotos",
         "InputMessagesFilterPhoneCalls", "InputMessagesFilterRoundVoice",
         "InputMessagesFilterRoundVideo", "InputMessagesFilterMyMentions",
         "InputMessagesFilterGeo", "InputMessagesFilterContacts"},
            [Missed |-> 0],
            [flags |-> quint32]),
   MessagesMessageEditData |->
     Struct({"MessagesMessageEditData"}, [Caption |-> 0], [flags |-> quint32]),
   NotifyPeer |->
     Struct({"NotifyPeer", "NotifyUsers", "NotifyChats", "NotifyAll"}, NoFlags,
            [peer |-> Tl("Peer")]),
   PaymentRequestedInfo |->
     Struct({"PaymentRequestedInfo"},
            [Name |-> 0, Phone |-> 1, Email |-> 2, ShippingAddress |-> 3],
            [flags |-> quint32, name |-> QString, phone |-> QString, email |-> QString,
                shippingAddress |-> Tl("PostAddress")]),
   PaymentsSavedInfo |->
     Struct({"PaymentsSavedInfo"}, [SavedInfo |-> 0, HasSavedCredentials |-> 1],
            [flags |-> quint32, savedInfo |-> Tl("PaymentRequestedInfo")]),
   PaymentsValidatedRequestedInfo |->
     Struct({"PaymentsValidatedRequestedInfo"}, [Id |-> 0, ShippingOptions |-> 1],
            [flags |-> quint32, id |-> QString,
                shippingOptions |-> Vector(Tl("ShippingOption"))])]

\* The structs from TLPeerNotifySettings to TLReplyMarkup.
StructsFromPeerNotifySettings ==
  [PeerNotifySettings |->
     Struct({"PeerNotifySettingsEmpty", "PeerNotifySettings"},
            [ShowPreviews |-> 0, Silent |-> 1],
            [flags |-> quint32, muteUntil |-> quint32, sound |-> QString]),
   PeerSettings |-> Struct({"PeerSettings"}, [ReportSpam |-> 0], [flags |-> quint32]),
   PhoneCallProtocol |->
     Struct({"PhoneCallProtocol"}, [UdpP2p |-> 0, UdpReflector |-> 1],
            [flags |-> quint32, minLayer |-> quint32, maxLayer |-> quint32]),
   Photo |->
     Struct({"PhotoEmpty", "Photo"}, [HasStickers |-> 0],
            [id |-> quint64, flags |-> quint32, accessHash |-> quint64, date |-> quint32,
                sizes |-> Vector(Tl("PhotoSize"))]),
   ReplyMarkup |->
     Struct({"ReplyKeyboardHide", "ReplyKeyboardForceReply", "ReplyKeyboardMarkup",
         "ReplyInlineMarkup"},
            [Resize |-> 0, SingleUse |-> 1, Selective |-> 2],
            [flags |-> quint32, rows |-> Vector(Tl("KeyboardButtonRow"))])]

\* The structs from TLStickerSet to TLAccountPrivacyRules.
StructsFromStickerSet ==
  [StickerSet |->
     Struct({"StickerSet"}, [Installed |-> 0, Archived |-> 1, Official |-> 2, Masks |-> 3],
            [flags |-> quint32, id |-> quint64, accessHash |-> quint64, title |-> QString,
                shortName |-> QString, count |-> quint32, hash |-> quint32]),
   User |->
     Struct({"UserEmpty", "User"},
            [AccessHash |-> 0, FirstName |-> 1, LastName |-> 2, Username |-> 3, Phone |-> 4,
                Photo |-> 5, Status |-> 6, Self |-> 10, Contact |-> 11, MutualContact |-> 12,
                Deleted |-> 13, BotInfoVersion |-> 14, Bot |-> 14, BotChatHistory |-> 15,
                BotNochats |-> 16, Verified |-> 17, RestrictionReason |-> 18, Restricted |-> 18,
                BotInlinePlaceholder |-> 19, Min |-> 20, BotInlineGeo |-> 21, LangCode |-> 22],
            [id |-> quint32, flags |-> quint32, accessHash |-> quint64, firstName |-> QString,
                lastName |-> QString, username |-> QString, phone |-> QString,
                photo |-> Tl("UserProfilePhoto"), status |-> Tl("UserStatus"),
                botInfoVersion |-> quint32, restrictionReason |-> QString,
                botInlinePlaceholder |-> QString, langCode |-> QString]),
   WebDocument |->
     Struct({"WebDocument"}, NoFlags,
            [url |-> QString, accessHash |-> quint64, size |-> quint32, mimeType |-> QString,
                attributes |-> Vector(Tl("DocumentAttribute")), dcId |-> quint32]),
   AccountPrivacyRules |->
     Struct({"AccountPrivacyRules"}, NoFlags,
            [rules |-> Vector(Tl("PrivacyRule")), users |-> Vector(Tl("User"))])]

\* The structs from TLAuthAuthorization to TLChannelsChannelParticipants.
StructsFromAuthAuthorization ==
  [AuthAuthorization |->
     Struct({"AuthAuthorization"}, [TmpSessions |-> 0],
            [flags |-> quint32, tmpSessions |-> quint32, user |-> Tl("User")]),
   BotInlineMessage |->
     Struct({"BotInlineMessageMediaAuto", "BotInlineMessageText", "BotInlineMessageMediaGeo",
         "BotInlineMessageMediaVenue", "BotInlineMessageMediaContact"},
            [NoWebpage |-> 0, Entities |-> 1, ReplyMarkup |-> 2],
            [flags |-> quint32, caption |-> QString, replyMarkup |-> Tl("ReplyMarkup"),
                message |-> QString, entities |-> Vector(Tl("MessageEntity")),
                geo |-> Tl("GeoPoint"), period |-> quint32, title |-> QString,
                address |-> QString, provider |-> QString, venueId |-> QString,
                phoneNumber |-> QString, firstName |-> QString, lastName |-> QString]),
   ChannelsChannelParticipant |->
     Struct({"ChannelsChannelParticipant"}, NoFlags,
            [participant |-> Tl("ChannelParticipant"), users |-> Vector(Tl("User"))]),
   ChannelsChannelParticipants |->
     Struct({"ChannelsChannelParticipants", "ChannelsChannelParticipantsNotModified"}, NoFlags,
            [count |-> quint32, participants |-> Vector(Tl("ChannelParticipant")),
                users |-> Vector(Tl("User"))])]

\* The structs from TLChat to TLChatFull.
StructsFromChat ==
  [Chat |->
     Struct({"ChatEmpty", "Chat", "ChatForbidden", "Channel", "ChannelForbidden"},
            [Creator |-> 0, Kicked |-> 1, Left |-> 2, Editor |-> 3, AdminsEnabled |-> 3,
                Admin |-> 4, Broadcast |-> 5, Deactivated |-> 5, Username |-> 6,
                MigratedTo |-> 6, Verified |-> 7, Megagroup |-> 8, RestrictionReason |-> 9,
                Restricted |-> 9, Democracy |-> 10, Signatures |-> 11, Min |-> 12,
                AccessHash |-> 13, AdminRights |-> 14, BannedRights |-> 15, UntilDate |-> 16],
            [id |-> quint32, flags |-> quint32, title |-> QString, photo |-> Tl("ChatPhoto"),
                participantsCount |-> quint32, date |-> quint32, version |-> quint32,
                migratedTo |-> Tl("InputChannel"), accessHash |-> quint64, username |-> QString,
                restrictionReason |-> QString, adminRights |-> Tl("ChannelAdminRights"),
                bannedRights |-> Tl("ChannelBannedRights"), untilDate |-> quint32]),
   ChatFull |->
     Struct({"ChatFull", "ChannelFull"},
            [ParticipantsCount |-> 0, AdminsCount |-> 1, BannedCount |-> 2, KickedCount |-> 2,
                CanViewParticipants |-> 3, MigratedFromMaxId |-> 4, MigratedFromChatId |-> 4,
                PinnedMsgId |-> 5, CanSetUsername |-> 6, CanSetStickers |-> 7, Stickerset |-> 8,
                AvailableMinId |-> 9, HiddenPrehistory |-> 10],
            [id |-> quint32, participants |-> Tl("ChatParticipants"), chatPhoto |-> Tl("Photo"),
                notifySettings |-> Tl("PeerNotifySettings"),
                exportedInvite |-> Tl("ExportedChatInvite"), botInfo |-> Vector(Tl("BotInfo")),
                flags |-> quint32, about |-> QString, participantsCount |-> quint32,
                adminsCount |-> quint32, kickedCount |-> quint32, bannedCount |-> quint32,
                readInboxMaxId |-> quint32, readOutboxMaxId |-> quint32, unreadCount |-> quint32,
                migratedFromChatId |-> quint32, migratedFromMaxId |-> quint32,
                pinnedMsgId |-> quint32, stickerset |-> Tl("StickerSet"),
                availableMinId |-> quint32])]

\* The structs from TLChatInvite to TLContactsFound.
StructsFromChatInvite ==
  [ChatInvite |->
     Struct({"ChatInviteAlready", "ChatInvite"},
            [Channel |-> 0, Broadcast |-> 1, IsPublic |-> 2, Megagroup |-> 3, Participants |-> 4],
            [chat |-> Tl("Chat"), flags |-> quint32, title |-> QString,
                photo |-> Tl("ChatPhoto"), participantsCount |-> quint32,
                participants |-> Vector(Tl("User"))]),
   Config |->
     Struct({"Config"},
            [TmpSessions |-> 0, PhonecallsEnabled |-> 1, LangPackVersion |-> 2,
                SuggestedLangCode |-> 2],
            [flags |-> quint32, date |-> quint32, expires |-> quint32, testMode |-> bool,
                thisDc |-> quint32, dcOptions |-> Vector(Tl("DcOption")),
                chatSizeMax |-> quint32, megagroupSizeMax |-> quint32,
                forwardedCountMax |-> quint32, onlineUpdatePeriodMs |-> quint32,
                offlineBlurTimeoutMs |-> quint32, offlineIdleTimeoutMs |-> quint32,
                onlineCloudTimeoutMs |-> quint32, notifyCloudDelayMs |-> quint32,
                notifyDefaultDelayMs |-> quint32, chatBigSize |-> quint32,
                pushChatPeriodMs |-> quint32, pushChatLimit |-> quint32,
                savedGifsLimit |-> quint32, editTimeLimit |-> quint32, ratingEDecay |-> quint32,
                stickersRecentLimit |-> quint32, stickersFavedLimit |-> quint32,
                channelsReadMediaPeriod |-> quint32, tmpSessions |-> quint32,
                pinnedDialogsCountMax |-> quint32, callReceiveTimeoutMs |-> quint32,
                callRingTimeoutMs |-> quint32, callConnectTimeoutMs |-> quint32,
                callPacketTimeoutMs |-> quint32, meUrlPrefix |-> QString,
                suggestedLangCode |-> QString, langPackVersion |-> quint32,
                disabledFeatures |-> Vector(Tl("DisabledFeature"))]),
   ContactsBlocked |->
     Struct({"ContactsBlocked", "ContactsBlockedSlice"}, NoFlags,
            [blocked |-> Vector(Tl("ContactBlocked")), users |-> Vector(Tl("User")),
                count |-> quint32]),
   ContactsContacts |->
     Struct({"ContactsContactsNotModified", "ContactsContacts"}, NoFlags,
            [contacts |-> Vector(Tl("Contact")), savedCount |-> quint32,
                users |-> Vector(Tl("User"))]),
   ContactsFound |->
     Struct({"ContactsFound"}, NoFlags,
            [results |-> Vector(Tl("Peer")), chats |-> Vector(Tl("Chat")),
                users |-> Vector(Tl("User"))])]

\* The structs from TLContactsImportedContacts to TLDocument.
StructsFromContactsImportedContacts ==
  [ContactsImportedContacts |->
     Struct({"ContactsImportedContacts"}, NoFlags,
            [imported |-> Vector(Tl("ImportedContact")),
                popularInvites |-> Vector(Tl("PopularContact")),
                retryContacts |-> Vector(quint64), users |-> Vector(Tl("User"))]),
   ContactsLink |->
     Struct({"ContactsLink"}, NoFlags,
            [myLink |-> Tl("ContactLink"), foreignLink |-> Tl("ContactLink"),
                user |-> Tl("User")]),
   ContactsResolvedPeer |->
     Struct({"ContactsResolvedPeer"}, NoFlags,
            [peer |-> Tl("Peer"), chats |-> Vector(Tl("Chat")), users |-> Vector(Tl("User"))]),
   ContactsTopPeers |->
     Struct({"ContactsTopPeersNotModified", "ContactsTopPeers"}, NoFlags,
            [categories |-> Vector(Tl("TopPeerCategoryPeers")), chats |-> Vector(Tl("Chat")),
                users |-> Vector(Tl("User"))]),
   Dialog |->
     Struct({"Dialog"}, [Pts |-> 0, Draft |-> 1, Pinned |-> 2],
            [flags |-> quint32, peer |-> Tl("Peer"), topMessage |-> quint32,
                readInboxMaxId |-> quint32, readOutboxMaxId |-> quint32, unreadCount |-> quint32,
                unreadMentionsCount |-> quint32, notifySettings |-> Tl("PeerNotifySettings"),
                pts |-> quint32, draft |-> Tl("DraftMessage")]),
   Document |->
     Struct({"DocumentEmpty", "Document"}, NoFlags,
            [id |-> quint64, accessHash |-> quint64, date |-> quint32, mimeType |-> QString,
                size |-> quint32, thumb |-> Tl("PhotoSize"), dcId |-> quint32,
                version |-> quint32, attributes |-> Vector(Tl("DocumentAttribute"))])]

\* The structs from TLFoundGif to TLInputBotInlineMessage.
StructsFromFoundGif ==
  [FoundGif |->
     Struct({"FoundGif", "FoundGifCached"}, NoFlags,
            [url |-> QString, thumbUrl |-> QString, contentUrl |-> QString,
                contentType |-> QString, w |-> quint32, h |-> quint32, photo |-> Tl("Photo"),
                document |-> Tl("Document")]),
   Game |->
     Struct({"Game"}, [Document |-> 0],
            [flags |-> quint32, id |-> quint64, accessHash |-> quint64, shortName |-> QString,
                title |-> QString, description |-> QString, photo |-> Tl("Photo"),
                document |-> Tl("Document")]),
   HelpSupport |->
     Struct({"HelpSupport"}, NoFlags, [phoneNumber |-> QString, user |-> Tl("User")]),
   InputBotInlineMessage |->
     Struct({"InputBotInlineMessageMediaAuto", "InputBotInlineMessageText",
         "InputBotInlineMessageMediaGeo", "InputBotInlineMessageMediaVenue",
         "InputBotInlineMessageMediaContact", "InputBotInlineMessageGame"},
            [NoWebpage |-> 0, Entities |-> 1, ReplyMarkup |-> 2],
            [flags |-> quint32, caption |-> QString, replyMarkup |-> Tl("ReplyMarkup"),
                message |-> QString, entities |-> Vector(Tl("MessageEntity")),
                geoPoint |-> Tl("InputGeoPoint"), period |-> quint32, title |-> QString,
                address |-> QString, provider |-> QString, venueId |-> QString,
                phoneNumber |-> QString, firstName |-> QString, lastName |-> QString])]

\* The structs from TLInputBotInlineResult to TLInputMedia.
StructsFromInputBotInlineResult ==
  [InputBotInlineResult |->
     Struct({"InputBotInlineResult", "InputBotInlineResultPhoto", "InputBotInlineResultDocument",
         "InputBotInlineResultGame"},
            [Title |-> 1, Description |-> 2, Url |-> 3, ThumbUrl |-> 4, ContentType |-> 5,
                ContentUrl |-> 5, H |-> 6, W |-> 6, Duration |-> 7],
            [flags |-> quint32, id |-> QString, type |-> QString, title |-> QString,
                description |-> QString, url |-> QString, thumbUrl |-> QString,
                contentUrl |-> QString, contentType |-> QString, w |-> quint32, h |-> quint32,
                duration |-> quint32, sendMessage |-> Tl("InputBotInlineMessage"),
                photo |-> Tl("InputPhoto"), document |-> Tl("InputDocument"),
                shortName |-> QString]),
   InputMedia |->
     Struct({"InputMediaEmpty", "InputMediaUploadedPhoto", "InputMediaPhoto",
         "InputMediaGeoPoint", "InputMediaContact", "InputMediaUploadedDocument",
         "InputMediaDocument", "InputMediaVenue", "InputMediaGifExternal",
         "InputMediaPhotoExternal", "InputMediaDocumentExternal", "InputMediaGame",
         "InputMediaInvoice", "InputMediaGeoLive"},
            [Photo |-> 0, TtlSeconds0 |-> 0, Stickers |-> 0, TtlSeconds1 |-> 1, Thumb |-> 2,
                NosoundVideo |-> 3],
            [flags |-> quint32, file |-> Tl("InputFile"), caption |-> QString,
                stickers |-> Vector(Tl("InputDocument")), ttlSeconds |-> quint32,
                inputPhotoId |-> Tl("InputPhoto"), geoPoint |-> Tl("InputGeoPoint"),
                phoneNumber |-> QString, firstName |-> QString, lastName |-> QString,
                thumb |-> Tl("InputFile"), mimeType |-> QString,
                attributes |-> Vector(Tl("DocumentAttribute")),
                inputDocumentId |-> Tl("InputDocument"), title |-> QString, address |-> QString,
                provider |-> QString, venueId |-> QString, venueType |-> QString,
                url |-> QString, q |-> QString, inputGameId |-> Tl("InputGame"),
                description |-> QString, photo |-> Tl("InputWebDocument"),
                invoice |-> Tl("Invoice"), payload |-> QByteArray, startParam |-> QString,
                period |-> quint32])]

\* The structs from TLMessageAction to TLMessagesFoundGifs.
StructsFromMessageAction ==
  [MessageAction |->
     Struct({"MessageActionEmpty", "MessageActionChatCreate", "MessageActionChatEditTitle",
         "MessageActionChatEditPhoto", "MessageActionChatDeletePhoto",
         "MessageActionChatAddUser", "MessageActionChatDeleteUser",
         "MessageActionChatJoinedByLink", "MessageActionChannelCreate",
         "MessageActionChatMigrateTo", "MessageActionChannelMigrateFrom",
         "MessageActionPinMessage", "MessageActionHistoryClear", "MessageActionGameScore",
         "MessageActionPaymentSentMe", "MessageActionPaymentSent", "MessageActionPhoneCall",
         "MessageActionScreenshotTaken", "MessageActionCustomAction"},
            [Reason |-> 0, Info |-> 0, Duration |-> 1, ShippingOptionId |-> 1],
            [title |-> QString, users |-> Vector(quint32), photo |-> Tl("Photo"),
                userId |-> quint32, inviterId |-> quint32, channelId |-> quint32,
                chatId |-> quint32, gameId |-> quint64, score |-> quint32, flags |-> quint32,
                currency |-> QString, totalAmount |-> quint64, payload |-> QByteArray,
                info |-> Tl("PaymentRequestedInfo"), shippingOptionId |-> QString,
                charge |-> Tl("PaymentCharge"), callId |-> quint64,
                reason |-> Tl("PhoneCallDiscardReason"), duration |-> quint32,
                message |-> QString]),
   MessagesAllStickers |->
     Struct({"MessagesAllStickersNotModified", "MessagesAllStickers"}, NoFlags,
            [hash |-> quint32, sets |-> Vector(Tl("StickerSet"))]),
   MessagesChatFull |->
     Struct({"MessagesChatFull"}, NoFlags,
            [fullChat |-> Tl("ChatFull"), chats |-> Vector(Tl("Chat")),
                users |-> Vector(Tl("User"))]),
   MessagesChats |->
     Struct({"MessagesChats", "MessagesChatsSlice"}, NoFlags,
            [chats |-> Vector(Tl("Chat")), count |-> quint32]),
   MessagesFavedStickers |->
     Struct({"MessagesFavedStickersNotModified", "MessagesFavedStickers"}, NoFlags,
            [hash |-> quint32, packs |-> Vector(Tl("StickerPack")),
                stickers |-> Vector(Tl("Document"))]),
   MessagesFoundGifs |->
     Struct({"MessagesFoundGifs"}, NoFlags,
            [nextOffset |-> quint32, results |-> Vector(Tl("FoundGif"))])]

\* The structs from TLMessagesHighScores to TLMessagesStickers.
StructsFromMessagesHighScores ==
  [MessagesHighScores |->
     Struct({"MessagesHighScores"}, NoFlags,
            [scores |-> Vector(Tl("HighScore")), users |-> Vector(Tl("User"))]),
   MessagesRecentStickers |->
     Struct({"MessagesRecentStickersNotModified", "MessagesRecentStickers"}, NoFlags,
            [hash |-> quint32, stickers |-> Vector(Tl("Document"))]),
   MessagesSavedGifs |->
     Struct({"MessagesSavedGifsNotModified", "MessagesSavedGifs"}, NoFlags,
            [hash |-> quint32, gifs |-> Vector(Tl("Document"))]),
   MessagesStickerSet |->
     Struct({"MessagesStickerSet"}, NoFlags,
            [set |-> Tl("StickerSet"), packs |-> Vector(Tl("StickerPack")),
                documents |-> Vector(Tl("Document"))]),
   MessagesStickers |->
     Struct({"MessagesStickersNotModified", "MessagesStickers"}, NoFlags,
            [hash |-> QString, stickers |-> Vector(Tl("Document"))])]

\* The structs from TLPageBlock to TLPaymentsPaymentReceipt.
StructsFromPageBlock ==
  [PageBlock |->
     Struct({"PageBlockUnsupported", "PageBlockTitle", "PageBlockSubtitle",
         "PageBlockAuthorDate", "PageBlockHeader", "PageBlockSubheader", "PageBlockParagraph",
         "PageBlockPreformatted", "PageBlockFooter", "PageBlockDivider", "PageBlockAnchor",
         "PageBlockList", "PageBlockBlockquote", "PageBlockPullquote", "PageBlockPhoto",
         "PageBlockVideo", "PageBlockCover", "PageBlockEmbed", "PageBlockEmbedPost",
         "PageBlockCollage", "PageBlockSlideshow", "PageBlockChannel", "PageBlockAudio"},
            [FullWidth |-> 0, Autoplay |-> 0, Url |-> 1, Loop |-> 1, Html |-> 2,
                AllowScrolling |-> 3, PosterPhotoId |-> 4],
            [text |-> Ptr(Tl("RichText")), richTextAuthor |-> Ptr(Tl("RichText")),
                publishedDate |-> quint32, language |-> QString, name |-> QString,
                ordered |-> bool, richTextItemsVector |-> Vector(Ptr(Tl("RichText"))),
                caption |-> Ptr(Tl("RichText")), photoId |-> quint64, flags |-> quint32,
                videoId |-> quint64, cover |-> Ptr(Tl("PageBlock")), url |-> QString,
                html |-> QString, posterPhotoId |-> quint64, w |-> quint32, h |-> quint32,
                webpageId |-> quint64, authorPhotoId |-> quint64, stringAuthor |-> QString,
                date |-> quint32, blocks |-> Vector(Ptr(Tl("PageBlock"))),
                pageBlockItemsVector |-> Vector(Ptr(Tl("PageBlock"))), channel |-> Tl("Chat"),
                audioId |-> quint64]),
   PaymentsPaymentForm |->
     Struct({"PaymentsPaymentForm"},
            [SavedInfo |-> 0, SavedCredentials |-> 1, CanSaveCredentials |-> 2,
                PasswordMissing |-> 3, NativeParams |-> 4, NativeProvider |-> 4],
            [flags |-> quint32, botId |-> quint32, invoice |-> Tl("Invoice"),
                providerId |-> quint32, url |-> QString, nativeProvider |-> QString,
                nativeParams |-> Tl("DataJSON"), savedInfo |-> Tl("PaymentRequestedInfo"),
                savedCredentials |-> Tl("PaymentSavedCredentials"),
                users |-> Vector(Tl("User"))]),
   PaymentsPaymentReceipt |->
     Struct({"PaymentsPaymentReceipt"}, [Info |-> 0, Shipping |-> 1],
            [flags |-> quint32, date |-> quint32, botId |-> quint32, invoice |-> Tl("Invoice"),
                providerId |-> quint32, info |-> Tl("PaymentRequestedInfo"),
                shipping |-> Tl("ShippingOption"), currency |-> QString, totalAmount |-> quint64,
                credentialsTitle |-> QString, users |-> Vector(Tl("User"))])]

\* The structs from TLPhoneCall to TLStickerSetCovered.
StructsFromPhoneCall ==
  [PhoneCall |->
     Struct({"PhoneCallEmpty", "PhoneCallWaiting", "PhoneCallRequested", "PhoneCallAccepted",
         "PhoneCall", "PhoneCallDiscarded"},
            [Reason |-> 0, ReceiveDate |-> 0, Duration |-> 1, NeedRating |-> 2, NeedDebug |-> 3],
            [id |-> quint64, flags |-> quint32, accessHash |-> quint64, date |-> quint32,
                adminId |-> quint32, participantId |-> quint32,
                protocol |-> Tl("PhoneCallProtocol"), receiveDate |-> quint32,
                gAHash |-> QByteArray, gB |-> QByteArray, gAOrB |-> QByteArray,
                keyFingerprint |-> quint64, connection |-> Tl("PhoneConnection"),
                alternativeConnections |-> Vector(Tl("PhoneConnection")), startDate |-> quint32,
                reason |-> Tl("PhoneCallDiscardReason"), duration |-> quint32]),
   PhonePhoneCall |->
     Struct({"PhonePhoneCall"}, NoFlags,
            [phoneCall |-> Tl("PhoneCall"), users |-> Vector(Tl("User"))]),
   PhotosPhoto |->
     Struct({"PhotosPhoto"}, NoFlags, [photo |-> Tl("Photo"), users |-> Vector(Tl("User"))]),
   PhotosPhotos |->
     Struct({"PhotosPhotos", "PhotosPhotosSlice"}, NoFlags,
            [photos |-> Vector(Tl("Photo")), users |-> Vector(Tl("User")), count |-> quint32]),
   StickerSetCovered |->
     Struct({"StickerSetCovered", "StickerSetMultiCovered"}, NoFlags,
            [set |-> Tl("StickerSet"), cover |-> Tl("Document"),
                covers |-> Vector(Tl("Document"))])]

\* The structs from TLUserFull to TLMessagesFeaturedStickers.
StructsFromUserFull ==
  [UserFull |->
     Struct({"UserFull"},
            [Blocked |-> 0, About |-> 1, ProfilePhoto |-> 2, BotInfo |-> 3,
                PhoneCallsAvailable |-> 4, PhoneCallsPrivate |-> 5],
            [flags |-> quint32, user |-> Tl("User"), about |-> QString,
                link |-> Tl("ContactsLink"), profilePhoto |-> Tl("Photo"),
                notifySettings |-> Tl("PeerNotifySettings"), botInfo |-> Tl("BotInfo"),
                commonChatsCount |-> quint32]),
   BotInlineResult |->
     Struct({"BotInlineResult", "BotInlineMediaResult"},
            [Photo |-> 0, Document |-> 1, Title1 |-> 1, Title2 |-> 2, Description2 |-> 2,
                Description3 |-> 3, Url |-> 3, ThumbUrl |-> 4, ContentType |-> 5,
                ContentUrl |-> 5, H |-> 6, W |-> 6, Duration |-> 7],
            [flags |-> quint32, id |-> QString, type |-> QString, title |-> QString,
                description |-> QString, url |-> QString, thumbUrl |-> QString,
                contentUrl |-> QString, contentType |-> QString, w |-> quint32, h |-> quint32,
                duration |-> quint32, sendMessage |-> Tl("BotInlineMessage"),
                photo |-> Tl("Photo"), document |-> Tl("Document")]),
   MessagesArchivedStickers |->
     Struct({"MessagesArchivedStickers"}, NoFlags,
            [count |-> quint32, sets |-> Vector(Tl("StickerSetCovered"))]),
   MessagesBotResults |->
     Struct({"MessagesBotResults"}, [Gallery |-> 0, NextOffset |-> 1, SwitchPm |-> 2],
            [flags |-> quint32, queryId |-> quint64, nextOffset |-> QString,
                switchPm |-> Tl("InlineBotSwitchPM"), results |-> Vector(Tl("BotInlineResult")),
                cacheTime |-> quint32, users |-> Vector(Tl("User"))]),
   MessagesFeaturedStickers |->
     Struct({"MessagesFeaturedStickersNotModified", "MessagesFeaturedStickers"}, NoFlags,
            [hash |-> quint32, sets |-> Vector(Tl("StickerSetCovered")),
                unread |-> Vector(quint64)])]

\* The structs from TLMessagesStickerSetInstallResult to TLHelpRecentMeUrls.
StructsFromMessagesStickerSetInstallResult ==
  [MessagesStickerSetInstallResult |->
     Struct({"MessagesStickerSetInstallResultSuccess", "MessagesStickerSetInstallResultArchive"},
            NoFlags,
            [sets |-> Vector(Tl("StickerSetCovered"))]),
   Page |->
     Struct({"PagePart", "PageFull"}, NoFlags,
            [blocks |-> Vector(Ptr(Tl("PageBlock"))), photos |-> Vector(Tl("Photo")),
                documents |-> Vector(Tl("Document"))]),
   RecentMeUrl |->
     Struct({"RecentMeUrlUnknown", "RecentMeUrlUser", "RecentMeUrlChat", "RecentMeUrlChatInvite",
         "RecentMeUrlStickerSet"},
            NoFlags,
            [url |-> QString, userId |-> quint32, chatId |-> quint32,
                chatInvite |-> Tl("ChatInvite"), set |-> Tl("StickerSetCovered")]),
   WebPage |->
     Struct({"WebPageEmpty", "WebPagePending", "WebPage", "WebPageNotModified"},
            [Type |-> 0, SiteName |-> 1, Title |-> 2, Description |-> 3, Photo |-> 4,
                EmbedType |-> 5, EmbedUrl |-> 5, EmbedHeight |-> 6, EmbedWidth |-> 6,
                Duration |-> 7, Author |-> 8, Document |-> 9, CachedPage |-> 10],
            [id |-> quint64, date |-> quint32, flags |-> quint32, url |-> QString,
                displayUrl |-> QString, hash |-> quint32, type |-> QString, siteName |-> QString,
                title |-> QString, description |-> QString, photo |-> Tl("Photo"),
                embedUrl |-> QString, embedType |-> QString, embedWidth |-> quint32,
                embedHeight |-> quint32, duration |-> quint32, author |-> QString,
                document |-> Tl("Document"), cachedPage |-> Tl("Page")]),
   HelpRecentMeUrls |->
     Struct({"HelpRecentMeUrls"}, NoFlags,
            [urls |-> Vector(Tl("RecentMeUrl")), chats |-> Vector(Tl("Chat")),
                users |-> Vector(Tl("User"))])]

\* The structs from TLMessageMedia to TLMessagesDialogs.
StructsFromMessageMedia ==
  [MessageMedia |->
     Struct({"MessageMediaEmpty", "MessageMediaPhoto", "MessageMediaGeo", "MessageMediaContact",
         "MessageMediaUnsupported", "MessageMediaDocument", "MessageMediaWebPage",
         "MessageMediaVenue", "MessageMediaGame", "MessageMediaInvoice", "MessageMediaGeoLive"},
            [WebDocumentPhoto |-> 0, Document |-> 0, Photo |-> 0, ShippingAddressRequested |-> 1,
                Caption |-> 1, ReceiptMsgId |-> 2, TtlSeconds |-> 2, Test |-> 3],
            [flags |-> quint32, photo |-> Tl("Photo"), caption |-> QString,
                ttlSeconds |-> quint32, geo |-> Tl("GeoPoint"), phoneNumber |-> QString,
                firstName |-> QString, lastName |-> QString, userId |-> quint32,
                document |-> Tl("Document"), webpage |-> Tl("WebPage"), title |-> QString,
                address |-> QString, provider |-> QString, venueId |-> QString,
                venueType |-> QString, game |-> Tl("Game"), description |-> QString,
                webDocumentPhoto |-> Tl("WebDocument"), receiptMsgId |-> quint32,
                currency |-> QString, totalAmount |-> quint64, startParam |-> QString,
                period |-> quint32]),
   Message |->
     Struct({"MessageEmpty", "Message", "MessageService"},
            [Out |-> 1, FwdFrom |-> 2, ReplyToMsgId |-> 3, Mentioned |-> 4, MediaUnread |-> 5,
                ReplyMarkup |-> 6, Entities |-> 7, FromId |-> 8, Media |-> 9, Views |-> 10,
                ViaBotId |-> 11, Silent |-> 13, Post |-> 14, EditDate |-> 15, PostAuthor |-> 16],
            [id |-> quint32, flags |-> quint32, fromId |-> quint32, toId |-> Tl("Peer"),
                fwdFrom |-> Tl("MessageFwdHeader"), viaBotId |-> quint32,
                replyToMsgId |-> quint32, date |-> quint32, message |-> QString,
                media |-> Tl("MessageMedia"), replyMarkup |-> Tl("ReplyMarkup"),
                entities |-> Vector(Tl("MessageEntity")), views |-> quint32,
                editDate |-> quint32, postAuthor |-> QString, action |-> Tl("MessageAction")]),
   MessagesDialogs |->
     Struct({"MessagesDialogs", "MessagesDialogsSlice"}, NoFlags,
            [dialogs |-> Vector(Tl("Dialog")), messages |-> Vector(Tl("Message")),
                chats |-> Vector(Tl("Chat")), users |-> Vector(Tl("User")), count |-> quint32])]

\* The structs from TLMessagesMessages to TLMessagesPeerDialogs.
StructsFromMessagesMessages ==
  [MessagesMessages |->
     Struct({"MessagesMessages", "MessagesMessagesSlice", "MessagesChannelMessages",
         "MessagesMessagesNotModified"},
            NoFlags,
            [messages |-> Vector(Tl("Message")), chats |-> Vector(Tl("Chat")),
                users |-> Vector(Tl("User")), count |-> quint32, flags |-> quint32,
                pts |-> quint32]),
   MessagesPeerDialogs |->
     Struct({"MessagesPeerDialogs"}, NoFlags,
            [dialogs |-> Vector(Tl("Dialog")), messages |-> Vector(Tl("Message")),
                chats |-> Vector(Tl("Chat")), users |-> Vector(Tl("User")),
                state |-> Tl("UpdatesState")])]

StructsFromUpdate ==
  [Update |->
     Struct({"UpdateNewMessage", "UpdateMessageID", "UpdateDeleteMessages", "UpdateUserTyping",
         "UpdateChatUserTyping", "UpdateChatParticipants", "UpdateUserStatus", "UpdateUserName",
         "UpdateUserPhoto", "UpdateContactRegistered", "UpdateContactLink",
         "UpdateNewEncryptedMessage", "UpdateEncryptedChatTyping", "UpdateEncryption",
         "UpdateEncryptedMessagesRead", "UpdateChatParticipantAdd",
         "UpdateChatParticipantDelete", "UpdateDcOptions", "UpdateUserBlocked",
         "UpdateNotifySettings", "UpdateServiceNotification", "UpdatePrivacy", "UpdateUserPhone",
         "UpdateReadHistoryInbox", "UpdateReadHistoryOutbox", "UpdateWebPage",
         "UpdateReadMessagesContents", "UpdateChannelTooLong", "UpdateChannel",
         "UpdateNewChannelMessage", "UpdateReadChannelInbox", "UpdateDeleteChannelMessages",
         "UpdateChannelMessageViews", "UpdateChatAdmins", "UpdateChatParticipantAdmin",
         "UpdateNewStickerSet", "UpdateStickerSetsOrder", "UpdateStickerSets", "UpdateSavedGifs",
         "UpdateBotInlineQuery", "UpdateBotInlineSend", "UpdateEditChannelMessage",
         "UpdateChannelPinnedMessage", "UpdateBotCallbackQuery", "UpdateEditMessage",
         "UpdateInlineBotCallbackQuery", "UpdateReadChannelOutbox", "UpdateDraftMessage",
         "UpdateReadFeaturedStickers", "UpdateRecentStickers", "UpdateConfig",
         "UpdatePtsChanged", "UpdateChannelWebPage", "UpdateDialogPinned", "UpdatePinnedDialogs",
         "UpdateBotWebhookJSON", "UpdateBotWebhookJSONQuery", "UpdateBotShippingQuery",
         "UpdateBotPrecheckoutQuery", "UpdatePhoneCall", "UpdateLangPackTooLong",
         "UpdateLangPack", "UpdateFavedStickers", "UpdateChannelReadMessagesContents",
         "UpdateContactsReset", "UpdateChannelAvailableMessages"},
            [Info |-> 0, PeerOrderVector |-> 0, Pinned |-> 0, ByteArrayData |-> 0, Geo |-> 0,
                Masks |-> 0, Pts |-> 0, Popup |-> 0, ShippingOptionId |-> 1, GameShortName |-> 1,
                InputBotInlineMessageIDMsgId |-> 1, InboxDate |-> 1],
            [message |-> Tl("Message"), pts |-> quint32, ptsCount |-> quint32,
                quint32Id |-> quint32, randomId |-> quint64, messages |-> Vector(quint32),
                userId |-> quint32, action |-> Tl("SendMessageAction"), chatId |-> quint32,
                participants |-> Tl("ChatParticipants"), status |-> Tl("UserStatus"),
                firstName |-> QString, lastName |-> QString, username |-> QString,
                date |-> quint32, photo |-> Tl("UserProfilePhoto"), previous |-> bool,
                myLink |-> Tl("ContactLink"), foreignLink |-> Tl("ContactLink"),
                encryptedMessage |-> Tl("EncryptedMessage"), qts |-> quint32,
                chat |-> Tl("EncryptedChat"), maxDate |-> quint32, inviterId |-> quint32,
                version |-> quint32, dcOptions |-> Vector(Tl("DcOption")), blocked |-> bool,
                notifyPeer |-> Tl("NotifyPeer"), notifySettings |-> Tl("PeerNotifySettings"),
                flags |-> quint32, inboxDate |-> quint32, type |-> QString,
                stringMessage |-> QString, media |-> Tl("MessageMedia"),
                entities |-> Vector(Tl("MessageEntity")), key |-> Tl("PrivacyKey"),
                rules |-> Vector(Tl("PrivacyRule")), phone |-> QString, peer |-> Tl("Peer"),
                maxId |-> quint32, webpage |-> Tl("WebPage"), channelId |-> quint32,
                views |-> quint32, enabled |-> bool, isAdmin |-> bool,
                stickerset |-> Tl("MessagesStickerSet"), quint64OrderVector |-> Vector(quint64),
                queryId |-> quint64, query |-> QString, geo |-> Tl("GeoPoint"),
                offset |-> QString, stringId |-> QString,
                inputBotInlineMessageIDMsgId |-> Tl("InputBotInlineMessageID"),
                msgId |-> quint32, chatInstance |-> quint64, byteArrayData |-> QByteArray,
                gameShortName |-> QString, draft |-> Tl("DraftMessage"),
                peerOrderVector |-> Vector(Tl("Peer")), jSONData |-> Tl("DataJSON"),
                timeout |-> quint32, payload |-> QByteArray,
                shippingAddress |-> Tl("PostAddress"), info |-> Tl("PaymentRequestedInfo"),
                shippingOptionId |-> QString, currency |-> QString, totalAmount |-> quint64,
                phoneCall |-> Tl("PhoneCall"), difference |-> Tl("LangPackDifference"),
                availableMinId |-> quint32])]

\* The structs from TLUpdates to TLUpdatesDifference.
StructsFromUpdates ==
  [Updates |->
     Struct({"UpdatesTooLong", "UpdateShortMessage", "UpdateShortChatMessage", "UpdateShort",
         "UpdatesCombined", "Updates", "UpdateShortSentMessage"},
            [Out |-> 1, FwdFrom |-> 2, ReplyToMsgId |-> 3, Mentioned |-> 4, MediaUnread |-> 5,
                Entities |-> 7, Media |-> 9, ViaBotId |-> 11, Silent |-> 13],
            [flags |-> quint32, id |-> quint32, userId |-> quint32, message |-> QString,
                pts |-> quint32, ptsCount |-> quint32, date |-> quint32,
                fwdFrom |-> Tl("MessageFwdHeader"), viaBotId |-> quint32,
                replyToMsgId |-> quint32, entities |-> Vector(Tl("MessageEntity")),
                fromId |-> quint32, chatId |-> quint32, update |-> Tl("Update"),
                updates |-> Vector(Tl("Update")), users |-> Vector(Tl("User")),
                chats |-> Vector(Tl("Chat")), seqStart |-> quint32, seq |-> quint32,
                media |-> Tl("MessageMedia")]),
   UpdatesChannelDifference |->
     Struct({"UpdatesChannelDifferenceEmpty", "UpdatesChannelDifferenceTooLong",
         "UpdatesChannelDifference"},
            [Final |-> 0, Timeout |-> 1],
            [flags |-> quint32, pts |-> quint32, timeout |-> quint32, topMessage |-> quint32,
                readInboxMaxId |-> quint32, readOutboxMaxId |-> quint32, unreadCount |-> quint32,
                unreadMentionsCount |-> quint32, messages |-> Vector(Tl("Message")),
                chats |-> Vector(Tl("Chat")), users |-> Vector(Tl("User")),
                newMessages |-> Vector(Tl("Message")), otherUpdates |-> Vector(Tl("Update"))]),
   UpdatesDifference |->
     Struct({"UpdatesDifferenceEmpty", "UpdatesDifference", "UpdatesDifferenceSlice",
         "UpdatesDifferenceTooLong"},
            NoFlags,
            [date |-> quint32, seq |-> quint32, newMessages |-> Vector(Tl("Message")),
                newEncryptedMessages |-> Vector(Tl("EncryptedMessage")),
                otherUpdates |-> Vector(Tl("Update")), chats |-> Vector(Tl("Chat")),
                users |-> Vector(Tl("User")), state |-> Tl("UpdatesState"),
                intermediateState |-> Tl("UpdatesState"), pts |-> quint32])]

\* The structs from TLChannelAdminLogEventAction to TLChannelsAdminLogResults.
StructsFromChannelAdminLogEventAction ==
  [ChannelAdminLogEventAction |->
     Struct({"ChannelAdminLogEventActionChangeTitle", "ChannelAdminLogEventActionChangeAbout",
         "ChannelAdminLogEventActionChangeUsername", "ChannelAdminLogEventActionChangePhoto",
         "ChannelAdminLogEventActionToggleInvites", "ChannelAdminLogEventActionToggleSignatures",
         "ChannelAdminLogEventActionUpdatePinned", "ChannelAdminLogEventActionEditMessage",
         "ChannelAdminLogEventActionDeleteMessage", "ChannelAdminLogEventActionParticipantJoin",
         "ChannelAdminLogEventActionParticipantLeave",
         "ChannelAdminLogEventActionParticipantInvite",
         "ChannelAdminLogEventActionParticipantToggleBan",
         "ChannelAdminLogEventActionParticipantToggleAdmin",
         "ChannelAdminLogEventActionChangeStickerSet",
         "ChannelAdminLogEventActionTogglePreHistoryHidden"},
            NoFlags,
            [prevValue |-> QString, stringNewValue |-> QString, prevPhoto |-> Tl("ChatPhoto"),
                newPhoto |-> Tl("ChatPhoto"), boolNewValue |-> bool, message |-> Tl("Message"),
                prevMessage |-> Tl("Message"), newMessage |-> Tl("Message"),
                participant |-> Tl("ChannelParticipant"),
                prevParticipant |-> Tl("ChannelParticipant"),
                newParticipant |-> Tl("ChannelParticipant"),
                prevStickerset |-> Tl("InputStickerSet"),
                newStickerset |-> Tl("InputStickerSet")]),
   PaymentsPaymentResult |->
     Struct({"PaymentsPaymentResult", "PaymentsPaymentVerficationNeeded"}, NoFlags,
            [updates |-> Tl("Updates"), url |-> QString]),
   ChannelAdminLogEvent |->
     Struct({"ChannelAdminLogEvent"}, NoFlags,
            [id |-> quint64, date |-> quint32, userId |-> quint32,
                action |-> Tl("ChannelAdminLogEventAction")]),
   ChannelsAdminLogResults |->
     Struct({"ChannelsAdminLogResults"}, NoFlags,
            [events |-> Vector(Tl("ChannelAdminLogEvent")), chats |-> Vector(Tl("Chat")),
                users |-> Vector(Tl("User"))])]

\* The structs by name.
Structs ==
  StructsFromAccountDaysTTL @@ StructsFromAuthPasswordRecovery @@ StructsFromCdnPublicKey
    @@ StructsFromContactLink @@ StructsFromEncryptedMessage @@ StructsFromHelpAppUpdate
    @@ StructsFromInputBotInlineMessageID @@ StructsFromInputFileLocation
    @@ StructsFromInputStickerSet @@ StructsFromLangPackString
    @@ StructsFromMessagesAffectedMessages @@ StructsFromMsgsStateReq
    @@ StructsFromPhoneCallDiscardReason @@ StructsFromPrivacyRule @@ StructsFromRichText
    @@ StructsFromSetClientDHParamsAnswer @@ StructsFromUpdatesState
    @@ StructsFromAccountAuthorizations @@ StructsFromChannelBannedRights @@ StructsFromDcOption
    @@ StructsFromInputGame @@ StructsFromInputWebDocument @@ StructsFromMessagesFilter
    @@ StructsFromPeerNotifySettings @@ StructsFromStickerSet @@ StructsFromAuthAuthorization
    @@ StructsFromChat @@ StructsFromChatInvite @@ StructsFromContactsImportedContacts
    @@ StructsFromFoundGif @@ StructsFromInputBotInlineResult @@ StructsFromMessageAction
    @@ StructsFromMessagesHighScores @@ StructsFromPageBlock @@ StructsFromPhoneCall
    @@ StructsFromUserFull @@ StructsFromMessagesStickerSetInstallResult
    @@ StructsFromMessageMedia @@ StructsFromMessagesMessages @@ StructsFromUpdate
    @@ StructsFromUpdates @@ StructsFromChannelAdminLogEventAction
=============================================================================
