----------------------------- MODULE TlReaders -----------------------------
(***************************************************************************)
(* The operators that read a TL value (operator>> of Stream): by           *)
(* constructor, the members that are read and in which order. The default  *)
(* branch reads nothing.                                                   *)
(***************************************************************************)
EXTENDS TlStream

\* The operators from TLAccountDaysTTL to TLAuthCheckedPhone.
ReadersFromAccountDaysTTL ==
  [AccountDaysTTL |-> [AccountDaysTTL |-> Fields(<<"days">>)],
   AccountPassword |->
     [AccountNoPassword |-> Fields(<<"newSalt", "emailUnconfirmedPattern">>),
       AccountPassword |-> Fields(<<"currentSalt", "newSalt", "hint", "hasRecovery",
           "emailUnconfirmedPattern">>)],
   AccountPasswordInputSettings |->
     [AccountPasswordInputSettings |-> Fields(<<"flags">>) \o When("NewSalt", "newSalt")
           \o When("NewPasswordHash", "newPasswordHash") \o When("Hint", "hint")
           \o When("Email", "email")],
   AccountPasswordSettings |-> [AccountPasswordSettings |-> Fields(<<"email">>)],
   AccountTmpPassword |-> [AccountTmpPassword |-> Fields(<<"tmpPassword", "validUntil">>)],
   AuthCheckedPhone |-> [AuthCheckedPhone |-> Fields(<<"phoneRegistered">>)]]

\* The operators from TLAuthCodeType to TLBadMsgNotification.
ReadersFromAuthCodeType ==
  [AuthCodeType |->
     Cases({"AuthCodeTypeSms", "AuthCodeTypeCall", "AuthCodeTypeFlashCall"}, Nothing),
   AuthExportedAuthorization |-> [AuthExportedAuthorization |-> Fields(<<"id", "bytes">>)],
   AuthPasswordRecovery |-> [AuthPasswordRecovery |-> Fields(<<"emailPattern">>)],
   AuthSentCodeType |->
     Cases({"AuthSentCodeTypeApp", "AuthSentCodeTypeSms", "AuthSentCodeTypeCall"},
             Fields(<<"length">>))
     @@ [AuthSentCodeTypeFlashCall |-> Fields(<<"pattern">>)],
   Authorization |->
     [Authorization |-> Fields(<<"hash", "flags", "deviceModel", "platform", "systemVersion",
         "apiId", "appName", "appVersion", "dateCreated", "dateActive", "ip", "country",
             "region">>)],
   BadMsgNotification |->
     [BadMsgNotification |-> Fields(<<"badMsgId", "badMsgSeqno", "errorCode">>),
       BadServerSalt |-> Fields(<<"badMsgId", "badMsgSeqno", "errorCode", "newServerSalt">>)]]

\* The operators from TLBotCommand to TLChatParticipant.
ReadersFromBotCommand ==
  [BotCommand |-> [BotCommand |-> Fields(<<"command", "description">>)],
   BotInfo |-> [BotInfo |-> Fields(<<"userId", "description", "commands">>)],
   CdnFileHash |-> [CdnFileHash |-> Fields(<<"offset", "limit", "hash">>)],
   CdnPublicKey |-> [CdnPublicKey |-> Fields(<<"dcId", "publicKey">>)],
   ChannelParticipantsFilter |->
     Cases({"ChannelParticipantsRecent", "ChannelParticipantsAdmins", "ChannelParticipantsBots"},
             Nothing)
     @@ Cases({"ChannelParticipantsKicked", "ChannelParticipantsBanned",
         "ChannelParticipantsSearch"},
             Fields(<<"q">>)),
   ChatParticipant |->
     Cases({"ChatParticipant", "ChatParticipantAdmin"}, Fields(<<"userId", "inviterId", "date">>))
     @@ [ChatParticipantCreator |-> Fields(<<"userId">>)]]

\* The operators from TLChatParticipants to TLDestroyAuthKeyRes.
ReadersFromChatParticipants ==
  [ChatParticipants |->
     [ChatParticipantsForbidden |-> Fields(<<"flags", "chatId">>) \o When("SelfParticipant",
         "selfParticipant"),
       ChatParticipants |-> Fields(<<"chatId", "participants", "version">>)],
   ClientDHInnerData |->
     [ClientDHInnerData |-> Fields(<<"nonce", "serverNonce", "retryId", "gB">>)],
   Contact |-> [Contact |-> Fields(<<"userId", "mutual">>)],
   ContactBlocked |-> [ContactBlocked |-> Fields(<<"userId", "date">>)],
   ContactLink |->
     Cases({"ContactLinkUnknown", "ContactLinkNone", "ContactLinkHasPhone", "ContactLinkContact"},
             Nothing),
   DataJSON |-> [DataJSON |-> Fields(<<"data">>)],
   DestroyAuthKeyRes |->
     Cases({"DestroyAuthKeyOk", "DestroyAuthKeyNone", "DestroyAuthKeyFail"}, Nothing)]

\* The operators from TLDestroySessionRes to TLEncryptedMessage.
ReadersFromDestroySessionRes ==
  [DestroySessionRes |->
     Cases({"DestroySessionOk", "DestroySessionNone"}, Fields(<<"sessionId">>)),
   DisabledFeature |-> [DisabledFeature |-> Fields(<<"feature", "description">>)],
   EncryptedChat |->
     Cases({"EncryptedChatEmpty", "EncryptedChatDiscarded"}, Fields(<<"id">>))
     @@ [EncryptedChatWaiting |-> Fields(<<"id", "accessHash", "date", "adminId",
         "participantId">>),
       EncryptedChatRequested |-> Fields(<<"id", "accessHash", "date", "adminId", "participantId",
           "gA">>),
       EncryptedChat |-> Fields(<<"id", "accessHash", "date", "adminId", "participantId", "gAOrB",
           "keyFingerprint">>)],
   EncryptedFile |->
     [EncryptedFileEmpty |-> Nothing,
       EncryptedFile |-> Fields(<<"id", "accessHash", "size", "dcId", "keyFingerprint">>)],
   EncryptedMessage |->
     [EncryptedMessage |-> Fields(<<"randomId", "chatId", "date", "bytes", "file">>),
       EncryptedMessageService |-> Fields(<<"randomId", "chatId", "date", "bytes">>)]]

\* The operators from TLError to TLGeoPoint.
ReadersFromError ==
  [Error |-> [Error |-> Fields(<<"code", "text">>)],
   ExportedChatInvite |->
     [ChatInviteEmpty |-> Nothing, ChatInviteExported |-> Fields(<<"link">>)],
   ExportedMessageLink |-> [ExportedMessageLink |-> Fields(<<"link">>)],
   FileLocation |->
     [FileLocationUnavailable |-> Fields(<<"volumeId", "localId", "secret">>),
       FileLocation |-> Fields(<<"dcId", "volumeId", "localId", "secret">>)],
   FutureSalt |-> [FutureSalt |-> Fields(<<"validSince", "validUntil", "salt">>)],
   FutureSalts |-> [FutureSalts |-> Fields(<<"reqMsgId", "now", "salts">>)],
   GeoPoint |-> [GeoPointEmpty |-> Nothing, GeoPoint |-> Fields(<<"longitude", "latitude">>)]]

\* The operators from TLHelpAppUpdate to TLInlineBotSwitchPM.
ReadersFromHelpAppUpdate ==
  [HelpAppUpdate |->
     [HelpAppUpdate |-> Fields(<<"id", "critical", "url", "text">>), HelpNoAppUpdate |-> Nothing],
   HelpInviteText |-> [HelpInviteText |-> Fields(<<"message">>)],
   HelpTermsOfService |-> [HelpTermsOfService |-> Fields(<<"text">>)],
   HighScore |-> [HighScore |-> Fields(<<"pos", "userId", "score">>)],
   HttpWait |-> [HttpWait |-> Fields(<<"maxDelay", "waitAfter", "maxWait">>)],
   ImportedContact |-> [ImportedContact |-> Fields(<<"userId", "clientId">>)],
   InlineBotSwitchPM |-> [InlineBotSwitchPM |-> Fields(<<"text", "startParam">>)]]

\* The operators from TLInputAppEvent to TLInputEncryptedChat.
ReadersFromInputAppEvent ==
  [InputAppEvent |-> [InputAppEvent |-> Fields(<<"time", "type", "peer", "data">>)],
   InputBotInlineMessageID |->
     [InputBotInlineMessageID |-> Fields(<<"dcId", "id", "accessHash">>)],
   InputChannel |->
     [InputChannelEmpty |-> Nothing, InputChannel |-> Fields(<<"channelId", "accessHash">>)],
   InputContact |->
     [InputPhoneContact |-> Fields(<<"clientId", "phone", "firstName", "lastName">>)],
   InputDocument |->
     [InputDocumentEmpty |-> Nothing, InputDocument |-> Fields(<<"id", "accessHash">>)],
   InputEncryptedChat |-> [InputEncryptedChat |-> Fields(<<"chatId", "accessHash">>)]]

\* The operators from TLInputEncryptedFile to TLInputPeer.
ReadersFromInputEncryptedFile ==
  [InputEncryptedFile |->
     [InputEncryptedFileEmpty |-> Nothing,
       InputEncryptedFileUploaded |-> Fields(<<"id", "parts", "md5Checksum", "keyFingerprint">>),
       InputEncryptedFile |-> Fields(<<"id", "accessHash">>),
       InputEncryptedFileBigUploaded |-> Fields(<<"id", "parts", "keyFingerprint">>)],
   InputFile |->
     [InputFile |-> Fields(<<"id", "parts", "name", "md5Checksum">>),
       InputFileBig |-> Fields(<<"id", "parts", "name">>)],
   InputFileLocation |->
     [InputFileLocation |-> Fields(<<"volumeId", "localId", "secret">>),
       InputEncryptedFileLocation |-> Fields(<<"id", "accessHash">>),
       InputDocumentFileLocation |-> Fields(<<"id", "accessHash", "version">>)],
   InputGeoPoint |->
     [InputGeoPointEmpty |-> Nothing, InputGeoPoint |-> Fields(<<"latitude", "longitude">>)],
   InputPeer |->
     Cases({"InputPeerEmpty", "InputPeerSelf"}, Nothing)
     @@ [InputPeerChat |-> Fields(<<"chatId">>), InputPeerUser |-> Fields(<<"userId",
         "accessHash">>),
       InputPeerChannel |-> Fields(<<"channelId", "accessHash">>)]]

\* The operators from TLInputPeerNotifyEvents to TLInputUser.
ReadersFromInputPeerNotifyEvents ==
  [InputPeerNotifyEvents |->
     Cases({"InputPeerNotifyEventsEmpty", "InputPeerNotifyEventsAll"}, Nothing),
   InputPhoneCall |-> [InputPhoneCall |-> Fields(<<"id", "accessHash">>)],
   InputPhoto |->
     [InputPhotoEmpty |-> Nothing, InputPhoto |-> Fields(<<"id", "accessHash">>)],
   InputPrivacyKey |->
     Cases({"InputPrivacyKeyStatusTimestamp", "InputPrivacyKeyChatInvite",
         "InputPrivacyKeyPhoneCall"},
             Nothing),
   InputStickerSet |->
     [InputStickerSetEmpty |-> Nothing, InputStickerSetID |-> Fields(<<"id", "accessHash">>),
       InputStickerSetShortName |-> Fields(<<"shortName">>)],
   InputStickeredMedia |->
     [InputStickeredMediaPhoto |-> Fields(<<"inputPhotoId">>),
       InputStickeredMediaDocument |-> Fields(<<"inputDocumentId">>)],
   InputUser |->
     Cases({"InputUserEmpty", "InputUserSelf"}, Nothing)
     @@ [InputUser |-> Fields(<<"userId", "accessHash">>)]]

\* The operators from TLInputWebFileLocation to TLMaskCoords.
ReadersFromInputWebFileLocation ==
  [InputWebFileLocation |-> [InputWebFileLocation |-> Fields(<<"url", "accessHash">>)],
   IpPort |-> [IpPort |-> Fields(<<"ipv4", "port">>)],
   LabeledPrice |-> [LabeledPrice |-> Fields(<<"label", "amount">>)],
   LangPackLanguage |-> [LangPackLanguage |-> Fields(<<"name", "nativeName", "langCode">>)],
   LangPackString |->
     [LangPackString |-> Fields(<<"key", "value">>),
       LangPackStringPluralized |-> Fields(<<"flags", "key">>) \o When("ZeroValue", "zeroValue")
           \o When("OneValue", "oneValue") \o When("TwoValue", "twoValue")
           \o When("FewValue", "fewValue") \o When("ManyValue", "manyValue")
           \o Fields(<<"otherValue">>),
       LangPackStringDeleted |-> Fields(<<"key">>)],
   MaskCoords |-> [MaskCoords |-> Fields(<<"n", "x", "y", "zoom">>)]]

\* The operators from TLMessageEntity to TLMessagesAffectedMessages.
ReadersFromMessageEntity ==
  [MessageEntity |->
     Cases({"MessageEntityUnknown", "MessageEntityMention", "MessageEntityHashtag",
         "MessageEntityBotCommand", "MessageEntityUrl", "MessageEntityEmail", "MessageEntityBold",
         "MessageEntityItalic", "MessageEntityCode"},
             Fields(<<"offset", "length">>))
     @@ [MessageEntityPre |-> Fields(<<"offset", "length", "language">>),
       MessageEntityTextUrl |-> Fields(<<"offset", "length", "url">>),
       MessageEntityMentionName |-> Fields(<<"offset", "length", "userId">>),
       InputMessageEntityMentionName |-> Fields(<<"offset", "length", "inputUserUserId">>)],
   MessageFwdHeader |->
     [MessageFwdHeader |-> Fields(<<"flags">>) \o When("FromId", "fromId") \o Fields(<<"date">>)
           \o When("ChannelId", "channelId") \o When("ChannelPost", "channelPost")
           \o When("PostAuthor", "postAuthor")],
   MessageRange |-> [MessageRange |-> Fields(<<"minId", "maxId">>)],
   MessagesAffectedHistory |->
     [MessagesAffectedHistory |-> Fields(<<"pts", "ptsCount", "offset">>)],
   MessagesAffectedMessages |-> [MessagesAffectedMessages |-> Fields(<<"pts", "ptsCount">>)]]

\* The operators from TLMessagesDhConfig to TLMsgsAllInfo.
ReadersFromMessagesDhConfig ==
  [MessagesDhConfig |->
     [MessagesDhConfigNotModified |-> Fields(<<"random">>),
       MessagesDhConfig |-> Fields(<<"g", "p", "version", "random">>)],
   MessagesSentEncryptedMessage |->
     [MessagesSentEncryptedMessage |-> Fields(<<"date">>),
       MessagesSentEncryptedFile |-> Fields(<<"date", "file">>)],
   MsgDetailedInfo |->
     [MsgDetailedInfo |-> Fields(<<"msgId", "answerMsgId", "bytes", "status">>),
       MsgNewDetailedInfo |-> Fields(<<"answerMsgId", "bytes", "status">>)],
   MsgResendReq |-> [MsgResendReq |-> Fields(<<"msgIds">>)],
   MsgsAck |-> [MsgsAck |-> Fields(<<"msgIds">>)],
   MsgsAllInfo |-> [MsgsAllInfo |-> Fields(<<"msgIds", "info">>)]]

\* The operators from TLMsgsStateInfo to TLPaymentSavedCredentials.
ReadersFromMsgsStateInfo ==
  [MsgsStateInfo |-> [MsgsStateInfo |-> Fields(<<"reqMsgId", "info">>)],
   MsgsStateReq |-> [MsgsStateReq |-> Fields(<<"msgIds">>)],
   NearestDc |-> [NearestDc |-> Fields(<<"country", "thisDc", "nearestDc">>)],
   NewSession |-> [NewSessionCreated |-> Fields(<<"firstMsgId", "uniqueId", "serverSalt">>)],
   PQInnerData |->
     [PQInnerData |-> Fields(<<"pq", "p", "q", "nonce", "serverNonce", "newNonce">>)],
   PaymentCharge |-> [PaymentCharge |-> Fields(<<"id", "providerChargeId">>)],
   PaymentSavedCredentials |-> [PaymentSavedCredentialsCard |-> Fields(<<"id", "title">>)]]

\* The operators from TLPeer to TLPong.
ReadersFromPeer ==
  [Peer |->
     [PeerUser |-> Fields(<<"userId">>), PeerChat |-> Fields(<<"chatId">>),
       PeerChannel |-> Fields(<<"channelId">>)],
   PeerNotifyEvents |-> Cases({"PeerNotifyEventsEmpty", "PeerNotifyEventsAll"}, Nothing),
   PhoneCallDiscardReason |->
     Cases({"PhoneCallDiscardReasonMissed", "PhoneCallDiscardReasonDisconnect",
         "PhoneCallDiscardReasonHangup", "PhoneCallDiscardReasonBusy"},
             Nothing),
   PhoneConnection |->
     [PhoneConnection |-> Fields(<<"id", "ip", "ipv6", "port", "peerTag">>)],
   PhotoSize |->
     [PhotoSizeEmpty |-> Fields(<<"type">>),
       PhotoSize |-> Fields(<<"type", "location", "w", "h", "size">>),
       PhotoCachedSize |-> Fields(<<"type", "location", "w", "h", "bytes">>)],
   Pong |-> [Pong |-> Fields(<<"msgId", "pingId">>)]]

\* The operators from TLPopularContact to TLReportReason.
ReadersFromPopularContact ==
  [PopularContact |-> [PopularContact |-> Fields(<<"clientId", "importers">>)],
   PostAddress |->
     [PostAddress |-> Fields(<<"streetLine1", "streetLine2", "city", "state", "countryIso2",
         "postCode">>)],
   PrivacyKey |->
     Cases({"PrivacyKeyStatusTimestamp", "PrivacyKeyChatInvite", "PrivacyKeyPhoneCall"}, Nothing),
   PrivacyRule |->
     Cases({"PrivacyValueAllowContacts", "PrivacyValueAllowAll", "PrivacyValueDisallowContacts",
         "PrivacyValueDisallowAll"},
             Nothing)
     @@ Cases({"PrivacyValueAllowUsers", "PrivacyValueDisallowUsers"}, Fields(<<"users">>)),
   ReceivedNotifyMessage |-> [ReceivedNotifyMessage |-> Fields(<<"id", "flags">>)],
   ReportReason |->
     Cases({"InputReportReasonSpam", "InputReportReasonViolence", "InputReportReasonPornography"},
             Nothing)
     @@ [InputReportReasonOther |-> Fields(<<"text">>)]]

\* The operators from TLResPQ to TLSendMessageAction.
ReadersFromResPQ ==
  [ResPQ |->
     [ResPQ |-> Fields(<<"nonce", "serverNonce", "pq", "serverPublicKeyFingerprints">>)],
   RichText |->
     Cases({"TextBold", "TextItalic", "TextUnderline", "TextStrike", "TextFixed"},
             Fields(<<"richText">>))
     @@ [TextEmpty |-> Nothing, TextPlain |-> Fields(<<"stringText">>),
       TextUrl |-> Fields(<<"richText", "url", "webpageId">>),
       TextEmail |-> Fields(<<"richText", "email">>), TextConcat |-> Fields(<<"texts">>)],
   RpcDropAnswer |->
     Cases({"RpcAnswerUnknown", "RpcAnswerDroppedRunning"}, Nothing)
     @@ [RpcAnswerDropped |-> Fields(<<"msgId", "seqNo", "bytes">>)],
   RpcError |-> [RpcError |-> Fields(<<"errorCode", "errorMessage">>)],
   SendMessageAction |->
     Cases({"SendMessageTypingAction", "SendMessageCancelAction", "SendMessageRecordVideoAction",
         "SendMessageRecordAudioAction", "SendMessageGeoLocationAction",
         "SendMessageChooseContactAction", "SendMessageGamePlayAction",
         "SendMessageRecordRoundAction"},
             Nothing)
     @@ Cases({"SendMessageUploadVideoAction", "SendMessageUploadAudioAction",
         "SendMessageUploadPhotoAction", "SendMessageUploadDocumentAction",
         "SendMessageUploadRoundAction"},
             Fields(<<"progress">>))]

\* The operators from TLServerDHInnerData to TLStorageFileType.
ReadersFromServerDHInnerData ==
  [ServerDHInnerData |->
     [ServerDHInnerData |-> Fields(<<"nonce", "serverNonce", "g", "dhPrime", "gA",
         "serverTime">>)],
   ServerDHParams |->
     [ServerDHParamsFail |-> Fields(<<"nonce", "serverNonce", "newNonceHash">>),
       ServerDHParamsOk |-> Fields(<<"nonce", "serverNonce", "encryptedAnswer">>)],
   SetClientDHParamsAnswer |->
     [DhGenOk |-> Fields(<<"nonce", "serverNonce", "newNonceHash1">>),
       DhGenRetry |-> Fields(<<"nonce", "serverNonce", "newNonceHash2">>),
       DhGenFail |-> Fields(<<"nonce", "serverNonce", "newNonceHash3">>)],
   ShippingOption |-> [ShippingOption |-> Fields(<<"id", "title", "prices">>)],
   StickerPack |-> [StickerPack |-> Fields(<<"emoticon", "documents">>)],
   StorageFileType |->
     Cases({"StorageFileUnknown", "StorageFilePartial", "StorageFileJpeg", "StorageFileGif",
         "StorageFilePng", "StorageFilePdf", "StorageFileMp3", "StorageFileMov", "StorageFileMp4",
         "StorageFileWebp"},
             Nothing)]

\* The operators from TLTopPeer to TLUploadFile.
ReadersFromTopPeer ==
  [TopPeer |-> [TopPeer |-> Fields(<<"peer", "rating">>)],
   TopPeerCategory |->
     Cases({"TopPeerCategoryBotsPM", "TopPeerCategoryBotsInline", "TopPeerCategoryCorrespondents",
         "TopPeerCategoryGroups", "TopPeerCategoryChannels", "TopPeerCategoryPhoneCalls"},
             Nothing),
   TopPeerCategoryPeers |->
     [TopPeerCategoryPeers |-> Fields(<<"category", "count", "peers">>)],
   UpdatesState |-> [UpdatesState |-> Fields(<<"pts", "qts", "date", "seq", "unreadCount">>)],
   UploadCdnFile |->
     [UploadCdnFileReuploadNeeded |-> Fields(<<"requestToken">>),
       UploadCdnFile |-> Fields(<<"bytes">>)],
   UploadFile |->
     [UploadFile |-> Fields(<<"type", "mtime", "bytes">>),
       UploadFileCdnRedirect |-> Fields(<<"dcId", "fileToken", "encryptionKey", "encryptionIv",
           "cdnFileHashes">>)]]

\* The operators from TLUploadWebFile to TLAccountAuthorizations.
ReadersFromUploadWebFile ==
  [UploadWebFile |->
     [UploadWebFile |-> Fields(<<"size", "mimeType", "fileType", "mtime", "bytes">>)],
   UserProfilePhoto |->
     [UserProfilePhotoEmpty |-> Nothing,
       UserProfilePhoto |-> Fields(<<"photoId", "photoSmall", "photoBig">>)],
   UserStatus |->
     Cases({"UserStatusEmpty", "UserStatusRecently", "UserStatusLastWeek", "UserStatusLastMonth"},
             Nothing)
     @@ [UserStatusOnline |-> Fields(<<"expires">>),
         UserStatusOffline |-> Fields(<<"wasOnline">>)],
   WallPaper |->
     [WallPaper |-> Fields(<<"id", "title", "sizes", "color">>),
       WallPaperSolid |-> Fields(<<"id", "title", "bgColor", "color">>)],
   AccountAuthorizations |-> [AccountAuthorizations |-> Fields(<<"authorizations">>)]]

\* A variant that reads the timeout whatever the flags say.
ReadAuthSentCodeTimeout ==
  [AuthSentCode |-> Fields(<<"flags", "type", "phoneCodeHash">>) \o When("NextType", "nextType")
        \o Fields(<<"timeout">>)]

ReadAuthSentCode ==
  [AuthSentCode |-> Fields(<<"flags", "type", "phoneCodeHash">>) \o When("NextType", "nextType")
        \o When("Timeout", "timeout")]

\* The operators from TLCdnConfig to TLChannelParticipant.
ReadersFromCdnConfig ==
  [CdnConfig |-> [CdnConfig |-> Fields(<<"publicKeys">>)],
   ChannelAdminLogEventsFilter |-> [ChannelAdminLogEventsFilter |-> Fields(<<"flags">>)],
   ChannelAdminRights |-> [ChannelAdminRights |-> Fields(<<"flags">>)],
   ChannelBannedRights |-> [ChannelBannedRights |-> Fields(<<"flags", "untilDate">>)],
   ChannelMessagesFilter |->
     [ChannelMessagesFilterEmpty |-> Nothing,
       ChannelMessagesFilter |-> Fields(<<"flags", "ranges">>)],
   ChannelParticipant |->
     [ChannelParticipant |-> Fields(<<"userId", "date">>),
       ChannelParticipantSelf |-> Fields(<<"userId", "inviterId", "date">>),
       ChannelParticipantCreator |-> Fields(<<"userId">>),
       ChannelParticipantAdmin |-> Fields(<<"flags", "userId", "inviterId", "promotedBy", "date",
           "adminRights">>),
       ChannelParticipantBanned |-> Fields(<<"flags", "userId", "kickedBy", "date",
           "bannedRights">>)]]

\* The operators from TLChatPhoto to TLDraftMessage.
ReadersFromChatPhoto ==
  [ChatPhoto |->
     [ChatPhotoEmpty |-> Nothing, ChatPhoto |-> Fields(<<"photoSmall", "photoBig">>)],
   ContactStatus |-> [ContactStatus |-> Fields(<<"userId", "status">>)],
   DcOption |-> [DcOption |-> Fields(<<"flags", "id", "ipAddress", "port">>)],
   DocumentAttribute |->
     Cases({"DocumentAttributeAnimated", "DocumentAttributeHasStickers"}, Nothing)
     @@ [DocumentAttributeImageSize |-> Fields(<<"w", "h">>),
       DocumentAttributeSticker |-> Fields(<<"flags", "alt", "stickerset">>) \o When("MaskCoords",
           "maskCoords"),
       DocumentAttributeVideo |-> Fields(<<"flags", "duration", "w", "h">>),
       DocumentAttributeAudio |-> Fields(<<"flags", "duration">>) \o When("Title", "title")
           \o When("Performer", "performer") \o When("Waveform", "waveform"),
       DocumentAttributeFilename |-> Fields(<<"fileName">>)],
   DraftMessage |->
     [DraftMessageEmpty |-> Nothing,
       DraftMessage |-> Fields(<<"flags">>) \o When("ReplyToMsgId",
           "replyToMsgId") \o Fields(<<"message">>)
           \o When("Entities", "entities") \o Fields(<<"date">>)]]

\* The operators from TLHelpConfigSimple to TLInputPeerNotifySettings.
ReadersFromHelpConfigSimple ==
  [HelpConfigSimple |->
     [HelpConfigSimple |-> Fields(<<"date", "expires", "dcId", "ipPortList">>)],
   InputChatPhoto |->
     [InputChatPhotoEmpty |-> Nothing, InputChatUploadedPhoto |-> Fields(<<"file">>),
       InputChatPhoto |-> Fields(<<"id">>)],
   InputGame |->
     [InputGameID |-> Fields(<<"id", "accessHash">>),
       InputGameShortName |-> Fields(<<"botId", "shortName">>)],
   InputNotifyPeer |->
     Cases({"InputNotifyUsers", "InputNotifyChats", "InputNotifyAll"}, Nothing)
     @@ [InputNotifyPeer |-> Fields(<<"peer">>)],
   InputPaymentCredentials |->
     [InputPaymentCredentialsSaved |-> Fields(<<"id", "tmpPassword">>),
       InputPaymentCredentials |-> Fields(<<"flags", "data">>),
       InputPaymentCredentialsApplePay |-> Fields(<<"paymentData">>),
       InputPaymentCredentialsAndroidPay |-> Fields(<<"paymentToken">>)],
   InputPeerNotifySettings |->
     [InputPeerNotifySettings |-> Fields(<<"flags", "muteUntil", "sound">>)]]

\* The operators from TLInputPrivacyRule to TLKeyboardButtonRow.
ReadersFromInputPrivacyRule ==
  [InputPrivacyRule |->
     Cases({"InputPrivacyValueAllowContacts", "InputPrivacyValueAllowAll",
         "InputPrivacyValueDisallowContacts", "InputPrivacyValueDisallowAll"},
             Nothing)
     @@ Cases({"InputPrivacyValueAllowUsers", "InputPrivacyValueDisallowUsers"},
         Fields(<<"users">>)),
   InputStickerSetItem |->
     [InputStickerSetItem |-> Fields(<<"flags", "document", "emoji">>) \o When("MaskCoords",
         "maskCoords")],
   InputWebDocument |->
     [InputWebDocument |-> Fields(<<"url", "size", "mimeType", "attributes">>)],
   Invoice |-> [Invoice |-> Fields(<<"flags", "currency", "prices">>)],
   KeyboardButton |->
     Cases({"KeyboardButton", "KeyboardButtonRequestPhone", "KeyboardButtonRequestGeoLocation",
         "KeyboardButtonGame", "KeyboardButtonBuy"},
             Fields(<<"text">>))
     @@ [KeyboardButtonUrl |-> Fields(<<"text", "url">>),
       KeyboardButtonCallback |-> Fields(<<"text", "data">>),
       KeyboardButtonSwitchInline |-> Fields(<<"flags", "text", "query">>)],
   KeyboardButtonRow |-> [KeyboardButtonRow |-> Fields(<<"buttons">>)]]

\* The operators from TLLangPackDifference to TLNotifyPeer.
ReadersFromLangPackDifference ==
  [LangPackDifference |->
     [LangPackDifference |-> Fields(<<"langCode", "fromVersion", "version", "strings">>)],
   MessagesBotCallbackAnswer |->
     [MessagesBotCallbackAnswer |-> Fields(<<"flags">>) \o When("Message",
         "message") \o When("Url",
         "url")
           \o Fields(<<"cacheTime">>)],
   MessagesFilter |->
     Cases({"InputMessagesFilterEmpty", "InputMessagesFilterPhotos", "InputMessagesFilterVideo",
         "InputMessagesFilterPhotoVideo", "InputMessagesFilterDocument", "InputMessagesFilterUrl",
         "InputMessagesFilterGif", "InputMessagesFilterVoice", "InputMessagesFilterMusic",
         "InputMessagesFilterChatPhotos", "InputMessagesFilterRoundVoice",
         "InputMessagesFilterRoundVideo", "InputMessagesFilterMyMentions",
             "InputMessagesFilterGeo",
         "InputMessagesFilterContacts"},
             Nothing)
     @@ [InputMessagesFilterPhoneCalls |-> Fields(<<"flags">>)],
   MessagesMessageEditData |-> [MessagesMessageEditData |-> Fields(<<"flags">>)],
   NotifyPeer |->
     Cases({"NotifyUsers", "NotifyChats", "NotifyAll"}, Nothing)
     @@ [NotifyPeer |-> Fields(<<"peer">>)]]

\* The operators from TLPaymentRequestedInfo to TLPhoneCallProtocol.
ReadersFromPaymentRequestedInfo ==
  [PaymentRequestedInfo |->
     [PaymentRequestedInfo |-> Fields(<<"flags">>) \o When("Name", "name") \o When("Phone",
         "phone")
           \o When("Email", "email") \o When("ShippingAddress", "shippingAddress")],
   PaymentsSavedInfo |->
     [PaymentsSavedInfo |-> Fields(<<"flags">>) \o When("SavedInfo", "savedInfo")],
   PaymentsValidatedRequestedInfo |->
     [PaymentsValidatedRequestedInfo |-> Fields(<<"flags">>) \o When("Id",
         "id") \o When("ShippingOptions", "shippingOptions")],
   PeerNotifySettings |->
     [PeerNotifySettingsEmpty |-> Nothing,
       PeerNotifySettings |-> Fields(<<"flags", "muteUntil", "sound">>)],
   PeerSettings |-> [PeerSettings |-> Fields(<<"flags">>)],
   PhoneCallProtocol |-> [PhoneCallProtocol |-> Fields(<<"flags", "minLayer", "maxLayer">>)]]

\* The operators from TLPhoto to TLUser.
ReadersFromPhoto ==
  [Photo |->
     [PhotoEmpty |-> Fields(<<"id">>),
       Photo |-> Fields(<<"flags", "id", "accessHash", "date", "sizes">>)],
   ReplyMarkup |->
     Cases({"ReplyKeyboardHide", "ReplyKeyboardForceReply"}, Fields(<<"flags">>))
     @@ [ReplyKeyboardMarkup |-> Fields(<<"flags", "rows">>),
       ReplyInlineMarkup |-> Fields(<<"rows">>)],
   StickerSet |->
     [StickerSet |-> Fields(<<"flags", "id", "accessHash", "title", "shortName", "count",
         "hash">>)],
   User |->
     [UserEmpty |-> Fields(<<"id">>),
       User |-> Fields(<<"flags", "id">>) \o When("AccessHash", "accessHash")
           \o When("FirstName", "firstName") \o When("LastName", "lastName")
           \o When("Username", "username") \o When("Phone", "phone") \o When("Photo", "photo")
           \o When("Status", "status") \o When("BotInfoVersion", "botInfoVersion")
           \o When("RestrictionReason", "restrictionReason")
           \o When("BotInlinePlaceholder", "botInlinePlaceholder") \o When("LangCode",
               "langCode")]]

\* The operators from TLWebDocument to TLChannelsChannelParticipant.
ReadersFromWebDocument ==
  [WebDocument |->
     [WebDocument |-> Fields(<<"url", "accessHash", "size", "mimeType", "attributes", "dcId">>)],
   AccountPrivacyRules |-> [AccountPrivacyRules |-> Fields(<<"rules", "users">>)],
   AuthAuthorization |->
     [AuthAuthorization |-> Fields(<<"flags">>) \o When("TmpSessions",
         "tmpSessions") \o Fields(<<"user">>)],
   BotInlineMessage |->
     [BotInlineMessageMediaAuto |-> Fields(<<"flags", "caption">>) \o When("ReplyMarkup",
         "replyMarkup"),
       BotInlineMessageText |-> Fields(<<"flags", "message">>) \o When("Entities", "entities")
           \o When("ReplyMarkup", "replyMarkup"),
       BotInlineMessageMediaGeo |-> Fields(<<"flags", "geo", "period">>) \o When("ReplyMarkup",
           "replyMarkup"),
       BotInlineMessageMediaVenue |-> Fields(<<"flags", "geo", "title", "address", "provider",
           "venueId">>)
           \o When("ReplyMarkup", "replyMarkup"),
       BotInlineMessageMediaContact |-> Fields(<<"flags", "phoneNumber", "firstName",
           "lastName">>)
           \o When("ReplyMarkup", "replyMarkup")],
   ChannelsChannelParticipant |->
     [ChannelsChannelParticipant |-> Fields(<<"participant", "users">>)]]

\* The operators from TLChannelsChannelParticipants to TLChat.
ReadersFromChannelsChannelParticipants ==
  [ChannelsChannelParticipants |->
     [ChannelsChannelParticipants |-> Fields(<<"count", "participants", "users">>),
       ChannelsChannelParticipantsNotModified |-> Nothing],
   Chat |->
     [ChatEmpty |-> Fields(<<"id">>),
       Chat |-> Fields(<<"flags", "id", "title", "photo", "participantsCount", "date",
           "version">>)
           \o When("MigratedTo", "migratedTo"),
       ChatForbidden |-> Fields(<<"id", "title">>),
       Channel |-> Fields(<<"flags", "id">>) \o When("AccessHash",
           "accessHash") \o Fields(<<"title">>)
           \o When("Username", "username") \o Fields(<<"photo", "date", "version">>)
           \o When("RestrictionReason", "restrictionReason") \o When("AdminRights", "adminRights")
           \o When("BannedRights", "bannedRights"),
       ChannelForbidden |-> Fields(<<"flags", "id", "accessHash", "title">>) \o When("UntilDate",
           "untilDate")]]

\* The operators from TLChatFull to TLConfig.
ReadersFromChatFull ==
  [ChatFull |->
     [ChatFull |-> Fields(<<"id", "participants", "chatPhoto", "notifySettings", "exportedInvite",
         "botInfo">>),
       ChannelFull |-> Fields(<<"flags", "id", "about">>) \o When("ParticipantsCount",
           "participantsCount")
           \o When("AdminsCount", "adminsCount") \o When("KickedCount", "kickedCount")
           \o When("BannedCount", "bannedCount")
           \o Fields(<<"readInboxMaxId", "readOutboxMaxId", "unreadCount", "chatPhoto",
               "notifySettings", "exportedInvite", "botInfo">>)
           \o When("MigratedFromChatId", "migratedFromChatId")
           \o When("MigratedFromMaxId", "migratedFromMaxId") \o When("PinnedMsgId", "pinnedMsgId")
           \o When("Stickerset", "stickerset") \o When("AvailableMinId", "availableMinId")],
   ChatInvite |->
     [ChatInviteAlready |-> Fields(<<"chat">>),
       ChatInvite |-> Fields(<<"flags", "title", "photo", "participantsCount">>)
           \o When("Participants", "participants")],
   Config |->
     [Config |-> Fields(<<"flags", "date", "expires", "testMode", "thisDc", "dcOptions",
         "chatSizeMax", "megagroupSizeMax", "forwardedCountMax", "onlineUpdatePeriodMs",
         "offlineBlurTimeoutMs", "offlineIdleTimeoutMs", "onlineCloudTimeoutMs",
         "notifyCloudDelayMs", "notifyDefaultDelayMs", "chatBigSize", "pushChatPeriodMs",
         "pushChatLimit", "savedGifsLimit", "editTimeLimit", "ratingEDecay",
             "stickersRecentLimit",
         "stickersFavedLimit", "channelsReadMediaPeriod">>)
           \o When("TmpSessions", "tmpSessions")
           \o Fields(<<"pinnedDialogsCountMax", "callReceiveTimeoutMs", "callRingTimeoutMs",
               "callConnectTimeoutMs", "callPacketTimeoutMs", "meUrlPrefix">>)
           \o When("SuggestedLangCode", "suggestedLangCode")
           \o When("LangPackVersion", "langPackVersion") \o Fields(<<"disabledFeatures">>)]]

\* The operators from TLContactsBlocked to TLContactsResolvedPeer.
ReadersFromContactsBlocked ==
  [ContactsBlocked |->
     [ContactsBlocked |-> Fields(<<"blocked", "users">>),
       ContactsBlockedSlice |-> Fields(<<"count", "blocked", "users">>)],
   ContactsContacts |->
     [ContactsContactsNotModified |-> Nothing,
       ContactsContacts |-> Fields(<<"contacts", "savedCount", "users">>)],
   ContactsFound |-> [ContactsFound |-> Fields(<<"results", "chats", "users">>)],
   ContactsImportedContacts |->
     [ContactsImportedContacts |-> Fields(<<"imported", "popularInvites", "retryContacts",
         "users">>)],
   ContactsLink |-> [ContactsLink |-> Fields(<<"myLink", "foreignLink", "user">>)],
   ContactsResolvedPeer |-> [ContactsResolvedPeer |-> Fields(<<"peer", "chats", "users">>)]]

\* The operators from TLContactsTopPeers to TLGame.
ReadersFromContactsTopPeers ==
  [ContactsTopPeers |->
     [ContactsTopPeersNotModified |-> Nothing,
       ContactsTopPeers |-> Fields(<<"categories", "chats", "users">>)],
   Dialog |->
     [Dialog |-> Fields(<<"flags", "peer", "topMessage", "readInboxMaxId", "readOutboxMaxId",
         "unreadCount", "unreadMentionsCount", "notifySettings">>)
           \o When("Pts", "pts") \o When("Draft", "draft")],
   Document |->
     [DocumentEmpty |-> Fields(<<"id">>),
       Document |-> Fields(<<"id", "accessHash", "date", "mimeType", "size", "thumb", "dcId",
           "version", "attributes">>)],
   FoundGif |->
     [FoundGif |-> Fields(<<"url", "thumbUrl", "contentUrl", "contentType", "w", "h">>),
       FoundGifCached |-> Fields(<<"url", "photo", "document">>)],
   Game |->
     [Game |-> Fields(<<"flags", "id", "accessHash", "shortName", "title", "description",
         "photo">>)
           \o When("Document", "document")]]

\* The operators from TLHelpSupport to TLInputBotInlineMessage.
ReadersFromHelpSupport ==
  [HelpSupport |-> [HelpSupport |-> Fields(<<"phoneNumber", "user">>)],
   InputBotInlineMessage |->
     [InputBotInlineMessageMediaAuto |-> Fields(<<"flags", "caption">>) \o When("ReplyMarkup",
         "replyMarkup"),
       InputBotInlineMessageText |-> Fields(<<"flags", "message">>) \o When("Entities",
           "entities")
           \o When("ReplyMarkup", "replyMarkup"),
       InputBotInlineMessageMediaGeo |-> Fields(<<"flags", "geoPoint",
           "period">>) \o When("ReplyMarkup", "replyMarkup"),
       InputBotInlineMessageMediaVenue |-> Fields(<<"flags", "geoPoint", "title", "address",
           "provider", "venueId">>)
           \o When("ReplyMarkup", "replyMarkup"),
       InputBotInlineMessageMediaContact |-> Fields(<<"flags", "phoneNumber", "firstName",
           "lastName">>)
           \o When("ReplyMarkup", "replyMarkup"),
       InputBotInlineMessageGame |-> Fields(<<"flags">>) \o When("ReplyMarkup", "replyMarkup")]]

ReadersFromInputBotInlineResult ==
  [InputBotInlineResult |->
     [InputBotInlineResult |-> Fields(<<"flags", "id", "type">>) \o When("Title", "title")
           \o When("Description", "description") \o When("Url", "url")
           \o When("ThumbUrl", "thumbUrl") \o When("ContentUrl", "contentUrl")
           \o When("ContentType", "contentType") \o When("W", "w") \o When("H", "h")
           \o When("Duration", "duration") \o Fields(<<"sendMessage">>),
       InputBotInlineResultPhoto |-> Fields(<<"id", "type", "photo", "sendMessage">>),
       InputBotInlineResultDocument |-> Fields(<<"flags", "id", "type">>) \o When("Title",
           "title")
           \o When("Description", "description") \o Fields(<<"document", "sendMessage">>),
       InputBotInlineResultGame |-> Fields(<<"id", "shortName", "sendMessage">>)]]

ReadersFromInputMedia ==
  [InputMedia |->
     Cases({"InputMediaPhotoExternal", "InputMediaDocumentExternal"},
             Fields(<<"flags", "url", "caption">>) \o When("TtlSeconds0", "ttlSeconds"))
     @@ [InputMediaEmpty |-> Nothing,
       InputMediaUploadedPhoto |-> Fields(<<"flags", "file", "caption">>) \o When("Stickers",
           "stickers")
           \o When("TtlSeconds1", "ttlSeconds"),
       InputMediaPhoto |-> Fields(<<"flags", "inputPhotoId", "caption">>) \o When("TtlSeconds0",
           "ttlSeconds"),
       InputMediaGeoPoint |-> Fields(<<"geoPoint">>),
       InputMediaContact |-> Fields(<<"phoneNumber", "firstName", "lastName">>),
       InputMediaUploadedDocument |-> Fields(<<"flags", "file">>) \o When("Thumb", "thumb")
           \o Fields(<<"mimeType", "attributes", "caption">>) \o When("Stickers", "stickers")
           \o When("TtlSeconds1", "ttlSeconds"),
       InputMediaDocument |-> Fields(<<"flags", "inputDocumentId",
           "caption">>) \o When("TtlSeconds0", "ttlSeconds"),
       InputMediaVenue |-> Fields(<<"geoPoint", "title", "address", "provider", "venueId",
           "venueType">>),
       InputMediaGifExternal |-> Fields(<<"url", "q">>),
       InputMediaGame |-> Fields(<<"inputGameId">>),
       InputMediaInvoice |-> Fields(<<"flags", "title", "description">>) \o When("Photo", "photo")
           \o Fields(<<"invoice", "payload", "provider", "startParam">>),
       InputMediaGeoLive |-> Fields(<<"geoPoint", "period">>)]]

\* The operators from TLMessageAction to TLMessagesChats.
ReadersFromMessageAction ==
  [MessageAction |->
     Cases({"MessageActionEmpty", "MessageActionChatDeletePhoto", "MessageActionPinMessage",
         "MessageActionHistoryClear", "MessageActionScreenshotTaken"},
             Nothing)
     @@ Cases({"MessageActionChatEditTitle", "MessageActionChannelCreate"}, Fields(<<"title">>))
     @@ [MessageActionChatCreate |-> Fields(<<"title", "users">>),
       MessageActionChatEditPhoto |-> Fields(<<"photo">>),
       MessageActionChatAddUser |-> Fields(<<"users">>),
       MessageActionChatDeleteUser |-> Fields(<<"userId">>),
       MessageActionChatJoinedByLink |-> Fields(<<"inviterId">>),
       MessageActionChatMigrateTo |-> Fields(<<"channelId">>),
       MessageActionChannelMigrateFrom |-> Fields(<<"title", "chatId">>),
       MessageActionGameScore |-> Fields(<<"gameId", "score">>),
       MessageActionPaymentSentMe |-> Fields(<<"flags", "currency", "totalAmount",
           "payload">>) \o When("Info", "info")
           \o When("ShippingOptionId", "shippingOptionId") \o Fields(<<"charge">>),
       MessageActionPaymentSent |-> Fields(<<"currency", "totalAmount">>),
       MessageActionPhoneCall |-> Fields(<<"flags", "callId">>) \o When("Reason", "reason")
           \o When("Duration", "duration"),
       MessageActionCustomAction |-> Fields(<<"message">>)],
   MessagesAllStickers |->
     [MessagesAllStickersNotModified |-> Nothing,
       MessagesAllStickers |-> Fields(<<"hash", "sets">>)],
   MessagesChatFull |-> [MessagesChatFull |-> Fields(<<"fullChat", "chats", "users">>)],
   MessagesChats |->
     [MessagesChats |-> Fields(<<"chats">>), MessagesChatsSlice |-> Fields(<<"count", "chats">>)]]

\* The operators from TLMessagesFavedStickers to TLMessagesStickers.
ReadersFromMessagesFavedStickers ==
  [MessagesFavedStickers |->
     [MessagesFavedStickersNotModified |-> Nothing,
       MessagesFavedStickers |-> Fields(<<"hash", "packs", "stickers">>)],
   MessagesFoundGifs |-> [MessagesFoundGifs |-> Fields(<<"nextOffset", "results">>)],
   MessagesHighScores |-> [MessagesHighScores |-> Fields(<<"scores", "users">>)],
   MessagesRecentStickers |->
     [MessagesRecentStickersNotModified |-> Nothing,
       MessagesRecentStickers |-> Fields(<<"hash", "stickers">>)],
   MessagesSavedGifs |->
     [MessagesSavedGifsNotModified |-> Nothing, MessagesSavedGifs |-> Fields(<<"hash", "gifs">>)],
   MessagesStickerSet |-> [MessagesStickerSet |-> Fields(<<"set", "packs", "documents">>)],
   MessagesStickers |->
     [MessagesStickersNotModified |-> Nothing, MessagesStickers |-> Fields(<<"hash",
         "stickers">>)]]

\* The operators from TLPageBlock to TLPaymentsPaymentForm.
ReadersFromPageBlock ==
  [PageBlock |->
     Cases({"PageBlockUnsupported", "PageBlockDivider"}, Nothing)
     @@ Cases({"PageBlockTitle", "PageBlockSubtitle", "PageBlockHeader", "PageBlockSubheader",
         "PageBlockParagraph", "PageBlockFooter"},
             Fields(<<"text">>))
     @@ Cases({"PageBlockBlockquote", "PageBlockPullquote"}, Fields(<<"text", "caption">>))
     @@ Cases({"PageBlockCollage", "PageBlockSlideshow"},
             Fields(<<"pageBlockItemsVector", "caption">>))
     @@ [PageBlockAuthorDate |-> Fields(<<"richTextAuthor", "publishedDate">>),
       PageBlockPreformatted |-> Fields(<<"text", "language">>),
       PageBlockAnchor |-> Fields(<<"name">>),
       PageBlockList |-> Fields(<<"ordered", "richTextItemsVector">>),
       PageBlockPhoto |-> Fields(<<"photoId", "caption">>),
       PageBlockVideo |-> Fields(<<"flags", "videoId", "caption">>),
       PageBlockCover |-> Fields(<<"cover">>),
       PageBlockEmbed |-> Fields(<<"flags">>) \o When("Url", "url") \o When("Html", "html")
           \o When("PosterPhotoId", "posterPhotoId") \o Fields(<<"w", "h", "caption">>),
       PageBlockEmbedPost |-> Fields(<<"url", "webpageId", "authorPhotoId", "stringAuthor",
           "date",
           "blocks", "caption">>),
       PageBlockChannel |-> Fields(<<"channel">>),
       PageBlockAudio |-> Fields(<<"audioId", "caption">>)],
   PaymentsPaymentForm |->
     [PaymentsPaymentForm |-> Fields(<<"flags", "botId", "invoice", "providerId", "url">>)
           \o When("NativeProvider", "nativeProvider") \o When("NativeParams", "nativeParams")
           \o When("SavedInfo", "savedInfo") \o When("SavedCredentials", "savedCredentials")
           \o Fields(<<"users">>)]]

\* The operators from TLPaymentsPaymentReceipt to TLPhotosPhoto.
ReadersFromPaymentsPaymentReceipt ==
  [PaymentsPaymentReceipt |->
     [PaymentsPaymentReceipt |-> Fields(<<"flags", "date", "botId", "invoice",
         "providerId">>) \o When("Info", "info")
           \o When("Shipping", "shipping")
           \o Fields(<<"currency", "totalAmount", "credentialsTitle", "users">>)],
   PhoneCall |->
     [PhoneCallEmpty |-> Fields(<<"id">>),
       PhoneCallWaiting |-> Fields(<<"flags", "id", "accessHash", "date", "adminId",
           "participantId", "protocol">>)
           \o When("ReceiveDate", "receiveDate"),
       PhoneCallRequested |-> Fields(<<"id", "accessHash", "date", "adminId", "participantId",
           "gAHash", "protocol">>),
       PhoneCallAccepted |-> Fields(<<"id", "accessHash", "date", "adminId", "participantId",
           "gB",
           "protocol">>),
       PhoneCall |-> Fields(<<"id", "accessHash", "date", "adminId", "participantId", "gAOrB",
           "keyFingerprint", "protocol", "connection", "alternativeConnections", "startDate">>),
       PhoneCallDiscarded |-> Fields(<<"flags", "id">>) \o When("Reason",
           "reason") \o When("Duration", "duration")],
   PhonePhoneCall |-> [PhonePhoneCall |-> Fields(<<"phoneCall", "users">>)],
   PhotosPhoto |-> [PhotosPhoto |-> Fields(<<"photo", "users">>)]]

\* The operators from TLPhotosPhotos to TLBotInlineResult.
ReadersFromPhotosPhotos ==
  [PhotosPhotos |->
     [PhotosPhotos |-> Fields(<<"photos", "users">>),
       PhotosPhotosSlice |-> Fields(<<"count", "photos", "users">>)],
   StickerSetCovered |->
     [StickerSetCovered |-> Fields(<<"set", "cover">>),
       StickerSetMultiCovered |-> Fields(<<"set", "covers">>)],
   UserFull |->
     [UserFull |-> Fields(<<"flags", "user">>) \o When("About", "about") \o Fields(<<"link">>)
           \o When("ProfilePhoto", "profilePhoto") \o Fields(<<"notifySettings">>)
           \o When("BotInfo", "botInfo") \o Fields(<<"commonChatsCount">>)],
   BotInlineResult |->
     [BotInlineResult |-> Fields(<<"flags", "id", "type">>) \o When("Title1", "title")
           \o When("Description2", "description") \o When("Url", "url")
           \o When("ThumbUrl", "thumbUrl") \o When("ContentUrl", "contentUrl")
           \o When("ContentType", "contentType") \o When("W", "w") \o When("H", "h")
           \o When("Duration", "duration") \o Fields(<<"sendMessage">>),
       BotInlineMediaResult |-> Fields(<<"flags", "id", "type">>) \o When("Photo", "photo")
           \o When("Document", "document") \o When("Title2", "title")
           \o When("Description3", "description") \o Fields(<<"sendMessage">>)]]

\* The operators from TLMessagesArchivedStickers to TLRecentMeUrl.
ReadersFromMessagesArchivedStickers ==
  [MessagesArchivedStickers |-> [MessagesArchivedStickers |-> Fields(<<"count", "sets">>)],
   MessagesBotResults |->
     [MessagesBotResults |-> Fields(<<"flags", "queryId">>) \o When("NextOffset", "nextOffset")
           \o When("SwitchPm", "switchPm") \o Fields(<<"results", "cacheTime", "users">>)],
   MessagesFeaturedStickers |->
     [MessagesFeaturedStickersNotModified |-> Nothing,
       MessagesFeaturedStickers |-> Fields(<<"hash", "sets", "unread">>)],
   MessagesStickerSetInstallResult |->
     [MessagesStickerSetInstallResultSuccess |-> Nothing,
       MessagesStickerSetInstallResultArchive |-> Fields(<<"sets">>)],
   Page |-> Cases({"PagePart", "PageFull"}, Fields(<<"blocks", "photos", "documents">>)),
   RecentMeUrl |->
     [RecentMeUrlUnknown |-> Fields(<<"url">>), RecentMeUrlUser |-> Fields(<<"url", "userId">>),
       RecentMeUrlChat |-> Fields(<<"url", "chatId">>),
       RecentMeUrlChatInvite |-> Fields(<<"url", "chatInvite">>),
       RecentMeUrlStickerSet |-> Fields(<<"url", "set">>)]]

\* The operators from TLWebPage to TLHelpRecentMeUrls.
ReadersFromWebPage ==
  [WebPage |->
     [WebPageEmpty |-> Fields(<<"id">>), WebPagePending |-> Fields(<<"id", "date">>),
       WebPage |-> Fields(<<"flags", "id", "url", "displayUrl", "hash">>) \o When("Type", "type")
           \o When("SiteName", "siteName") \o When("Title", "title")
           \o When("Description", "description") \o When("Photo", "photo")
           \o When("EmbedUrl", "embedUrl") \o When("EmbedType", "embedType")
           \o When("EmbedWidth", "embedWidth") \o When("EmbedHeight", "embedHeight")
           \o When("Duration", "duration") \o When("Author", "author")
           \o When("Document", "document") \o When("CachedPage", "cachedPage"),
       WebPageNotModified |-> Nothing],
   HelpRecentMeUrls |-> [HelpRecentMeUrls |-> Fields(<<"urls", "chats", "users">>)]]

ReadersFromMessageMedia ==
  [MessageMedia |->
     Cases({"MessageMediaEmpty", "MessageMediaUnsupported"}, Nothing)
     @@ [MessageMediaPhoto |-> Fields(<<"flags">>) \o When("Photo", "photo") \o When("Caption",
         "caption")
           \o When("TtlSeconds", "ttlSeconds"),
       MessageMediaGeo |-> Fields(<<"geo">>),
       MessageMediaContact |-> Fields(<<"phoneNumber", "firstName", "lastName", "userId">>),
       MessageMediaDocument |-> Fields(<<"flags">>) \o When("Document",
           "document") \o When("Caption", "caption")
           \o When("TtlSeconds", "ttlSeconds"),
       MessageMediaWebPage |-> Fields(<<"webpage">>),
       MessageMediaVenue |-> Fields(<<"geo", "title", "address", "provider", "venueId",
           "venueType">>),
       MessageMediaGame |-> Fields(<<"game">>),
       MessageMediaInvoice |-> Fields(<<"flags", "title", "description">>)
           \o When("WebDocumentPhoto", "webDocumentPhoto") \o When("ReceiptMsgId", "receiptMsgId")
           \o Fields(<<"currency", "totalAmount", "startParam">>),
       MessageMediaGeoLive |-> Fields(<<"geo", "period">>)]]

\* The operators from TLMessage to TLMessagesMessages.
ReadersFromMessage ==
  [Message |->
     [MessageEmpty |-> Fields(<<"id">>),
       Message |-> Fields(<<"flags", "id">>) \o When("FromId", "fromId") \o Fields(<<"toId">>)
           \o When("FwdFrom", "fwdFrom") \o When("ViaBotId", "viaBotId")
           \o When("ReplyToMsgId", "replyToMsgId") \o Fields(<<"date", "message">>)
           \o When("Media", "media") \o When("ReplyMarkup", "replyMarkup")
           \o When("Entities", "entities") \o When("Views", "views")
           \o When("EditDate", "editDate") \o When("PostAuthor", "postAuthor"),
       MessageService |-> Fields(<<"flags", "id">>) \o When("FromId",
           "fromId") \o Fields(<<"toId">>)
           \o When("ReplyToMsgId", "replyToMsgId") \o Fields(<<"date", "action">>)],
   MessagesDialogs |->
     [MessagesDialogs |-> Fields(<<"dialogs", "messages", "chats", "users">>),
       MessagesDialogsSlice |-> Fields(<<"count", "dialogs", "messages", "chats", "users">>)],
   MessagesMessages |->
     [MessagesMessages |-> Fields(<<"messages", "chats", "users">>),
       MessagesMessagesSlice |-> Fields(<<"count", "messages", "chats", "users">>),
       MessagesChannelMessages |-> Fields(<<"flags", "pts", "count", "messages", "chats",
           "users">>),
       MessagesMessagesNotModified |-> Fields(<<"count">>)]]

ReadersFromMessagesPeerDialogs ==
  [MessagesPeerDialogs |->
     [MessagesPeerDialogs |-> Fields(<<"dialogs", "messages", "chats", "users", "state">>)]]

ReadersFromUpdate ==
  [Update |->
     Cases({"UpdateNewMessage", "UpdateNewChannelMessage", "UpdateEditChannelMessage",
         "UpdateEditMessage"},
             Fields(<<"message", "pts", "ptsCount">>))
     @@ Cases({"UpdateDeleteMessages", "UpdateReadMessagesContents"},
             Fields(<<"messages", "pts", "ptsCount">>))
     @@ Cases({"UpdateReadHistoryInbox", "UpdateReadHistoryOutbox"},
             Fields(<<"peer", "maxId", "pts", "ptsCount">>))
     @@ Cases({"UpdateReadChannelInbox", "UpdateReadChannelOutbox"}, Fields(<<"channelId",
         "maxId">>))
     @@ Cases({"UpdateStickerSets", "UpdateSavedGifs", "UpdateReadFeaturedStickers",
         "UpdateRecentStickers", "UpdateConfig", "UpdatePtsChanged", "UpdateLangPackTooLong",
         "UpdateFavedStickers", "UpdateContactsReset"},
             Nothing)
     @@ [UpdateMessageID |-> Fields(<<"quint32Id", "randomId">>),
       UpdateUserTyping |-> Fields(<<"userId", "action">>),
       UpdateChatUserTyping |-> Fields(<<"chatId", "userId", "action">>),
       UpdateChatParticipants |-> Fields(<<"participants">>),
       UpdateUserStatus |-> Fields(<<"userId", "status">>),
       UpdateUserName |-> Fields(<<"userId", "firstName", "lastName", "username">>),
       UpdateUserPhoto |-> Fields(<<"userId", "date", "photo", "previous">>),
       UpdateContactRegistered |-> Fields(<<"userId", "date">>),
       UpdateContactLink |-> Fields(<<"userId", "myLink", "foreignLink">>),
       UpdateNewEncryptedMessage |-> Fields(<<"encryptedMessage", "qts">>),
       UpdateEncryptedChatTyping |-> Fields(<<"chatId">>),
       UpdateEncryption |-> Fields(<<"chat", "date">>),
       UpdateEncryptedMessagesRead |-> Fields(<<"chatId", "maxDate", "date">>),
       UpdateChatParticipantAdd |-> Fields(<<"chatId", "userId", "inviterId", "date",
           "version">>),
       UpdateChatParticipantDelete |-> Fields(<<"chatId", "userId", "version">>),
       UpdateDcOptions |-> Fields(<<"dcOptions">>),
       UpdateUserBlocked |-> Fields(<<"userId", "blocked">>),
       UpdateNotifySettings |-> Fields(<<"notifyPeer", "notifySettings">>),
       UpdateServiceNotification |-> Fields(<<"flags">>) \o When("InboxDate", "inboxDate")
           \o Fields(<<"type", "stringMessage", "media", "entities">>),
       UpdatePrivacy |-> Fields(<<"key", "rules">>),
       UpdateUserPhone |-> Fields(<<"userId", "phone">>),
       UpdateWebPage |-> Fields(<<"webpage", "pts", "ptsCount">>),
       UpdateChannelTooLong |-> Fields(<<"flags", "channelId">>) \o When("Pts", "pts"),
       UpdateChannel |-> Fields(<<"channelId">>),
       UpdateDeleteChannelMessages |-> Fields(<<"channelId", "messages", "pts", "ptsCount">>),
       UpdateChannelMessageViews |-> Fields(<<"channelId", "quint32Id", "views">>),
       UpdateChatAdmins |-> Fields(<<"chatId", "enabled", "version">>),
       UpdateChatParticipantAdmin |-> Fields(<<"chatId", "userId", "isAdmin", "version">>),
       UpdateNewStickerSet |-> Fields(<<"stickerset">>),
       UpdateStickerSetsOrder |-> Fields(<<"flags", "quint64OrderVector">>),
       UpdateBotInlineQuery |-> Fields(<<"flags", "queryId", "userId", "query">>) \o When("Geo",
           "geo")
           \o Fields(<<"offset">>),
       UpdateBotInlineSend |-> Fields(<<"flags", "userId", "query">>) \o When("Geo",
           "geo") \o Fields(<<"stringId">>)
           \o When("InputBotInlineMessageIDMsgId", "inputBotInlineMessageIDMsgId"),
       UpdateChannelPinnedMessage |-> Fields(<<"channelId", "quint32Id">>),
       UpdateBotCallbackQuery |-> Fields(<<"flags", "queryId", "userId", "peer", "msgId",
           "chatInstance">>)
           \o When("ByteArrayData", "byteArrayData") \o When("GameShortName", "gameShortName"),
       UpdateInlineBotCallbackQuery |-> Fields(<<"flags", "queryId", "userId",
           "inputBotInlineMessageIDMsgId", "chatInstance">>)
           \o When("ByteArrayData", "byteArrayData") \o When("GameShortName", "gameShortName"),
       UpdateDraftMessage |-> Fields(<<"peer", "draft">>),
       UpdateChannelWebPage |-> Fields(<<"channelId", "webpage", "pts", "ptsCount">>),
       UpdateDialogPinned |-> Fields(<<"flags", "peer">>),
       UpdatePinnedDialogs |-> Fields(<<"flags">>) \o When("PeerOrderVector", "peerOrderVector"),
       UpdateBotWebhookJSON |-> Fields(<<"jSONData">>),
       UpdateBotWebhookJSONQuery |-> Fields(<<"queryId", "jSONData", "timeout">>),
       UpdateBotShippingQuery |-> Fields(<<"queryId", "userId", "payload", "shippingAddress">>),
       UpdateBotPrecheckoutQuery |-> Fields(<<"flags", "queryId", "userId",
           "payload">>) \o When("Info", "info")
           \o When("ShippingOptionId", "shippingOptionId") \o Fields(<<"currency",
               "totalAmount">>),
       UpdatePhoneCall |-> Fields(<<"phoneCall">>), UpdateLangPack |-> Fields(<<"difference">>),
       UpdateChannelReadMessagesContents |-> Fields(<<"channelId", "messages">>),
       UpdateChannelAvailableMessages |-> Fields(<<"channelId", "availableMinId">>)]]

\* The operators from TLUpdates to TLUpdatesChannelDifference.
ReadersFromUpdates ==
  [Updates |->
     [UpdatesTooLong |-> Nothing,
       UpdateShortMessage |-> Fields(<<"flags", "id", "userId", "message", "pts", "ptsCount",
           "date">>)
           \o When("FwdFrom", "fwdFrom") \o When("ViaBotId", "viaBotId")
           \o When("ReplyToMsgId", "replyToMsgId") \o When("Entities", "entities"),
       UpdateShortChatMessage |-> Fields(<<"flags", "id", "fromId", "chatId", "message", "pts",
           "ptsCount", "date">>)
           \o When("FwdFrom", "fwdFrom") \o When("ViaBotId", "viaBotId")
           \o When("ReplyToMsgId", "replyToMsgId") \o When("Entities", "entities"),
       UpdateShort |-> Fields(<<"update", "date">>),
       UpdatesCombined |-> Fields(<<"updates", "users", "chats", "date", "seqStart", "seq">>),
       Updates |-> Fields(<<"updates", "users", "chats", "date", "seq">>),
       UpdateShortSentMessage |-> Fields(<<"flags", "id", "pts", "ptsCount",
           "date">>) \o When("Media", "media")
           \o When("Entities", "entities")],
   UpdatesChannelDifference |->
     [UpdatesChannelDifferenceEmpty |-> Fields(<<"flags", "pts">>) \o When("Timeout", "timeout"),
       UpdatesChannelDifferenceTooLong |-> Fields(<<"flags", "pts">>) \o When("Timeout",
           "timeout")
           \o Fields(<<"topMessage", "readInboxMaxId", "readOutboxMaxId", "unreadCount",
               "unreadMentionsCount", "messages", "chats", "users">>),
       UpdatesChannelDifference |-> Fields(<<"flags", "pts">>) \o When("Timeout", "timeout")
           \o Fields(<<"newMessages", "otherUpdates", "chats", "users">>)]]

\* The operators from TLUpdatesDifference to TLChannelAdminLogEvent.
ReadersFromUpdatesDifference ==
  [UpdatesDifference |->
     [UpdatesDifferenceEmpty |-> Fields(<<"date", "seq">>),
       UpdatesDifference |-> Fields(<<"newMessages", "newEncryptedMessages", "otherUpdates",
           "chats", "users", "state">>),
       UpdatesDifferenceSlice |-> Fields(<<"newMessages", "newEncryptedMessages", "otherUpdates",
           "chats", "users", "intermediateState">>),
       UpdatesDifferenceTooLong |-> Fields(<<"pts">>)],
   ChannelAdminLogEventAction |->
     Cases({"ChannelAdminLogEventActionChangeTitle", "ChannelAdminLogEventActionChangeAbout",
         "ChannelAdminLogEventActionChangeUsername"},
             Fields(<<"prevValue", "stringNewValue">>))
     @@ Cases({"ChannelAdminLogEventActionToggleInvites",
         "ChannelAdminLogEventActionToggleSignatures",
         "ChannelAdminLogEventActionTogglePreHistoryHidden"},
             Fields(<<"boolNewValue">>))
     @@ Cases({"ChannelAdminLogEventActionUpdatePinned",
         "ChannelAdminLogEventActionDeleteMessage"},
             Fields(<<"message">>))
     @@ Cases({"ChannelAdminLogEventActionParticipantJoin",
         "ChannelAdminLogEventActionParticipantLeave"},
             Nothing)
     @@ Cases({"ChannelAdminLogEventActionParticipantToggleBan",
         "ChannelAdminLogEventActionParticipantToggleAdmin"},
             Fields(<<"prevParticipant", "newParticipant">>))
     @@ [ChannelAdminLogEventActionChangePhoto |-> Fields(<<"prevPhoto", "newPhoto">>),
       ChannelAdminLogEventActionEditMessage |-> Fields(<<"prevMessage", "newMessage">>),
       ChannelAdminLogEventActionParticipantInvite |-> Fields(<<"participant">>),
       ChannelAdminLogEventActionChangeStickerSet |-> Fields(<<"prevStickerset",
           "newStickerset">>)],
   PaymentsPaymentResult |->
     [PaymentsPaymentResult |-> Fields(<<"updates">>),
       PaymentsPaymentVerficationNeeded |-> Fields(<<"url">>)],
   ChannelAdminLogEvent |->
     [ChannelAdminLogEvent |-> Fields(<<"id", "date", "userId", "action">>)]]

ReadersFromChannelsAdminLogResults ==
  [ChannelsAdminLogResults |->
     [ChannelsAdminLogResults |-> Fields(<<"events", "chats", "users">>)]]

\* The operators by the type they read.
Readers ==
  ReadersFromAccountDaysTTL @@ ReadersFromAuthCodeType @@ ReadersFromBotCommand
    @@ ReadersFromChatParticipants @@ ReadersFromDestroySessionRes @@ ReadersFromError
    @@ ReadersFromHelpAppUpdate @@ ReadersFromInputAppEvent @@ ReadersFromInputEncryptedFile
    @@ ReadersFromInputPeerNotifyEvents @@ ReadersFromInputWebFileLocation
    @@ ReadersFromMessageEntity @@ ReadersFromMessagesDhConfig @@ ReadersFromMsgsStateInfo
    @@ ReadersFromPeer @@ ReadersFromPopularContact @@ ReadersFromResPQ
    @@ ReadersFromServerDHInnerData @@ ReadersFromTopPeer @@ ReadersFromUploadWebFile
    @@ [AuthSentCode |-> ReadAuthSentCode] @@ ReadersFromCdnConfig @@ ReadersFromChatPhoto
    @@ ReadersFromHelpConfigSimple @@ ReadersFromInputPrivacyRule
    @@ ReadersFromLangPackDifference @@ ReadersFromPaymentRequestedInfo @@ ReadersFromPhoto
    @@ ReadersFromWebDocument @@ ReadersFromChannelsChannelParticipants @@ ReadersFromChatFull
    @@ ReadersFromContactsBlocked @@ ReadersFromContactsTopPeers @@ ReadersFromHelpSupport
    @@ ReadersFromInputBotInlineResult @@ ReadersFromInputMedia @@ ReadersFromMessageAction
    @@ ReadersFromMessagesFavedStickers @@ ReadersFromPageBlock
    @@ ReadersFromPaymentsPaymentReceipt @@ ReadersFromPhotosPhotos
    @@ ReadersFromMessagesArchivedStickers @@ ReadersFromWebPage @@ ReadersFromMessageMedia
    @@ ReadersFromMessage @@ ReadersFromMessagesPeerDialogs @@ ReadersFromUpdate
    @@ ReadersFromUpdates @@ ReadersFromUpdatesDifference @@ ReadersFromChannelsAdminLogResults
=============================================================================
